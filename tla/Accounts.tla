------------------------------ MODULE Accounts ------------------------------
(***************************************************************************)
(* Sign-in, password tokens and user administration: AuthService and       *)
(* UsersService.  A service reads a whole user row and later writes the    *)
(* whole row back with the fields it means to change.                      *)
(***************************************************************************)
EXTENDS BackOfficeStore

(* The account that a request is about: a link names it by its token.      *)
Subject(c) == IF ask[c].op \in {"reset", "set"} THEN tokens[ask[c].token].user ELSE ask[c].user
Live(u) == users[u].present /\ ~users[u].deleted

(* Mutant: resetting a password makes the account active. *)
WrittenActive(c) ==
    CASE Op(c) \in {"reset", "set"} -> [req[c].row EXCEPT !.password = c, !.status = "active"]
      [] Op(c) \in {"confirmOtp", "password", "myPassword"} -> [req[c].row EXCEPT !.password = c]
      [] Op(c) = "update" -> [req[c].row EXCEPT !.role = ask[c].role]
      [] Op(c) = "status" -> [req[c].row EXCEPT !.status = ask[c].status]
      [] OTHER -> req[c].row

(* The row that the request writes over the one it read.                   *)
Written(c) ==
    LET row == req[c].row
    IN  CASE Op(c) \in {"reset", "confirmOtp", "password", "myPassword"} ->
               [row EXCEPT !.password = c]
          [] Op(c) = "set" -> [row EXCEPT !.password = c, !.status = "active"]
          [] Op(c) = "update" -> [row EXCEPT !.role = ask[c].role]
          [] Op(c) = "status" -> [row EXCEPT !.status = ask[c].status]
          [] OTHER -> row

(* The fields that a request sets on purpose.                              *)
Sets(c) ==
    CASE Op(c) \in {"set", "create"} -> {"password", "status"}
      [] Op(c) \in {"reset", "confirmOtp", "password", "myPassword"} -> {"password"}
      [] Op(c) \in {"status", "softDelete"} -> {"status"}
      [] OTHER -> {}

UserOps == {"login", "reset", "set", "confirmOtp", "create", "update", "password",
            "myPassword", "status", "softDelete"}
AloneOn(u, c) == \A d \in req[c].met : ask[d].op \notin UserOps \/ Subject(d) # u

(* History of a statement of c that leaves row in the table.               *)
Note(u, c, row) ==
    quiet' = [quiet EXCEPT ![u] =
                [f \in {"status", "password"} |->
                   IF f \notin Sets(c) THEN @[f]
                   ELSE IF AloneOn(u, c) THEN {row[f]} ELSE {}]]

-----------------------------------------------------------------------------
(* Reads *)

Presented(c) == ask[c].password = users[Subject(c)].password
Refused(c) ==
    CASE Op(c) = "login" -> ~Presented(c) \/ users[Subject(c)].status # "active"
      [] Op(c) = "myPassword" -> ~Presented(c)
      [] OTHER -> FALSE

FindUser(c) ==
    /\ At(c, "findUser")
    /\ \/ /\ Live(Subject(c)) /\ ~Refused(c)
          /\ Proceed(c, [req[c] EXCEPT !.row = users[Subject(c)]])
       \/ /\ Live(Subject(c)) /\ Refused(c)
          /\ Answer(c, "refused")
       \/ /\ ~Live(Subject(c))      \* forgot-password does not tell
          /\ Answer(c, IF Op(c) = "forgot" THEN "ok" ELSE "refused")
    /\ UNCHANGED <<tables, ask, clock, crashes, history>>

Usable(t, purpose) == /\ tokens[t].status = "issued" /\ ~tokens[t].expired
                      /\ tokens[t].purpose = purpose

FindToken(c) ==
    /\ At(c, "findToken")
    /\ IF Usable(ask[c].token, IF Op(c) = "set" THEN "set_password" ELSE "forgot_password")
       THEN Proceed(c, [req[c] EXCEPT !.token = ask[c].token])
       ELSE Answer(c, "refused")
    /\ UNCHANGED <<tables, ask, clock, crashes, history>>

(* The newest code of the user, compared with the one that was typed.      *)
FindOtp(c) ==
    LET codes == {t \in Clients : tokens[t].user = Subject(c) /\ Usable(t, "change_password")}
        newest == {t \in codes : \A s \in codes : tokens[s].at <= tokens[t].at}
    IN  /\ At(c, "findOtp")
        /\ IF ask[c].token \in newest
           THEN Proceed(c, [req[c] EXCEPT !.token = ask[c].token])
           ELSE Answer(c, "refused")
        /\ UNCHANGED <<tables, ask, clock, crashes, history>>

(* The super administrator changes the password without a code.  The       *)
(* created_at of the code is taken here.                                   *)
CheckRole(c) ==
    /\ At(c, "checkRole")
    /\ IF req[c].row.role = SuperRole
       THEN Answer(c, "refused") /\ UNCHANGED clock
       ELSE /\ Proceed(c, [req[c] EXCEPT !.at = clock + 1])
            /\ clock' = clock + 1
    /\ UNCHANGED <<tables, ask, crashes, history>>

(* An e-mail address in use is refused.                                    *)
FindEmail(c) ==
    /\ At(c, "findEmail")
    /\ IF Live(Subject(c)) THEN Answer(c, "refused") ELSE Go(c)
    /\ UNCHANGED <<tables, ask, clock, crashes, history>>

-----------------------------------------------------------------------------
(* Writes *)

OpenSession(c) ==
    /\ At(c, "openSession")
    /\ sessions' = [sessions EXCEPT ![c] = "active"]
    /\ Go(c)
    /\ UNCHANGED <<users, tokens, roles, rows, setting, ask, clock, crashes, history>>

CloseSession(c) ==
    /\ At(c, "closeSession")
    /\ sessions' = [sessions EXCEPT ![ask[c].session] = IF @ = "none" THEN @ ELSE "revoked"]
    /\ Go(c)
    /\ UNCHANGED <<users, tokens, roles, rows, setting, ask, clock, crashes, history>>

(* Mutant: UPDATE users ... WHERE id = ? alone. *)
MatchesAny(u) == users[u].present

(* UPDATE users ... WHERE id = ? AND deleted_at IS NULL: no row of a       *)
(* deleted account matches.  The foreign key wants the role to exist.      *)
Matches(u) == Live(u)

WriteUser(c) ==
    LET u == Subject(c)
    IN  /\ At(c, "writeUser")
        /\ \/ /\ Matches(u) /\ Written(c).role \in roles
              /\ users' = [users EXCEPT ![u] = Written(c)]
              /\ Note(u, c, Written(c))
              /\ Go(c)
           \/ /\ Matches(u) /\ Written(c).role \notin roles
              /\ Answer(c, "failed")
              /\ UNCHANGED <<users, quiet>>
           \/ /\ ~Matches(u)
              /\ Go(c)
              /\ UNCHANGED <<users, quiet>>
        /\ UNCHANGED <<tokens, sessions, roles, rows, setting, ask, clock, crashes, exact, asked>>

(* The address of a deleted account is still in its row, and unique.       *)
InsertUser(c) ==
    LET u == Subject(c)
        row == [present |-> TRUE, deleted |-> FALSE, status |-> "inactive",
                password |-> c, role |-> ask[c].role]
    IN  /\ At(c, "insertUser")
        /\ IF users[u].present \/ ask[c].role \notin roles
           THEN Answer(c, "failed") /\ UNCHANGED <<users, quiet>>
           ELSE users' = [users EXCEPT ![u] = row] /\ Note(u, c, row) /\ Go(c)
        /\ UNCHANGED <<tokens, sessions, roles, rows, setting, ask, clock, crashes, exact, asked>>

SoftDelete(c) ==
    LET u == Subject(c)
        row == [users[u] EXCEPT !.deleted = TRUE, !.status = "inactive"]
    IN  /\ At(c, "softDelete")
        /\ IF Live(u)
           THEN users' = [users EXCEPT ![u] = row] /\ Note(u, c, row)
           ELSE UNCHANGED <<users, quiet>>
        /\ Go(c)
        /\ UNCHANGED <<tokens, sessions, roles, rows, setting, ask, clock, crashes, exact, asked>>

PurposeOf(op) == CASE op = "forgot" -> "forgot_password"
                   [] op = "requestOtp" -> "change_password"
                   [] OTHER -> "set_password"

(* Mutant: earlier links of the kind are not revoked. *)
RevokedByNone(c) == {}

RevokedBy(c) == {t \in Clients : /\ tokens[t].user = Subject(c) /\ tokens[t].status = "issued"
                                 /\ tokens[t].purpose = PurposeOf(Op(c))}

RevokeTokens(c) ==
    /\ At(c, "revokeTokens")
    /\ tokens' = [t \in Clients |-> IF t \in RevokedBy(c)
                                    THEN [tokens[t] EXCEPT !.status = "revoked"] ELSE tokens[t]]
    /\ Go(c)
    /\ UNCHANGED <<users, sessions, roles, rows, setting, ask, clock, crashes, history>>

MintToken(c) ==
    /\ At(c, "mintToken")
    /\ tokens' = [tokens EXCEPT ![c] =
                    [user |-> Subject(c), purpose |-> PurposeOf(Op(c)), at |-> req[c].at,
                     expired |-> FALSE, status |-> "issued"]]
    /\ Go(c)
    /\ UNCHANGED <<users, sessions, roles, rows, setting, ask, clock, crashes, history>>

(* Mutant: a status that the ENUM of the column does not have. *)
MarkUsedUp(c) ==
    /\ At(c, "markUsed")
    /\ tokens' = [tokens EXCEPT ![req[c].token].status = "consumed"]
    /\ Go(c)
    /\ UNCHANGED <<users, sessions, roles, rows, setting, ask, clock, crashes, history>>

MarkUsed(c) ==
    /\ At(c, "markUsed")
    /\ tokens' = [tokens EXCEPT ![req[c].token].status = "used"]
    /\ Go(c)
    /\ UNCHANGED <<users, sessions, roles, rows, setting, ask, clock, crashes, history>>

(* Time passes: expires_at is 15 minutes to 48 hours away.                 *)
Expire(t) ==
    /\ tokens[t].status = "issued" /\ ~tokens[t].expired
    /\ tokens' = [tokens EXCEPT ![t].expired = TRUE]
    /\ UNCHANGED <<users, sessions, roles, rows, setting, ask, req, clock, crashes, history>>

AccountStep(c) ==
    \/ FindUser(c) \/ FindToken(c) \/ FindOtp(c) \/ CheckRole(c) \/ FindEmail(c)
    \/ OpenSession(c) \/ CloseSession(c) \/ WriteUser(c)
    \/ InsertUser(c) \/ SoftDelete(c) \/ RevokeTokens(c) \/ MintToken(c) \/ MarkUsed(c)
    \/ Expire(c)
=============================================================================

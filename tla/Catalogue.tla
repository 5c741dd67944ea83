----------------------------- MODULE Catalogue -----------------------------
(***************************************************************************)
(* Roles with their permissions, and the settings' lists: RbacService and  *)
(* SettingsService.  Each list is replaced by a DELETE of all its rows and *)
(* then one INSERT per row, all sent at once (Promise.all).                *)
(***************************************************************************)
EXTENDS BackOfficeStore

Replaces == {"grants", "deleteRole", "settings"}
(* The lists that a request replaces, and what it wants in them.           *)
ListsOf(c) == IF Op(c) = "settings" THEN ask[c].lists ELSE <<ask[c].role>>
Wanted(c, t) == IF Op(c) = "deleteRole" THEN {} ELSE ask[c].want[t]
TouchedBy(c) == IF Op(c) \in Replaces THEN {ListsOf(c)[i] : i \in DOMAIN ListsOf(c)} ELSE {}
AloneIn(t, c) == \A d \in req[c].met : t \notin TouchedBy(d)

FindRole(c) ==
    /\ At(c, "findRole")
    /\ IF /\ ask[c].role \in roles
          /\ ~(Op(c) = "deleteRole" /\ ask[c].role \in SystemRoles)
       THEN Proceed(c, [req[c] EXCEPT !.lists = IF Op(c) \in Replaces THEN ListsOf(c) ELSE <<>>])
       ELSE Answer(c, "refused")
    /\ UNCHANGED <<tables, ask, clock, crashes, history>>

FindCode(c) ==
    /\ At(c, "findCode")
    /\ IF ask[c].role \in roles THEN Answer(c, "refused") ELSE Go(c)
    /\ UNCHANGED <<tables, ask, clock, crashes, history>>

(* A second role with the code violates its UNIQUE key.                    *)
InsertRole(c) ==
    /\ At(c, "insertRole")
    /\ IF ask[c].role \in roles THEN Answer(c, "failed") ELSE Go(c)
    /\ roles' = roles \cup {ask[c].role}
    /\ UNCHANGED <<users, tokens, sessions, rows, setting, ask, clock, crashes, history>>

(* Deleted accounts are not counted.                                       *)
CountUsers(c) ==
    /\ At(c, "countUsers")
    /\ IF \E u \in Users : users[u].present /\ ~users[u].deleted /\ users[u].role = ask[c].role
       THEN Answer(c, "refused") ELSE Go(c)
    /\ UNCHANGED <<tables, ask, clock, crashes, history>>

(* The settings request has no role to look up: its first statement lists  *)
(* what it replaces.                                                       *)
Upsert(c) ==
    /\ At(c, "upsert")
    /\ setting' = {c}
    /\ Proceed(c, [req[c] EXCEPT !.lists = ListsOf(c)])
    /\ UNCHANGED <<users, tokens, sessions, roles, rows, ask, clock, crashes, history>>

(* Mutant: no DELETE before the INSERTs. *)
ClearedOf(t) == rows

Cleared(t) == [rows EXCEPT ![t] = {}]

(* Keys whose INSERT into the list is still to come.                       *)
Pending(t) == UNION {req[d].todo : d \in {e \in Running : At(e, "insert") /\ Head(req[e].lists) = t}}

Clear(c) ==
    LET t == Head(req[c].lists)
    IN  /\ At(c, "clear")
        /\ rows' = Cleared(t)
        /\ Proceed(c, [req[c] EXCEPT !.todo = Wanted(c, t)])
        /\ asked' = [asked EXCEPT ![t] = Pending(t) \cup Wanted(c, t)]
        /\ exact' = [exact EXCEPT ![t] = {}]
        /\ UNCHANGED <<users, tokens, sessions, roles, setting, ask, clock, crashes, quiet>>

Accepts(t, k) == /\ k \notin rows[t] /\ k \notin Unacceptable
                 /\ t \in Lists \/ t \in roles

(* One of the INSERTs, in any order.  One that fails fails the request,    *)
(* and those already sent go on.                                           *)
Insert(c, k) ==
    LET t == Head(req[c].lists)
    IN  /\ At(c, "insert") /\ k \in req[c].todo
        /\ rows' = IF Accepts(t, k) THEN [rows EXCEPT ![t] = @ \cup {k}] ELSE rows
        /\ req' = [req EXCEPT ![c].todo = @ \ {k}, ![c].failing = @ \/ ~Accepts(t, k)]
        /\ UNCHANGED <<users, tokens, sessions, roles, setting, ask, clock, crashes, history>>

(* Mutant: the INSERTs are not awaited. *)
SettleAtOnce(c) ==
    LET t == Head(req[c].lists)
    IN  /\ At(c, "insert") /\ ~req[c].failing
        /\ Proceed(c, [req[c] EXCEPT !.lists = Tail(@)])
        /\ exact' = [exact EXCEPT ![t] = IF AloneIn(t, c) THEN {Wanted(c, t)} ELSE {}]
        /\ UNCHANGED <<tables, ask, clock, crashes, quiet, asked>>

(* All INSERTs of the list are done.                                       *)
Settle(c) ==
    LET t == Head(req[c].lists)
    IN  /\ At(c, "insert") /\ req[c].todo = {}
        /\ \/ /\ req[c].failing
              /\ Answer(c, "failed")
              /\ UNCHANGED exact
           \/ /\ ~req[c].failing
              /\ Proceed(c, [req[c] EXCEPT !.lists = Tail(@)])
              /\ exact' = [exact EXCEPT ![t] = IF AloneIn(t, c) THEN {Wanted(c, t)} ELSE {}]
        /\ UNCHANGED <<tables, ask, clock, crashes, quiet, asked>>

(* The foreign keys of users and role_permissions restrict the DELETE.     *)
Referenced(r) == rows[r] # {} \/ \E u \in Users : users[u].present /\ users[u].role = r

DropRole(c) ==
    /\ At(c, "deleteRole")
    /\ IF Referenced(ask[c].role)
       THEN Answer(c, "failed") /\ UNCHANGED roles
       ELSE Go(c) /\ roles' = roles \ {ask[c].role}
    /\ UNCHANGED <<users, tokens, sessions, rows, setting, ask, clock, crashes, history>>

CatalogueStep(c) ==
    \/ FindRole(c) \/ FindCode(c) \/ InsertRole(c) \/ CountUsers(c) \/ Upsert(c)
    \/ Clear(c) \/ (\E k \in Keys : Insert(c, k)) \/ Settle(c) \/ DropRole(c)
=============================================================================

-------------------------- MODULE BackOfficeStore --------------------------
(***************************************************************************)
(* The tables behind the accounts, the roles and the settings, and the     *)
(* requests that work on them.  A request is the list of the statements    *)
(* that its service method still has to await: nothing runs in a           *)
(* transaction, so requests interleave between any two of them.            *)
(***************************************************************************)
EXTENDS Naturals, Sequences, FiniteSets

CONSTANTS
    Users,          \* accounts, each with an e-mail address of its own
    Roles,          \* role ids
    SuperRole,      \* the role with code super_admin
    SystemRoles,    \* the roles of SYSTEM_ROLE_CODES
    Lists,          \* the two lists that the settings replace as a whole
    Keys,           \* permissions, codes of tenor bands, codes of channels
    Unacceptable,   \* keys whose row a CHECK of the table refuses
    Clients,        \* requests; each also names the token or session it makes
    Scenarios,      \* the requests that run side by side: functions of clients
    FirstUsers, FirstRows, FirstTokens,   \* contents of the tables at the start
    MaxCrashes      \* bound on restarts of the API

Tables == Roles \cup Lists
Status == {"active", "inactive", "suspended"}
Purposes == {"forgot_password", "set_password", "change_password"}
Passwords == Clients \cup {"first"}

UserRow == [present : BOOLEAN, deleted : BOOLEAN, status : Status,
            password : Passwords, role : Roles]
Token == [user : Users, purpose : Purposes, at : Nat, expired : BOOLEAN,
          status : {"none", "issued", "used", "revoked"}]

ASSUME StoreAssumption ==
    /\ SystemRoles \subseteq Roles /\ Unacceptable \subseteq Keys
    /\ FirstUsers \in [Users -> UserRow]
    /\ FirstRows \in [Tables -> SUBSET Keys]
    /\ FirstTokens \in [Clients -> Token]
    /\ MaxCrashes \in Nat

(* What a request asks for, as the DTO of its route validates it: links    *)
(* name a token, everything else the account it is about.                  *)
LinkOps == {"reset", "set"}
MintOps == {"forgot", "requestOtp", "create", "invite"}
RoleOps == {"create", "update", "createRole", "deleteRole", "grants"}
OtherOps == {"login", "logout", "confirmOtp", "password", "myPassword", "status",
             "softDelete", "settings"}

WellFormed(a) ==
    /\ a.op \in LinkOps \cup MintOps \cup RoleOps \cup OtherOps
    /\ IF a.op \in LinkOps THEN a.token \in Clients ELSE a.user \in Users
    /\ a.op \in RoleOps => a.role \in Roles
    /\ a.op = "status" => a.status \in Status
    /\ a.op = "grants" => a.want[a.role] \subseteq Keys
    /\ a.op = "settings" => /\ a.lists \in Seq(Lists)
                            /\ \A i \in DOMAIN a.lists : a.want[a.lists[i]] \subseteq Keys

(* An account is removed by a mark in its row.  Of the links of a kind     *)
(* that an account was mailed before, one works at most, and none is the   *)
(* link of a request still to come.                                        *)
ASSUME RequestAssumption ==
    /\ \A s \in Scenarios : DOMAIN s \subseteq Clients /\ \A c \in DOMAIN s :
         WellFormed(s[c]) /\ (s[c].op \in MintOps => FirstTokens[c].status = "none")
    /\ Users # {} /\ \A u \in Users : FirstUsers[u].deleted => FirstUsers[u].present
    /\ \A c, d \in Clients :
         /\ FirstTokens[c].status = "issued" /\ FirstTokens[d].status = "issued"
         /\ FirstTokens[c].user = FirstTokens[d].user
         /\ FirstTokens[c].purpose = FirstTokens[d].purpose
         => c = d

VARIABLES
    users,      \* users
    tokens,     \* password_reset_tokens, by the request that made the token
    sessions,   \* auth_sessions, by the login that opened the session
    roles,      \* roles
    rows,       \* role_permissions of each role; tenor_bands; source_channels
    setting,    \* system_settings: the request that wrote it last
    ask,        \* what each client asks for
    req,        \* how far its request is
    clock,      \* created_at of the tokens
    crashes,    \* restarts so far
    quiet,      \* history: fields last written by a request that ran alone
    exact,      \* history: lists last replaced by a request that ran alone
    asked       \* history: keys that may be in each list since it was emptied

tables == <<users, tokens, sessions, roles, rows, setting>>
history == <<quiet, exact, asked>>
vars == <<tables, ask, req, clock, crashes, history>>

-----------------------------------------------------------------------------
(* The methods of the services, as the statements they await.              *)

Login == <<"findUser", "openSession", "writeUser">>
Logout == <<"closeSession">>
ForgotPassword == <<"findUser", "revokeTokens", "mintToken">>
ResetPassword == <<"findToken", "findUser", "writeUser", "markUsed">>
SetPassword == <<"findToken", "findUser", "writeUser", "markUsed">>
RequestOtp == <<"findUser", "checkRole", "revokeTokens", "mintToken">>
ConfirmOtp == <<"findUser", "findOtp", "writeUser", "markUsed">>
CreateUser == <<"findEmail", "findRole", "insertUser", "revokeTokens", "mintToken">>
ResendInvite == <<"findUser", "revokeTokens", "mintToken">>
UpdateUser == <<"findUser", "findRole", "writeUser">>
UpdatePassword == <<"findUser", "writeUser">>
UpdateMyPassword == <<"findUser", "writeUser">>
ChangeStatus == <<"findUser", "writeUser">>
BulkSoftDelete == <<"softDelete">>
CreateRole == <<"findCode", "insertRole">>
DeleteRole == <<"findRole", "countUsers", "clear", "deleteRole">>
SetGrants == <<"findRole", "clear", "insert">>

(* The settings replace the lists that the payload holds, one by one.      *)
UpdateSettings(a) ==
    <<"upsert">> \o [i \in 1 .. 2 * Len(a.lists) |->
                        IF i % 2 = 1 THEN "clear" ELSE "insert"]

StepsOf(a) ==
    CASE a.op = "login" -> Login
      [] a.op = "logout" -> Logout
      [] a.op = "forgot" -> ForgotPassword
      [] a.op = "reset" -> ResetPassword
      [] a.op = "set" -> SetPassword
      [] a.op = "requestOtp" -> RequestOtp
      [] a.op = "confirmOtp" -> ConfirmOtp
      [] a.op = "create" -> CreateUser
      [] a.op = "invite" -> ResendInvite
      [] a.op = "update" -> UpdateUser
      [] a.op = "password" -> UpdatePassword
      [] a.op = "myPassword" -> UpdateMyPassword
      [] a.op = "status" -> ChangeStatus
      [] a.op = "softDelete" -> BulkSoftDelete
      [] a.op = "createRole" -> CreateRole
      [] a.op = "deleteRole" -> DeleteRole
      [] a.op = "grants" -> SetGrants
      [] a.op = "settings" -> UpdateSettings(a)

-----------------------------------------------------------------------------
(* Requests.  met: the requests that were under way at the same time.      *)

Op(c) == ask[c].op
Running == {c \in Clients : req[c].state = "running"}
At(c, step) == c \in Running /\ Head(req[c].rest) = step

(* The request goes on to the next statement, or answers.                  *)
Next1(r) == IF Len(r.rest) = 1 THEN [r EXCEPT !.rest = <<>>, !.state = "ok"]
                               ELSE [r EXCEPT !.rest = Tail(@)]
Proceed(c, r) == req' = [req EXCEPT ![c] = Next1(r)]
Go(c) == Proceed(c, req[c])
Answer(c, state) == req' = [req EXCEPT ![c].state = state, ![c].rest = <<>>]

Begin(c) ==
    /\ c \in DOMAIN ask /\ req[c].state = "waiting"
    /\ req' = [d \in Clients |->
                 CASE d = c -> [req[c] EXCEPT !.state = "running", !.met = Running,
                                              !.rest = StepsOf(ask[c])]
                   [] d \in Running -> [req[d] EXCEPT !.met = @ \cup {c}]
                   [] OTHER -> req[d]]
    /\ UNCHANGED <<tables, ask, clock, crashes, history>>

(* The API process restarts: what was under way is never answered.         *)
CrashApi ==
    /\ crashes < MaxCrashes /\ Running # {}
    /\ req' = [c \in Clients |->
                 IF c \in Running THEN [req[c] EXCEPT !.state = "lost", !.rest = <<>>]
                                  ELSE req[c]]
    /\ crashes' = crashes + 1
    /\ UNCHANGED <<tables, ask, clock, history>>

FirstRequest == [state |-> "waiting", rest |-> <<>>, row |-> FirstUsers[CHOOSE u \in Users : TRUE],
                 token |-> CHOOSE c \in Clients : TRUE, todo |-> {}, lists |-> <<>>,
                 at |-> 0, failing |-> FALSE, met |-> {}]

Init ==
    /\ users = FirstUsers /\ rows = FirstRows /\ tokens = FirstTokens
    /\ sessions = [c \in Clients |-> "none"]
    /\ roles = Roles \ {r \in Roles : \E s \in Scenarios : \E c \in DOMAIN s :
                                        s[c].op = "createRole" /\ s[c].role = r}
    /\ setting = {}
    /\ ask \in Scenarios
    /\ req = [c \in Clients |-> FirstRequest]
    /\ clock = 0 /\ crashes = 0
    /\ quiet = [u \in Users |-> [status |-> {}, password |-> {}]]
    /\ exact = [t \in Tables |-> {}]
    /\ asked = FirstRows
=============================================================================

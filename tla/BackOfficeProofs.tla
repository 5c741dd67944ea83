-------------------------- MODULE BackOfficeProofs --------------------------
(***************************************************************************)
(* What requests of the back office cannot do to each other, for every     *)
(* choice of the constants: any number of accounts, roles, lists, requests *)
(* and restarts.  First the types of the tables, of the requests and of    *)
(* the histories, and how far along its statements each request is; then   *)
(* the safety properties, each with an invariant of its own.               *)
(***************************************************************************)
EXTENDS BackOffice, TLAPS

Statements ==
    {"findUser", "findToken", "findOtp", "findEmail", "findRole", "findCode", "checkRole",
     "countUsers", "openSession", "closeSession", "writeUser", "insertUser", "softDelete",
     "revokeTokens", "mintToken", "markUsed", "insertRole", "deleteRole", "upsert", "clear",
     "insert"}
Ops == LinkOps \cup MintOps \cup RoleOps \cup OtherOps
Request == [state : {"waiting", "running", "ok", "refused", "failed", "lost"},
            rest : Seq(Statements), row : UserRow, token : Clients, todo : SUBSET Keys,
            lists : Seq(Tables), at : Nat, failing : BOOLEAN, met : SUBSET Clients]

-----------------------------------------------------------------------------
(* What stands next to what in the statements of a method.                 *)

First(x, op) ==
    /\ x \in {"findUser", "findToken", "findEmail", "closeSession", "softDelete", "findCode",
              "findRole", "upsert"}
    /\ x = "findRole" => op \in {"deleteRole", "grants"}
    /\ op \in LinkOps => x = "findToken"

(* The methods in which a statement stands.                                *)
Stands(x, op) ==
    /\ x = "findToken" => op \in LinkOps
    /\ x = "findRole" => op \in RoleOps
    /\ x = "insertRole" => op = "createRole"
    /\ x = "insertUser" => op = "create"
    /\ x = "softDelete" => op = "softDelete"
    /\ x = "writeUser" => op \in UserOps \ {"create", "softDelete"}
    /\ x = "upsert" => op = "settings"
    /\ x \in {"revokeTokens", "mintToken"} => op \in MintOps
    /\ x \in {"countUsers", "deleteRole"} => op = "deleteRole"
    /\ x = "clear" => op \in Replaces
    /\ x = "insert" => op \in {"grants", "settings"}
    /\ x = "findOtp" => op = "confirmOtp"
    /\ x = "markUsed" => op \in LinkOps \cup {"confirmOtp"}

(* A statement x that is followed by y.                                    *)
Follows(x, y, op) ==
    /\ y = "mintToken" <=> x = "revokeTokens"
    /\ x = "findToken" => y = "findUser"
    /\ x = "upsert" => y = "clear"
    /\ x # "mintToken"
    /\ y = "writeUser" => \/ x \in {"findUser", "openSession", "findOtp"}
                          \/ x = "findRole" /\ op = "update"
    /\ y \in {"openSession", "findOtp"} => x = "findUser"
    /\ y = "findRole" /\ op = "update" => x = "findUser"
    /\ y \notin {"findToken", "softDelete", "upsert", "closeSession"}
    /\ y = "countUsers" => x = "findRole" /\ op = "deleteRole"
    /\ y = "clear" => \/ x = "findRole" /\ op = "grants"
                      \/ x = "countUsers" /\ op = "deleteRole"
                      \/ x \in {"upsert", "insert"} /\ op = "settings"
    /\ y = "insert" => x = "clear"
    /\ y = "markUsed" => x = "writeUser"
    /\ y = "writeUser" /\ op = "confirmOtp" => x = "findOtp"

Ordered(s, op) ==
    /\ s \in Seq(Statements) /\ Len(s) > 0 /\ First(s[1], op)
    /\ \A p \in 1 .. Len(s) : Stands(s[p], op)
    /\ \A p \in 1 .. Len(s) - 1 : Follows(s[p], s[p + 1], op)

LEMMA SettingsOrdered ==
    ASSUME NEW a, WellFormed(a), a.op = "settings"
    PROVE  /\ Ordered(StepsOf(a), a.op)
           /\ Len(StepsOf(a)) = 1 + 2 * Len(a.lists)
<1>. DEFINE n == Len(a.lists)
            r == [i \in 1 .. 2 * n |-> IF i % 2 = 1 THEN "clear" ELSE "insert"]
            s == <<"upsert">> \o r
<1>1. n \in Nat /\ 2 * n \in Nat
  BY DEF WellFormed
<1>2. StepsOf(a) = s
  BY DEF StepsOf, UpdateSettings
<1>3. r \in [1 .. 2 * n -> Statements] /\ \A i \in 1 .. 2 * n :
        r[i] = IF i % 2 = 1 THEN "clear" ELSE "insert"
  BY DEF Statements
<1>. HIDE DEF r, n
<1>4. r \in Seq(Statements) /\ Len(r) = 2 * n
  BY <1>1, <1>3
<1>10. s \in Seq(Statements) /\ Len(s) = 1 + 2 * n /\ s[1] = "upsert"
  BY <1>1, <1>4 DEF Statements
<1>11. \A i \in 1 .. 2 * n : s[i + 1] = r[i]
  BY <1>1, <1>4 DEF Statements
<1>. HIDE DEF s
<1>5. \A p \in 2 .. Len(s) : s[p] = IF p % 2 = 0 THEN "clear" ELSE "insert"
  <2>. TAKE p \in 2 .. Len(s)
  <2>1. p - 1 \in 1 .. 2 * n /\ (p - 1) + 1 = p /\ ((p - 1) % 2 = 1 <=> p % 2 = 0)
    BY <1>1, <1>10
  <2>2. s[p] = r[p - 1]
    BY <1>11, <2>1
  <2>. QED
    BY <1>3, <2>1, <2>2
<1>6. \A p \in 1 .. Len(s) : \/ s[p] = "upsert" /\ p = 1
                             \/ s[p] = "clear" /\ p % 2 = 0
                             \/ s[p] = "insert" /\ p > 1 /\ p % 2 = 1
  <2>. TAKE p \in 1 .. Len(s)
  <2>1. p = 1 \/ p \in 2 .. Len(s)
    BY <1>1, <1>10
  <2>. QED
    BY <1>10, <1>5, <2>1
<1>7. \A p \in 1 .. Len(s) : Stands(s[p], a.op)
  BY <1>6 DEF Stands, Replaces
<1>8. \A p \in 1 .. Len(s) - 1 : Follows(s[p], s[p + 1], a.op)
  <2>. TAKE p \in 1 .. Len(s) - 1
  <2>1. p \in 1 .. Len(s) /\ p + 1 \in 2 .. Len(s) /\ (p % 2 = 0 <=> (p + 1) % 2 = 1)
    BY <1>1, <1>10
  <2>2. /\ s[p + 1] = IF p % 2 = 1 THEN "clear" ELSE "insert"
        /\ \/ s[p] = "upsert" /\ p % 2 = 1
           \/ s[p] = "clear" /\ p % 2 = 0
           \/ s[p] = "insert" /\ p % 2 = 1
    BY <1>5, <1>6, <2>1
  <2>. QED
    BY <2>2 DEF Follows
<1>9. Ordered(s, a.op)
  BY <1>1, <1>10, <1>7, <1>8 DEF Ordered, First, LinkOps
<1>. QED
  BY <1>2, <1>10, <1>9 DEF n

LEMMA MethodsOrdered ==
    ASSUME NEW a, WellFormed(a)
    PROVE  Ordered(StepsOf(a), a.op)
<1>1.
    /\ First("findUser", "login") /\ First("closeSession", "logout") /\ First("findUser", "forgot")
    /\ First("findToken", "reset") /\ First("findToken", "set") /\ First("findUser", "requestOtp")
    /\ First("findUser", "confirmOtp") /\ First("findEmail", "create") /\ First("findUser", "invite")
    /\ First("findUser", "update") /\ First("findUser", "password")
    /\ First("findUser", "myPassword") /\ First("findUser", "status")
    /\ First("softDelete", "softDelete") /\ First("findCode", "createRole")
    /\ First("findRole", "deleteRole") /\ First("findRole", "grants")
  BY DEF First, LinkOps
<1>2.
    /\ Stands("findUser", "login") /\ Stands("openSession", "login") /\ Stands("writeUser", "login")
    /\ Stands("closeSession", "logout") /\ Stands("findUser", "forgot")
    /\ Stands("revokeTokens", "forgot") /\ Stands("mintToken", "forgot")
    /\ Stands("findToken", "reset") /\ Stands("findUser", "reset") /\ Stands("writeUser", "reset")
    /\ Stands("markUsed", "reset") /\ Stands("findToken", "set") /\ Stands("findUser", "set")
    /\ Stands("writeUser", "set") /\ Stands("markUsed", "set") /\ Stands("findUser", "requestOtp")
    /\ Stands("checkRole", "requestOtp") /\ Stands("revokeTokens", "requestOtp")
    /\ Stands("mintToken", "requestOtp") /\ Stands("findUser", "confirmOtp")
    /\ Stands("findOtp", "confirmOtp") /\ Stands("writeUser", "confirmOtp")
    /\ Stands("markUsed", "confirmOtp") /\ Stands("findEmail", "create")
    /\ Stands("findRole", "create") /\ Stands("insertUser", "create")
    /\ Stands("revokeTokens", "create") /\ Stands("mintToken", "create")
    /\ Stands("findUser", "invite") /\ Stands("revokeTokens", "invite")
    /\ Stands("mintToken", "invite") /\ Stands("findUser", "update") /\ Stands("findRole", "update")
    /\ Stands("writeUser", "update") /\ Stands("findUser", "password")
    /\ Stands("writeUser", "password") /\ Stands("findUser", "myPassword")
    /\ Stands("writeUser", "myPassword") /\ Stands("findUser", "status")
    /\ Stands("writeUser", "status") /\ Stands("softDelete", "softDelete")
    /\ Stands("findCode", "createRole") /\ Stands("insertRole", "createRole")
    /\ Stands("findRole", "deleteRole") /\ Stands("countUsers", "deleteRole")
    /\ Stands("clear", "deleteRole") /\ Stands("deleteRole", "deleteRole")
    /\ Stands("findRole", "grants") /\ Stands("clear", "grants") /\ Stands("insert", "grants")
  BY DEF Stands, LinkOps, MintOps, RoleOps, UserOps, Replaces
<1>3.
    /\ Follows("findUser", "openSession", "login") /\ Follows("openSession", "writeUser", "login")
    /\ Follows("findUser", "revokeTokens", "forgot")
    /\ Follows("revokeTokens", "mintToken", "forgot") /\ Follows("findToken", "findUser", "reset")
    /\ Follows("findUser", "writeUser", "reset") /\ Follows("writeUser", "markUsed", "reset")
    /\ Follows("findToken", "findUser", "set") /\ Follows("findUser", "writeUser", "set")
    /\ Follows("writeUser", "markUsed", "set") /\ Follows("findUser", "checkRole", "requestOtp")
    /\ Follows("checkRole", "revokeTokens", "requestOtp")
    /\ Follows("revokeTokens", "mintToken", "requestOtp")
    /\ Follows("findUser", "findOtp", "confirmOtp") /\ Follows("findOtp", "writeUser", "confirmOtp")
    /\ Follows("writeUser", "markUsed", "confirmOtp") /\ Follows("findEmail", "findRole", "create")
    /\ Follows("findRole", "insertUser", "create") /\ Follows("insertUser", "revokeTokens", "create")
    /\ Follows("revokeTokens", "mintToken", "create")
    /\ Follows("findUser", "revokeTokens", "invite")
    /\ Follows("revokeTokens", "mintToken", "invite") /\ Follows("findUser", "findRole", "update")
    /\ Follows("findRole", "writeUser", "update") /\ Follows("findUser", "writeUser", "password")
    /\ Follows("findUser", "writeUser", "myPassword") /\ Follows("findUser", "writeUser", "status")
    /\ Follows("findCode", "insertRole", "createRole")
    /\ Follows("findRole", "countUsers", "deleteRole")
    /\ Follows("countUsers", "clear", "deleteRole") /\ Follows("clear", "deleteRole", "deleteRole")
    /\ Follows("findRole", "clear", "grants") /\ Follows("clear", "insert", "grants")
  BY DEF Follows
<1>4. CASE a.op \in {"login", "logout", "forgot"}
  <2>1. Ordered(Login, "login")
    <3>1. /\ Login \in Seq(Statements) /\ Len(Login) = 3 /\ Login[1] = "findUser"
          /\ Login[2] = "openSession" /\ Login[3] = "writeUser"
      BY DEF Login, Statements
    <3>. QED
      BY <1>1, <1>2, <1>3, <3>1 DEF Ordered
  <2>2. Ordered(Logout, "logout")
    <3>1. /\ Logout \in Seq(Statements) /\ Len(Logout) = 1 /\ Logout[1] = "closeSession"
      BY DEF Logout, Statements
    <3>. QED
      BY <1>1, <1>2, <1>3, <3>1 DEF Ordered
  <2>3. Ordered(ForgotPassword, "forgot")
    <3>1. /\ ForgotPassword \in Seq(Statements) /\ Len(ForgotPassword) = 3
          /\ ForgotPassword[1] = "findUser" /\ ForgotPassword[2] = "revokeTokens"
          /\ ForgotPassword[3] = "mintToken"
      BY DEF ForgotPassword, Statements
    <3>. QED
      BY <1>1, <1>2, <1>3, <3>1 DEF Ordered
  <2>. QED
    BY <1>4, <2>1, <2>2, <2>3 DEF StepsOf
<1>5. CASE a.op \in {"reset", "set", "requestOtp"}
  <2>1. Ordered(ResetPassword, "reset")
    <3>1. /\ ResetPassword \in Seq(Statements) /\ Len(ResetPassword) = 4
          /\ ResetPassword[1] = "findToken" /\ ResetPassword[2] = "findUser"
          /\ ResetPassword[3] = "writeUser" /\ ResetPassword[4] = "markUsed"
      BY DEF ResetPassword, Statements
    <3>. QED
      BY <1>1, <1>2, <1>3, <3>1 DEF Ordered
  <2>2. Ordered(SetPassword, "set")
    <3>1. /\ SetPassword \in Seq(Statements) /\ Len(SetPassword) = 4
          /\ SetPassword[1] = "findToken" /\ SetPassword[2] = "findUser"
          /\ SetPassword[3] = "writeUser" /\ SetPassword[4] = "markUsed"
      BY DEF SetPassword, Statements
    <3>. QED
      BY <1>1, <1>2, <1>3, <3>1 DEF Ordered
  <2>3. Ordered(RequestOtp, "requestOtp")
    <3>1. /\ RequestOtp \in Seq(Statements) /\ Len(RequestOtp) = 4
          /\ RequestOtp[1] = "findUser" /\ RequestOtp[2] = "checkRole"
          /\ RequestOtp[3] = "revokeTokens" /\ RequestOtp[4] = "mintToken"
      BY DEF RequestOtp, Statements
    <3>. QED
      BY <1>1, <1>2, <1>3, <3>1 DEF Ordered
  <2>. QED
    BY <1>5, <2>1, <2>2, <2>3 DEF StepsOf
<1>6. CASE a.op \in {"confirmOtp", "create", "invite"}
  <2>1. Ordered(ConfirmOtp, "confirmOtp")
    <3>1. /\ ConfirmOtp \in Seq(Statements) /\ Len(ConfirmOtp) = 4
          /\ ConfirmOtp[1] = "findUser" /\ ConfirmOtp[2] = "findOtp"
          /\ ConfirmOtp[3] = "writeUser" /\ ConfirmOtp[4] = "markUsed"
      BY DEF ConfirmOtp, Statements
    <3>. QED
      BY <1>1, <1>2, <1>3, <3>1 DEF Ordered
  <2>2. Ordered(CreateUser, "create")
    <3>1. /\ CreateUser \in Seq(Statements) /\ Len(CreateUser) = 5
          /\ CreateUser[1] = "findEmail" /\ CreateUser[2] = "findRole"
          /\ CreateUser[3] = "insertUser" /\ CreateUser[4] = "revokeTokens"
          /\ CreateUser[5] = "mintToken"
      BY DEF CreateUser, Statements
    <3>. QED
      BY <1>1, <1>2, <1>3, <3>1 DEF Ordered
  <2>3. Ordered(ResendInvite, "invite")
    <3>1. /\ ResendInvite \in Seq(Statements) /\ Len(ResendInvite) = 3
          /\ ResendInvite[1] = "findUser" /\ ResendInvite[2] = "revokeTokens"
          /\ ResendInvite[3] = "mintToken"
      BY DEF ResendInvite, Statements
    <3>. QED
      BY <1>1, <1>2, <1>3, <3>1 DEF Ordered
  <2>. QED
    BY <1>6, <2>1, <2>2, <2>3 DEF StepsOf
<1>7. CASE a.op \in {"update", "password", "myPassword"}
  <2>1. Ordered(UpdateUser, "update")
    <3>1. /\ UpdateUser \in Seq(Statements) /\ Len(UpdateUser) = 3
          /\ UpdateUser[1] = "findUser" /\ UpdateUser[2] = "findRole"
          /\ UpdateUser[3] = "writeUser"
      BY DEF UpdateUser, Statements
    <3>. QED
      BY <1>1, <1>2, <1>3, <3>1 DEF Ordered
  <2>2. Ordered(UpdatePassword, "password")
    <3>1. /\ UpdatePassword \in Seq(Statements) /\ Len(UpdatePassword) = 2
          /\ UpdatePassword[1] = "findUser" /\ UpdatePassword[2] = "writeUser"
      BY DEF UpdatePassword, Statements
    <3>. QED
      BY <1>1, <1>2, <1>3, <3>1 DEF Ordered
  <2>3. Ordered(UpdateMyPassword, "myPassword")
    <3>1. /\ UpdateMyPassword \in Seq(Statements) /\ Len(UpdateMyPassword) = 2
          /\ UpdateMyPassword[1] = "findUser" /\ UpdateMyPassword[2] = "writeUser"
      BY DEF UpdateMyPassword, Statements
    <3>. QED
      BY <1>1, <1>2, <1>3, <3>1 DEF Ordered
  <2>. QED
    BY <1>7, <2>1, <2>2, <2>3 DEF StepsOf
<1>8. CASE a.op \in {"status", "softDelete", "createRole"}
  <2>1. Ordered(ChangeStatus, "status")
    <3>1. /\ ChangeStatus \in Seq(Statements) /\ Len(ChangeStatus) = 2
          /\ ChangeStatus[1] = "findUser" /\ ChangeStatus[2] = "writeUser"
      BY DEF ChangeStatus, Statements
    <3>. QED
      BY <1>1, <1>2, <1>3, <3>1 DEF Ordered
  <2>2. Ordered(BulkSoftDelete, "softDelete")
    <3>1. /\ BulkSoftDelete \in Seq(Statements) /\ Len(BulkSoftDelete) = 1
          /\ BulkSoftDelete[1] = "softDelete"
      BY DEF BulkSoftDelete, Statements
    <3>. QED
      BY <1>1, <1>2, <1>3, <3>1 DEF Ordered
  <2>3. Ordered(CreateRole, "createRole")
    <3>1. /\ CreateRole \in Seq(Statements) /\ Len(CreateRole) = 2
          /\ CreateRole[1] = "findCode" /\ CreateRole[2] = "insertRole"
      BY DEF CreateRole, Statements
    <3>. QED
      BY <1>1, <1>2, <1>3, <3>1 DEF Ordered
  <2>. QED
    BY <1>8, <2>1, <2>2, <2>3 DEF StepsOf
<1>9. CASE a.op \in {"deleteRole", "grants"}
  <2>1. Ordered(DeleteRole, "deleteRole")
    <3>1. /\ DeleteRole \in Seq(Statements) /\ Len(DeleteRole) = 4
          /\ DeleteRole[1] = "findRole" /\ DeleteRole[2] = "countUsers"
          /\ DeleteRole[3] = "clear" /\ DeleteRole[4] = "deleteRole"
      BY DEF DeleteRole, Statements
    <3>. QED
      BY <1>1, <1>2, <1>3, <3>1 DEF Ordered
  <2>2. Ordered(SetGrants, "grants")
    <3>1. /\ SetGrants \in Seq(Statements) /\ Len(SetGrants) = 3
          /\ SetGrants[1] = "findRole" /\ SetGrants[2] = "clear" /\ SetGrants[3] = "insert"
      BY DEF SetGrants, Statements
    <3>. QED
      BY <1>1, <1>2, <1>3, <3>1 DEF Ordered
  <2>. QED
    BY <1>9, <2>1, <2>2 DEF StepsOf
<1>10. CASE a.op = "settings"
  BY <1>10, SettingsOrdered
<1>. QED
  BY <1>4, <1>5, <1>6, <1>7, <1>8, <1>9, <1>10 DEF WellFormed, LinkOps, MintOps, RoleOps, OtherOps

-----------------------------------------------------------------------------
(* How far the requests are. *)

Suffix(r, s) == /\ Len(r) \in 1 .. Len(s)
                /\ \A j \in 1 .. Len(r) : r[j] = s[Len(s) - Len(r) + j]

(* Tables, requests and histories have their types.                        *)
TablesTyped ==
    /\ users \in [Users -> UserRow] /\ tokens \in [Clients -> Token]
    /\ sessions \in [Clients -> {"none", "active", "revoked"}]
    /\ roles \subseteq Roles /\ rows \in [Tables -> SUBSET Keys]
    /\ setting \subseteq Clients /\ clock \in Nat /\ crashes \in 0 .. MaxCrashes
HistoryTyped ==
    /\ quiet \in [Users -> [{"status", "password"} -> SUBSET (Status \cup Passwords)]]
    /\ exact \in [Tables -> SUBSET SUBSET Keys] /\ asked \in [Tables -> SUBSET Keys]
RequestsTyped == req \in [Clients -> Request] /\ ask \in Scenarios
Typed == TablesTyped /\ HistoryTyped /\ RequestsTyped

(* A request under way has the last statements of its method before it.    *)
Routed == \A c \in Clients : req[c].state = "running" =>
              c \in DOMAIN ask /\ Suffix(req[c].rest, StepsOf(ask[c]))

LEMMA Standing ==
    ASSUME NEW c \in Clients, Typed, Routed, c \in Running
    PROVE  /\ req[c] \in Request /\ req[c].state = "running"
           /\ c \in DOMAIN ask /\ WellFormed(ask[c]) /\ Ordered(StepsOf(ask[c]), Op(c))
           /\ Len(req[c].rest) \in Nat \ {0}
           /\ Stands(Head(req[c].rest), Op(c))
<1>1. /\ req[c] \in Request /\ req[c].state = "running"
      /\ c \in DOMAIN ask /\ WellFormed(ask[c]) /\ Suffix(req[c].rest, StepsOf(ask[c]))
  BY RequestAssumption DEF Typed, RequestsTyped, Routed, Running
<1>2. Ordered(StepsOf(ask[c]), Op(c))
  BY <1>1, MethodsOrdered DEF Op
<1>. DEFINE s == StepsOf(ask[c])
            r == req[c].rest
<1>3. s \in Seq(Statements) /\ r \in Seq(Statements) /\ Suffix(r, s)
      /\ \A p \in 1 .. Len(s) : Stands(s[p], Op(c))
  BY <1>1, <1>2 DEF Ordered, Request
<1>. HIDE DEF s, r
<1>4. Head(r) = s[Len(s) - Len(r) + 1] /\ Len(s) - Len(r) + 1 \in 1 .. Len(s) /\ Len(r) \in Nat \ {0}
  BY <1>3 DEF Suffix
<1>. QED
  BY <1>1, <1>2, <1>3, <1>4 DEF r

(* The next statement, if there is one, is the one that follows.           *)
LEMMA TailFollows ==
    ASSUME NEW op, NEW s, NEW r \in Seq(Statements), Ordered(s, op), Suffix(r, s), Len(r) # 1
    PROVE  /\ Tail(r) \in Seq(Statements) /\ Suffix(Tail(r), s)
           /\ Len(r) = 1 + Len(Tail(r)) /\ Follows(Head(r), Head(Tail(r)), op)
<1>1. s \in Seq(Statements) /\ \A p \in 1 .. Len(s) - 1 : Follows(s[p], s[p + 1], op)
  BY DEF Ordered
<1>2. Len(s) \in Nat /\ Len(r) \in Nat /\ Len(r) > 1 /\ Len(r) <= Len(s)
  <2>1. Len(s) \in Nat /\ Len(r) \in Nat
    BY <1>1
  <2>2. Len(r) \in 1 .. Len(s)
    BY DEF Suffix
  <2>3. \A m, n \in Nat : n \in 1 .. m /\ n # 1 => n > 1 /\ n <= m
    OBVIOUS
  <2>. QED
    BY <2>1, <2>2, <2>3
<1>7. \A j \in 1 .. Len(r) : r[j] = s[Len(s) - Len(r) + j]
  BY DEF Suffix
<1>3. /\ Tail(r) \in Seq(Statements) /\ Len(Tail(r)) = Len(r) - 1
      /\ \A j \in 1 .. Len(r) - 1 : Tail(r)[j] = r[j + 1]
  BY <1>2
<1>4. Suffix(Tail(r), s)
  BY <1>2, <1>3, <1>7 DEF Suffix
<1>. DEFINE p == Len(s) - Len(r) + 1
<1>5. p \in 1 .. Len(s) - 1 /\ Head(r) = s[p] /\ Head(Tail(r)) = s[p + 1]
  <2>1. Head(r) = r[1] /\ Head(Tail(r)) = Tail(r)[1]
    BY <1>1, <1>2, <1>3
  <2>2. Tail(r)[1] = r[2]
    BY <1>2, <1>3
  <2>3. r[1] = s[Len(s) - Len(r) + 1] /\ r[2] = s[Len(s) - Len(r) + 2]
    BY <1>2, <1>7
  <2>. QED
    BY <1>2, <2>1, <2>2, <2>3
<1>6. Follows(Head(r), Head(Tail(r)), op)
  BY <1>1, <1>5
<1>. QED
  BY <1>2, <1>3, <1>4, <1>6

(* What a statement of c that goes on with r does to the requests.         *)
Moved(c, r) ==
    /\ req' \in [Clients -> Request] /\ Routed'
    /\ \A d \in Clients : d # c => req'[d] = req[d]
    /\ \/ /\ req'[c].state = "running" /\ Len(req[c].rest) = 1 + Len(req'[c].rest)
          /\ Follows(Head(req[c].rest), Head(req'[c].rest), Op(c))
       \/ req'[c].state = "ok" /\ Len(req[c].rest) = 1
    /\ req'[c].row = r.row /\ req'[c].token = r.token /\ req'[c].todo = r.todo
    /\ req'[c].lists = r.lists /\ req'[c].at = r.at /\ req'[c].failing = r.failing
    /\ req'[c].met = r.met

LEMMA ProceedMoves ==
    ASSUME NEW c \in Clients, Typed, Routed, c \in Running, UNCHANGED ask,
           NEW r \in Request, r.rest = req[c].rest, r.state = "running", Proceed(c, r)
    PROVE  Moved(c, r)
<1>. DEFINE s == StepsOf(ask[c])
<1>1. /\ req[c] \in Request /\ c \in DOMAIN ask /\ Ordered(s, Op(c)) /\ Suffix(r.rest, s)
      /\ r.rest \in Seq(Statements) /\ Len(r.rest) \in Nat
  BY Standing DEF Routed, Request
<1>2. Len(r.rest) # 1 => /\ Tail(r.rest) \in Seq(Statements) /\ Suffix(Tail(r.rest), s)
                         /\ Len(r.rest) = 1 + Len(Tail(r.rest))
                         /\ Follows(Head(r.rest), Head(Tail(r.rest)), Op(c))
  BY <1>1, TailFollows
<1>. HIDE DEF s
<1>3. Next1(r) \in Request
  <2>1. <<>> \in Seq(Statements)
    OBVIOUS
  <2>. QED
    BY <1>1, <1>2, <2>1 DEF Next1, Request
<1>4. req' = [req EXCEPT ![c] = Next1(r)] /\ req \in [Clients -> Request]
  BY DEF Proceed, Typed, RequestsTyped
<1>5. req' \in [Clients -> Request] /\ req'[c] = Next1(r)
      /\ \A d \in Clients : d # c => req'[d] = req[d]
  BY <1>3, <1>4
<1>6. /\ \/ /\ Len(r.rest) # 1 /\ req'[c].rest = Tail(r.rest) /\ req'[c].state = "running"
         \/ /\ Len(r.rest) = 1 /\ req'[c].state = "ok"
      /\ req'[c].row = r.row /\ req'[c].token = r.token /\ req'[c].todo = r.todo
      /\ req'[c].lists = r.lists /\ req'[c].at = r.at /\ req'[c].failing = r.failing
      /\ req'[c].met = r.met
  BY <1>5 DEF Next1, Request
<1>7. Routed'
  BY <1>1, <1>2, <1>5, <1>6 DEF Routed, s
<1>. QED
  BY <1>2, <1>5, <1>6, <1>7 DEF Moved

LEMMA GoMoves ==
    ASSUME NEW c \in Clients, Typed, Routed, c \in Running, UNCHANGED ask, Go(c)
    PROVE  Moved(c, req[c])
  BY ProceedMoves, Standing DEF Go

(* An answer ends the request.                                             *)
Ended(c) ==
    /\ req' \in [Clients -> Request] /\ Routed'
    /\ \A d \in Clients : d # c => req'[d] = req[d]
    /\ req'[c].state # "running" /\ req'[c].state # "waiting" /\ req'[c].met = req[c].met

LEMMA AnswerEnds ==
    ASSUME NEW c \in Clients, NEW state \in {"ok", "refused", "failed"}, Typed, Routed,
           c \in Running, UNCHANGED ask, Answer(c, state)
    PROVE  Ended(c)
<1>1. req[c] \in Request /\ req \in [Clients -> Request]
  BY DEF Typed, RequestsTyped
<1>2. [req[c] EXCEPT !.state = state, !.rest = <<>>] \in Request
  <2>1. <<>> \in Seq(Statements)
    OBVIOUS
  <2>. QED
    BY <1>1, <2>1 DEF Request
<1>3. req' = [req EXCEPT ![c] = [req[c] EXCEPT !.state = state, !.rest = <<>>]]
  BY <1>1 DEF Answer, Request
<1>. QED
  BY <1>1, <1>2, <1>3 DEF Ended, Routed, Request

-----------------------------------------------------------------------------
(* Which lists a request replaces, and whom it met. *)

HeldLists(c) == {req[c].lists[i] : i \in DOMAIN req[c].lists}

(* A request that replaces lists holds those it has still to replace, two  *)
(* statements for each.                                                    *)
Counted(c) ==
    /\ Head(req[c].rest) \in {"countUsers", "clear", "insert"} =>
         req[c].lists # <<>> /\ HeldLists(c) \subseteq TouchedBy(c)
    /\ Op(c) = "settings" =>
         /\ Head(req[c].rest) = "upsert" => Len(req[c].rest) = 2 * Len(ask[c].lists) + 1
         /\ Head(req[c].rest) = "clear" => Len(req[c].rest) = 2 * Len(req[c].lists)
         /\ Head(req[c].rest) = "insert" => Len(req[c].rest) = 2 * Len(req[c].lists) - 1
Listed == \A c \in Clients : req[c].state = "running" => Counted(c)

(* Requests that are under way at the same time have met each other.       *)
Overlapping == \A c, d \in Clients :
    /\ d \in req[c].met <=> c \in req[d].met
    /\ c \notin req[c].met
    /\ req[c].state = "waiting" => req[c].met = {}
    /\ c # d /\ req[c].state = "running" /\ req[d].state = "running" => d \in req[c].met

StoreInv == Typed /\ Routed /\ Listed /\ Overlapping

LEMMA Replacing ==
    ASSUME NEW c \in Clients, WellFormed(ask[c]), Op(c) \in Replaces
    PROVE  /\ ListsOf(c) \in Seq(Tables)
           /\ Op(c) # "settings" => ListsOf(c) # <<>>
           /\ \A t \in TouchedBy(c) : t \in Tables /\ Wanted(c, t) \subseteq Keys
<1>1. CASE Op(c) = "settings"
  <2>1. ask[c].lists \in Seq(Lists) /\ ListsOf(c) = ask[c].lists
    BY <1>1 DEF WellFormed, Op, ListsOf
  <2>2. ask[c].lists \in Seq(Tables)
    BY <2>1 DEF Tables
  <2>. QED
    BY <1>1, <2>1, <2>2 DEF WellFormed, Op, TouchedBy, Wanted, Tables, Replaces
<1>2. CASE Op(c) # "settings"
  <2>1. ListsOf(c) = <<ask[c].role>> /\ ask[c].role \in Tables
    BY <1>2 DEF WellFormed, Op, ListsOf, Replaces, RoleOps, Tables
  <2>2. \A t \in TouchedBy(c) : t = ask[c].role
    BY <1>2, <2>1 DEF TouchedBy
  <2>3. Wanted(c, ask[c].role) \subseteq Keys
    BY <1>2 DEF WellFormed, Op, Wanted, Replaces
  <2>. QED
    BY <2>1, <2>2, <2>3
<1>. QED
  BY <1>1, <1>2

LEMMA SameMet ==
    ASSUME Overlapping,
           \A d \in Clients : /\ req'[d].met = req[d].met
                              /\ req'[d].state = "running" => req[d].state = "running"
                              /\ req'[d].state = "waiting" => req[d].state = "waiting"
    PROVE  Overlapping'
  BY DEF Overlapping

LEMMA MovedMet ==
    ASSUME NEW c \in Clients, NEW r, r.met = req[c].met, Overlapping, c \in Running,
           Moved(c, r) \/ Ended(c)
    PROVE  Overlapping'
  BY SameMet DEF Moved, Ended, Running

LEMMA SameTouched ==
    ASSUME NEW c, UNCHANGED ask
    PROVE  /\ Op(c)' = Op(c) /\ TouchedBy(c)' = TouchedBy(c)
           /\ ListsOf(c)' = ListsOf(c)
  BY DEF TouchedBy, ListsOf, Op

LEMMA SameCounted ==
    ASSUME NEW c, UNCHANGED ask, req'[c].rest = req[c].rest, req'[c].lists = req[c].lists,
           Counted(c)
    PROVE  Counted(c)'
  BY SameTouched DEF Counted, HeldLists

LEMMA EndedLists ==
    ASSUME NEW c \in Clients, Listed, UNCHANGED ask, Ended(c)
    PROVE  Listed'
  BY SameCounted DEF Listed, Ended

(* Statements that leave the lists alone and stand before no replacement.  *)
LEMMA MovedLists ==
    ASSUME NEW c \in Clients, NEW r, Listed, UNCHANGED ask, c \in Running, Moved(c, r),
           r.lists = req[c].lists,
           \/ Head(req[c].rest) \notin {"findRole", "upsert", "clear", "insert"}
           \/ Head(req[c].rest) = "findRole" /\ Op(c) \notin Replaces
    PROVE  Listed'
<1>1. ASSUME NEW d \in Clients, d # c, req'[d].state = "running"
      PROVE  Counted(d)'
  BY <1>1, SameCounted DEF Moved, Listed
<1>2. ASSUME req'[c].state = "running"
      PROVE  Counted(c)'
  <2>1. \/ Head(req'[c].rest) \notin {"upsert", "countUsers", "clear", "insert"}
        \/ /\ Head(req'[c].rest) = "clear" /\ Head(req[c].rest) = "countUsers"
           /\ Op(c) = "deleteRole"
    BY <1>2 DEF Moved, Follows, Replaces
  <2>2. HeldLists(c)' = HeldLists(c) /\ req'[c].lists = req[c].lists
    BY DEF Moved, HeldLists
  <2>. QED
    BY <2>1, <2>2, SameTouched DEF Counted, Listed, Running
<1>. QED
  BY <1>1, <1>2 DEF Listed

-----------------------------------------------------------------------------
(* The statements of an account request. *)

LEMMA SubjectIsUser ==
    ASSUME NEW c \in Clients, StoreInv, c \in Running
    PROVE  Subject(c) \in Users
<1>1. WellFormed(ask[c])
  BY Standing DEF StoreInv
<1>. QED
  BY <1>1 DEF Subject, WellFormed, LinkOps, StoreInv, Typed, TablesTyped, Token

(* Reads leave the tables alone and go on, or answer.                      *)
LEMMA ReadMoves ==
    ASSUME NEW c \in Clients, StoreInv,
           FindUser(c) \/ FindToken(c) \/ FindOtp(c) \/ CheckRole(c) \/ FindEmail(c)
    PROVE  /\ c \in Running /\ UNCHANGED <<tables, ask, crashes, history>> /\ clock' \in Nat
           /\ \/ Ended(c)
              \/ /\ FindUser(c) /\ Moved(c, [req[c] EXCEPT !.row = users[Subject(c)]])
                 /\ Live(Subject(c))
              \/ /\ FindToken(c) \/ FindOtp(c)
                 /\ ask[c].token \in Clients /\ tokens[ask[c].token].status = "issued"
                 /\ Moved(c, [req[c] EXCEPT !.token = ask[c].token])
              \/ CheckRole(c) /\ Moved(c, [req[c] EXCEPT !.at = clock + 1])
              \/ FindEmail(c) /\ Moved(c, req[c])
<1>1. c \in Running /\ UNCHANGED <<tables, ask, crashes, history>>
  BY DEF FindUser, FindToken, FindOtp, CheckRole, FindEmail, At
<1>2. /\ req[c] \in Request /\ req[c].state = "running" /\ WellFormed(ask[c])
      /\ Stands(Head(req[c].rest), Op(c)) /\ Subject(c) \in Users
  BY <1>1, Standing, SubjectIsUser DEF StoreInv
<1>3. /\ users[Subject(c)] \in UserRow /\ clock \in Nat
      /\ clock' = clock \/ clock' = clock + 1
  BY <1>1, <1>2 DEF StoreInv, Typed, TablesTyped, FindUser, FindToken, FindOtp, CheckRole, FindEmail
<1>4. \A state \in {"ok", "refused", "failed"} : Answer(c, state) => Ended(c)
  BY <1>1, AnswerEnds DEF StoreInv
<1>5. \A r \in Request : r.rest = req[c].rest /\ r.state = "running" /\ Proceed(c, r) => Moved(c, r)
  BY <1>1, ProceedMoves DEF StoreInv
<1>6. CASE FindUser(c)
  <2>1. [req[c] EXCEPT !.row = users[Subject(c)]] \in Request
    BY <1>2, <1>3 DEF Request
  <2>. QED
    BY <1>1, <1>2, <1>3, <1>4, <1>5, <1>6, <2>1 DEF FindUser, Request
<1>7. CASE FindToken(c)
  <2>1. ask[c].token \in Clients
    BY <1>2, <1>7 DEF FindToken, At, Stands, WellFormed, Op
  <2>2. [req[c] EXCEPT !.token = ask[c].token] \in Request
    BY <1>2, <2>1 DEF Request
  <2>. QED
    BY <1>1, <1>2, <1>3, <1>4, <1>5, <1>7, <2>1, <2>2 DEF FindToken, Usable, Request
<1>8. CASE FindOtp(c)
  <2>1. \/ Answer(c, "refused")
        \/ /\ ask[c].token \in Clients /\ Usable(ask[c].token, "change_password")
           /\ Proceed(c, [req[c] EXCEPT !.token = ask[c].token])
    BY <1>8 DEF FindOtp
  <2>2. ask[c].token \in Clients =>
          LET r == [req[c] EXCEPT !.token = ask[c].token]
          IN  r \in Request /\ r.rest = req[c].rest /\ r.state = "running"
    BY <1>2 DEF Request
  <2>3. \/ Ended(c)
        \/ /\ ask[c].token \in Clients /\ Usable(ask[c].token, "change_password")
           /\ Moved(c, [req[c] EXCEPT !.token = ask[c].token])
    BY <1>4, <1>5, <2>1, <2>2
  <2>. QED
    BY <1>1, <1>3, <1>8, <2>3 DEF Usable
<1>9. CASE CheckRole(c)
  <2>1. [req[c] EXCEPT !.at = clock + 1] \in Request
    BY <1>2, <1>3 DEF Request
  <2>. QED
    BY <1>1, <1>2, <1>3, <1>4, <1>5, <1>9, <2>1 DEF CheckRole, Request
<1>10. CASE FindEmail(c)
  BY <1>1, <1>2, <1>3, <1>4, <1>10, GoMoves DEF FindEmail, StoreInv
<1>. QED
  BY <1>6, <1>7, <1>8, <1>9, <1>10

(* Statements that neither replace a list nor stand just before.           *)
LEMMA PlainStore ==
    ASSUME NEW c \in Clients, NEW r, StoreInv, c \in Running, UNCHANGED ask,
           r.met = req[c].met, r.lists = req[c].lists, Ended(c) \/ Moved(c, r),
           \/ Head(req[c].rest) \notin {"findRole", "upsert", "clear", "insert"}
           \/ Head(req[c].rest) = "findRole" /\ Op(c) \notin Replaces
    PROVE  RequestsTyped' /\ Routed' /\ Listed' /\ Overlapping'
<1>1. Overlapping'
  BY MovedMet DEF StoreInv
<1>2. Listed'
  BY MovedLists, EndedLists DEF StoreInv
<1>3. Routed' /\ RequestsTyped'
  BY DEF Moved, Ended, StoreInv, Typed, RequestsTyped
<1>. QED
  BY <1>1, <1>2, <1>3

LEMMA ReadStore ==
    ASSUME NEW c \in Clients, StoreInv,
           FindUser(c) \/ FindToken(c) \/ FindOtp(c) \/ CheckRole(c) \/ FindEmail(c)
    PROVE  StoreInv'
<1>1. /\ c \in Running /\ UNCHANGED <<tables, ask, crashes, history>> /\ clock' \in Nat
      /\ Head(req[c].rest) \notin {"findRole", "upsert", "clear", "insert"}
  BY ReadMoves DEF FindUser, FindToken, FindOtp, CheckRole, FindEmail, At
<1>2. req[c] \in Request
  BY <1>1, Standing DEF StoreInv
<1>3. \A x : /\ [req[c] EXCEPT !.row = x].met = req[c].met
            /\ [req[c] EXCEPT !.row = x].lists = req[c].lists
            /\ [req[c] EXCEPT !.token = x].met = req[c].met
            /\ [req[c] EXCEPT !.token = x].lists = req[c].lists
            /\ [req[c] EXCEPT !.at = x].met = req[c].met
            /\ [req[c] EXCEPT !.at = x].lists = req[c].lists
  BY <1>2 DEF Request
<1>4. RequestsTyped' /\ Routed' /\ Listed' /\ Overlapping'
  BY <1>1, <1>3, ReadMoves, PlainStore
<1>5. TablesTyped' /\ HistoryTyped'
  BY <1>1 DEF StoreInv, Typed, TablesTyped, HistoryTyped, tables, history
<1>. QED
  BY <1>4, <1>5 DEF StoreInv, Typed

(* A user row is written whole; it is a row of the table again.            *)
LEMMA NoteTyped ==
    ASSUME NEW c \in Clients, NEW u \in Users, NEW row \in UserRow, HistoryTyped,
           Note(u, c, row), UNCHANGED <<exact, asked>>
    PROVE  HistoryTyped'
<1>1. \A f \in {"status", "password"} : row[f] \in Status \cup Passwords
  BY DEF UserRow
<1>. QED
  BY <1>1 DEF HistoryTyped, Note

LEMMA WrittenTyped ==
    ASSUME NEW c \in Clients, StoreInv, c \in Running, Head(req[c].rest) = "writeUser"
    PROVE  Written(c) \in UserRow
<1>1. req[c].row \in UserRow /\ WellFormed(ask[c]) /\ c \in Passwords
  BY Standing DEF StoreInv, Request, Passwords
<1>2. "active" \in Status
  BY DEF Status
<1>3. Op(c) = "update" => ask[c].role \in Roles
  BY <1>1 DEF WellFormed, Op, RoleOps
<1>4. Op(c) = "status" => ask[c].status \in Status
  BY <1>1 DEF WellFormed, Op
<1>. QED
  BY <1>1, <1>2, <1>3, <1>4 DEF Written, UserRow

LEMMA WriteMoves ==
    ASSUME NEW c \in Clients, StoreInv, WriteUser(c) \/ InsertUser(c) \/ SoftDelete(c)
    PROVE  /\ c \in Running /\ UNCHANGED <<tokens, sessions, roles, rows, setting, ask, clock,
                                           crashes, exact, asked>>
           /\ Subject(c) \in Users /\ Head(req[c].rest) \in {"writeUser", "insertUser", "softDelete"}
           /\ \/ UNCHANGED <<users, quiet>>
              \/ \E row \in UserRow :
                   /\ users' = [users EXCEPT ![Subject(c)] = row] /\ Note(Subject(c), c, row)
                   /\ \/ row = Written(c) /\ Head(req[c].rest) = "writeUser"
                      \/ Head(req[c].rest) = "insertUser"
                      \/ /\ Head(req[c].rest) = "softDelete"
                         /\ row.password = users[Subject(c)].password
           /\ Ended(c) \/ Moved(c, req[c])
<1>1. /\ c \in Running /\ UNCHANGED <<tokens, sessions, roles, rows, setting, ask, clock,
                                      crashes, exact, asked>>
  BY DEF WriteUser, InsertUser, SoftDelete, At
<1>2. Subject(c) \in Users /\ users[Subject(c)] \in UserRow /\ c \in Passwords
  BY <1>1, SubjectIsUser DEF StoreInv, Typed, TablesTyped, Passwords
<1>3. Ended(c) \/ Moved(c, req[c])
  <2>1. Go(c) \/ Answer(c, "failed")
    BY DEF WriteUser, InsertUser, SoftDelete
  <2>. QED
    BY <1>1, <2>1, GoMoves, AnswerEnds DEF StoreInv
<1>4. CASE WriteUser(c)
  BY <1>1, <1>2, <1>3, <1>4, WrittenTyped DEF WriteUser, At
<1>5. CASE InsertUser(c)
  <2>. DEFINE row == [present |-> TRUE, deleted |-> FALSE, status |-> "inactive",
                      password |-> c, role |-> ask[c].role]
  <2>1. ask[c].role \in roles => row \in UserRow
    BY <1>2 DEF UserRow, Status, StoreInv, Typed, TablesTyped
  <2>. QED
    BY <1>1, <1>2, <1>3, <1>5, <2>1 DEF InsertUser, At
<1>6. CASE SoftDelete(c)
  <2>. DEFINE row == [users[Subject(c)] EXCEPT !.deleted = TRUE, !.status = "inactive"]
  <2>1. row \in UserRow /\ row.password = users[Subject(c)].password
    BY <1>2 DEF UserRow, Status
  <2>. QED
    BY <1>1, <1>2, <1>3, <1>6, <2>1 DEF SoftDelete, At
<1>. QED
  BY <1>4, <1>5, <1>6

LEMMA WriteStore ==
    ASSUME NEW c \in Clients, StoreInv, WriteUser(c) \/ InsertUser(c) \/ SoftDelete(c)
    PROVE  StoreInv'
<1>1. /\ c \in Running /\ (Ended(c) \/ Moved(c, req[c]))
      /\ Head(req[c].rest) \notin {"findRole", "upsert", "clear", "insert"}
      /\ UNCHANGED <<tokens, sessions, roles, rows, setting, ask, clock, crashes, exact, asked>>
  BY WriteMoves
<1>2. RequestsTyped' /\ Routed' /\ Listed' /\ Overlapping'
  BY <1>1, PlainStore
<1>3. TablesTyped' /\ HistoryTyped'
  <2>1. CASE UNCHANGED <<users, quiet>>
    BY <1>1, <2>1 DEF StoreInv, Typed, TablesTyped, HistoryTyped
  <2>2. ASSUME NEW row \in UserRow, users' = [users EXCEPT ![Subject(c)] = row],
               Note(Subject(c), c, row)
        PROVE  TablesTyped' /\ HistoryTyped'
    <3>1. Subject(c) \in Users
      BY WriteMoves
    <3>2. HistoryTyped'
      BY <1>1, <2>2, <3>1, NoteTyped DEF StoreInv, Typed
    <3>. QED
      BY <1>1, <2>2, <3>1, <3>2 DEF StoreInv, Typed, TablesTyped
  <2>. QED
    BY <2>1, <2>2, WriteMoves
<1>. QED
  BY <1>2, <1>3 DEF StoreInv, Typed

(* Sessions and links.                                                     *)
LEMMA TokenMoves ==
    ASSUME NEW c \in Clients, StoreInv,
           OpenSession(c) \/ CloseSession(c) \/ RevokeTokens(c) \/ MintToken(c) \/ MarkUsed(c)
    PROVE  /\ c \in Running /\ Moved(c, req[c])
           /\ UNCHANGED <<users, roles, rows, setting, ask, clock, crashes, history>>
           /\ Head(req[c].rest) \in {"openSession", "closeSession", "revokeTokens", "mintToken",
                                     "markUsed"}
  BY GoMoves DEF OpenSession, CloseSession, RevokeTokens, MintToken, MarkUsed, At, StoreInv

LEMMA TokenStore ==
    ASSUME NEW c \in Clients, StoreInv,
           OpenSession(c) \/ CloseSession(c) \/ RevokeTokens(c) \/ MintToken(c) \/ MarkUsed(c)
    PROVE  StoreInv'
<1>1. /\ c \in Running /\ Moved(c, req[c]) /\ req[c] \in Request
      /\ UNCHANGED <<users, roles, rows, setting, ask, clock, crashes, history>>
      /\ Head(req[c].rest) \notin {"findRole", "upsert", "clear", "insert"}
  BY TokenMoves, Standing DEF StoreInv
<1>2. RequestsTyped' /\ Routed' /\ Listed' /\ Overlapping'
  BY <1>1, PlainStore
<1>3. HistoryTyped'
  BY <1>1 DEF StoreInv, Typed, HistoryTyped, history
<1>4. tokens' \in [Clients -> Token] /\ sessions' \in [Clients -> {"none", "active", "revoked"}]
  <2>1. /\ tokens \in [Clients -> Token]
        /\ sessions \in [Clients -> {"none", "active", "revoked"}]
    BY DEF StoreInv, Typed, TablesTyped
  <2>2. CASE OpenSession(c)
    BY <2>1, <2>2 DEF OpenSession
  <2>3. CASE CloseSession(c)
    BY <2>1, <2>3 DEF CloseSession
  <2>4. CASE RevokeTokens(c)
    <3>1. \A t \in Clients : [tokens[t] EXCEPT !.status = "revoked"] \in Token
      BY <2>1 DEF Token
    <3>. QED
      BY <2>1, <2>4, <3>1 DEF RevokeTokens
  <2>5. CASE MintToken(c)
    <3>1. Subject(c) \in Users /\ PurposeOf(Op(c)) \in Purposes /\ req[c].at \in Nat
      BY <1>1, SubjectIsUser DEF PurposeOf, Purposes, Request
    <3>. QED
      BY <2>1, <2>5, <3>1 DEF MintToken, Token
  <2>6. CASE MarkUsed(c)
    BY <2>1, <2>6 DEF MarkUsed, Token
  <2>. QED
    BY <2>2, <2>3, <2>4, <2>5, <2>6
<1>. QED
  BY <1>1, <1>2, <1>3, <1>4 DEF StoreInv, Typed, TablesTyped

(* Time passes without a request.                                          *)
LEMMA ExpireStore ==
    ASSUME NEW t \in Clients, StoreInv, Expire(t)
    PROVE  StoreInv'
<1>1. tokens' \in [Clients -> Token]
  BY DEF Expire, StoreInv, Typed, TablesTyped, Token
<1>2. UNCHANGED <<users, sessions, roles, rows, setting, ask, req, clock, crashes, history>>
  BY DEF Expire
<1>3. Listed'
  BY <1>2, SameCounted DEF StoreInv, Listed
<1>. QED
  BY <1>1, <1>2, <1>3 DEF StoreInv, Typed, TablesTyped, HistoryTyped, RequestsTyped, Routed,
     Overlapping, history

-----------------------------------------------------------------------------
(* The statements of the catalogue. *)

LEMMA ReplaceStore ==
    ASSUME NEW c \in Clients, NEW r, StoreInv, c \in Running, UNCHANGED ask,
           r.met = req[c].met, Moved(c, r), req'[c].state = "running" => Counted(c)'
    PROVE  RequestsTyped' /\ Routed' /\ Listed' /\ Overlapping'
<1>1. Overlapping'
  BY MovedMet DEF StoreInv
<1>2. Listed'
  BY SameCounted DEF Moved, StoreInv, Listed
<1>3. Routed' /\ RequestsTyped'
  BY DEF Moved, StoreInv, Typed, RequestsTyped
<1>. QED
  BY <1>1, <1>2, <1>3

LEMMA AnswerStore ==
    ASSUME NEW c \in Clients, StoreInv, c \in Running, UNCHANGED ask, Ended(c)
    PROVE  RequestsTyped' /\ Routed' /\ Listed' /\ Overlapping'
<1>1. Overlapping'
  BY SameMet DEF StoreInv, Ended, Running
<1>2. Listed'
  BY EndedLists DEF StoreInv
<1>. QED
  BY <1>1, <1>2 DEF Ended, StoreInv, Typed, RequestsTyped

(* The statements left after the next one are at least one.                *)
LEMMA RestLeft ==
    ASSUME NEW c \in Clients, NEW r, StoreInv, c \in Running, UNCHANGED ask, Moved(c, r),
           req'[c].state = "running"
    PROVE  /\ Len(req'[c].rest) \in Nat /\ Len(req'[c].rest) > 0
           /\ Len(req[c].rest) = 1 + Len(req'[c].rest)
           /\ Follows(Head(req[c].rest), Head(req'[c].rest), Op(c))
<1>1. req'[c].rest \in Seq(Statements) /\ Suffix(req'[c].rest, StepsOf(ask[c]))
  BY DEF Moved, Routed, Request
<1>2. StepsOf(ask[c]) \in Seq(Statements)
  BY Standing DEF StoreInv, Ordered
<1>3. Len(req'[c].rest) \in Nat /\ Len(req'[c].rest) > 0
  BY <1>1, <1>2 DEF Suffix
<1>. QED
  BY <1>3 DEF Moved

(* The request sets out what it replaces.                                  *)
LEMMA ListsSetOut ==
    ASSUME NEW c \in Clients, NEW r, StoreInv, c \in Running, UNCHANGED ask, Moved(c, r),
           Head(req[c].rest) \in {"findRole", "upsert"},
           Op(c) \in Replaces => r.lists = ListsOf(c),
           req'[c].state = "running"
    PROVE  Counted(c)'
<1>1. /\ WellFormed(ask[c]) /\ Stands(Head(req[c].rest), Op(c)) /\ Len(req[c].rest) \in Nat
      /\ Counted(c)
  BY Standing DEF StoreInv, Listed
<1>2. /\ Len(req'[c].rest) \in Nat /\ Len(req'[c].rest) > 0
      /\ Len(req[c].rest) = 1 + Len(req'[c].rest)
      /\ Follows(Head(req[c].rest), Head(req'[c].rest), Op(c))
  BY RestLeft
<1>3. Op(c)' = Op(c) /\ TouchedBy(c)' = TouchedBy(c)
  BY SameTouched
<1>4. CASE Op(c) \notin Replaces
  BY <1>1, <1>2, <1>3, <1>4 DEF Follows, Counted, Replaces
<1>5. CASE Op(c) \in Replaces
  <2>1. /\ req'[c].lists = ListsOf(c) /\ ListsOf(c) \in Seq(Tables)
        /\ Op(c) # "settings" => ListsOf(c) # <<>>
    BY <1>1, <1>5, Replacing DEF Moved
  <2>2. HeldLists(c)' = TouchedBy(c)
    BY <1>5, <2>1 DEF HeldLists, TouchedBy
  <2>3. CASE Op(c) = "settings"
    <3>1. ListsOf(c) = ask[c].lists /\ Len(ListsOf(c)) \in Nat
      BY <2>1, <2>3 DEF ListsOf
    <3>2. Len(req'[c].rest) = 2 * Len(ListsOf(c)) /\ Head(req'[c].rest) = "clear"
      <4>1. Head(req[c].rest) = "upsert" /\ Head(req'[c].rest) = "clear"
        BY <1>1, <1>2, <2>3 DEF Stands, Follows, RoleOps
      <4>2. Len(req[c].rest) = 2 * Len(ListsOf(c)) + 1
        BY <1>1, <2>3, <3>1, <4>1 DEF Counted
      <4>3. \A k, m, n \in Nat : k = 2 * n + 1 /\ k = 1 + m => m = 2 * n
        OBVIOUS
      <4>. QED
        BY <1>1, <1>2, <3>1, <4>1, <4>2, <4>3
    <3>3. ListsOf(c) # <<>>
      BY <1>2, <2>1, <3>2
    <3>. QED
      BY <1>3, <2>1, <2>2, <3>1, <3>2, <3>3 DEF Counted
  <2>4. CASE Op(c) # "settings"
    BY <1>3, <2>1, <2>2, <2>4 DEF Counted
  <2>. QED
    BY <2>3, <2>4
<1>. QED
  BY <1>4, <1>5

(* What a statement of the catalogue does to the requests.                 *)
LEMMA CatalogueMoves ==
    ASSUME NEW c \in Clients, StoreInv, CatalogueStep(c)
    PROVE  /\ c \in Running /\ UNCHANGED <<users, tokens, sessions, ask, clock, crashes, quiet>>
           /\ \/ Ended(c) /\ UNCHANGED <<rows, exact, asked>> /\ Head(req[c].rest) # "clear"
              \/ Moved(c, req[c]) /\ UNCHANGED <<rows, exact, asked>>
                 /\ Head(req[c].rest) \in {"findCode", "insertRole", "countUsers", "deleteRole"}
              \/ \E l : /\ Moved(c, [req[c] EXCEPT !.lists = l])
                        /\ Op(c) \in Replaces => l = ListsOf(c)
                 /\ Head(req[c].rest) \in {"findRole", "upsert"} /\ UNCHANGED <<rows, exact, asked>>
              \/ Clear(c) /\ Moved(c, [req[c] EXCEPT !.todo = Wanted(c, Head(req[c].lists))])
              \/ \E k \in Keys : Insert(c, k)
              \/ Settle(c) /\ ~ req[c].failing /\ Moved(c, [req[c] EXCEPT !.lists = Tail(@)])
<1>1. c \in Running /\ UNCHANGED <<users, tokens, sessions, ask, clock, crashes, quiet>>
  BY DEF At, CatalogueStep, FindRole, FindCode, InsertRole, CountUsers, Upsert, Clear, Insert,
         Settle, DropRole, tables, history
<1>2. /\ req[c] \in Request /\ req[c].state = "running" /\ WellFormed(ask[c])
      /\ Stands(Head(req[c].rest), Op(c)) /\ Len(req[c].rest) \in Nat \ {0} /\ Counted(c)
  BY <1>1, Standing DEF StoreInv, Listed
<1>3. \A state \in {"ok", "refused", "failed"} : Answer(c, state) => Ended(c)
  BY <1>1, AnswerEnds DEF StoreInv
<1>4. \A r \in Request : r.rest = req[c].rest /\ r.state = "running" /\ Proceed(c, r) => Moved(c, r)
  BY <1>1, ProceedMoves DEF StoreInv
<1>5. Go(c) => Moved(c, req[c])
  BY <1>1, GoMoves DEF StoreInv
<1>6. \A l \in Seq(Tables) :
        LET r == [req[c] EXCEPT !.lists = l]
        IN  r \in Request /\ r.rest = req[c].rest /\ r.state = "running"
  BY <1>2 DEF Request
<1>7. CASE FindRole(c)
  <2>. DEFINE l == IF Op(c) \in Replaces THEN ListsOf(c) ELSE <<>>
  <2>1. l \in Seq(Tables)
    BY <1>2, Replacing
  <2>. HIDE DEF l
  <2>2. Ended(c) \/ Moved(c, [req[c] EXCEPT !.lists = l])
    BY <1>3, <1>4, <1>6, <1>7, <2>1 DEF FindRole, l
  <2>. QED
    BY <1>1, <1>7, <2>2 DEF FindRole, At, tables, history, l
<1>8. CASE FindCode(c) \/ InsertRole(c) \/ CountUsers(c) \/ DropRole(c)
  BY <1>1, <1>3, <1>5, <1>8 DEF FindCode, InsertRole, CountUsers, DropRole, At, tables, history
<1>9. CASE Upsert(c)
  <2>1. ListsOf(c) \in Seq(Tables)
    BY <1>2, <1>9, Replacing DEF Upsert, At, Stands, Replaces
  <2>2. Moved(c, [req[c] EXCEPT !.lists = ListsOf(c)])
    BY <1>4, <1>6, <1>9, <2>1 DEF Upsert
  <2>. QED
    BY <1>1, <1>9, <2>2 DEF Upsert, At, history
<1>10. CASE Clear(c)
  <2>1. Head(req[c].lists) \in TouchedBy(c) /\ Op(c) \in Replaces
    BY <1>2, <1>10 DEF Clear, At, Counted, HeldLists, Stands, Request
  <2>2. Wanted(c, Head(req[c].lists)) \subseteq Keys
    BY <1>2, <2>1, Replacing
  <2>3. LET r == [req[c] EXCEPT !.todo = Wanted(c, Head(req[c].lists))]
        IN  r \in Request /\ r.rest = req[c].rest /\ r.state = "running"
    BY <1>2, <2>2 DEF Request
  <2>. QED
    BY <1>1, <1>4, <1>10, <2>3 DEF Clear
<1>11. ASSUME NEW k \in Keys, Insert(c, k)
       PROVE  \E j \in Keys : Insert(c, j)
  BY <1>11
<1>12. CASE Settle(c)
  <2>1. req[c].lists # <<>> /\ req[c].lists \in Seq(Tables)
    BY <1>2, <1>12 DEF Settle, At, Counted, Request
  <2>2. Tail(req[c].lists) \in Seq(Tables)
    BY <2>1
  <2>3. req[c].failing => /\ Ended(c) /\ UNCHANGED <<rows, exact, asked>>
                          /\ Head(req[c].rest) # "clear"
    BY <1>3, <1>12 DEF Settle, At, tables
  <2>4. ~ req[c].failing => Moved(c, [req[c] EXCEPT !.lists = Tail(req[c].lists)])
    BY <1>4, <1>6, <1>12, <2>2 DEF Settle
  <2>. QED
    BY <1>1, <1>12, <2>3, <2>4
<1>. QED
  BY <1>1, <1>7, <1>8, <1>9, <1>10, <1>11, <1>12 DEF CatalogueStep

(* An INSERT marks its key as done; the request stays where it is.         *)
LEMMA InsertMoves ==
    ASSUME NEW c \in Clients, NEW k \in Keys, StoreInv, Insert(c, k)
    PROVE  /\ c \in Running /\ Head(req[c].rest) = "insert" /\ k \in req[c].todo
           /\ UNCHANGED <<ask, exact, asked>> /\ RequestsTyped'
           /\ \A d \in Clients : d # c => req'[d] = req[d]
           /\ req'[c].state = "running" /\ req'[c].rest = req[c].rest /\ req'[c].row = req[c].row
           /\ req'[c].met = req[c].met /\ req'[c].lists = req[c].lists
           /\ req'[c].todo = req[c].todo \ {k}
           /\ req'[c].failing = (req[c].failing \/ ~ Accepts(Head(req[c].lists), k))
           /\ req[c].lists # <<>> /\ Head(req[c].lists) \in TouchedBy(c)
           /\ Op(c) \in {"grants", "settings"}
<1>1. /\ c \in Running /\ Head(req[c].rest) = "insert" /\ k \in req[c].todo
      /\ UNCHANGED <<ask, exact, asked>>
  BY DEF Insert, At, history
<1>2. /\ req[c] \in Request /\ req[c].state = "running" /\ Counted(c) /\ Op(c) \in {"grants", "settings"}
  BY <1>1, Standing DEF StoreInv, Listed, Stands
<1>3. Accepts(Head(req[c].lists), k) \in BOOLEAN
  BY DEF Accepts
<1>. DEFINE r == [req[c] EXCEPT !.todo = @ \ {k},
                              !.failing = @ \/ ~ Accepts(Head(req[c].lists), k)]
<1>4. r \in Request
  BY <1>2, <1>3 DEF Request
<1>5. req' = [req EXCEPT ![c] = r] /\ req \in [Clients -> Request]
  BY DEF Insert, StoreInv, Typed, RequestsTyped
<1>6. /\ r.state = "running" /\ r.rest = req[c].rest /\ r.row = req[c].row
      /\ r.met = req[c].met /\ r.lists = req[c].lists /\ r.todo = req[c].todo \ {k}
      /\ r.failing = (req[c].failing \/ ~ Accepts(Head(req[c].lists), k))
  BY <1>2 DEF Request
<1>7. req' \in [Clients -> Request] /\ req'[c] = r /\ \A d \in Clients : d # c => req'[d] = req[d]
  BY <1>4, <1>5
<1>8. req[c].lists # <<>> /\ Head(req[c].lists) \in TouchedBy(c)
  BY <1>1, <1>2 DEF Counted, HeldLists, Request
<1>. HIDE DEF r
<1>. QED
  BY <1>1, <1>2, <1>6, <1>7, <1>8 DEF RequestsTyped, StoreInv, Typed

LEMMA CatalogueStore ==
    ASSUME NEW c \in Clients, StoreInv, CatalogueStep(c)
    PROVE  StoreInv'
<1>1. c \in Running /\ UNCHANGED <<users, tokens, sessions, ask, clock, crashes, quiet>>
  BY CatalogueMoves
<1>2. /\ req[c] \in Request /\ WellFormed(ask[c]) /\ Stands(Head(req[c].rest), Op(c))
      /\ Counted(c)
  BY <1>1, Standing DEF StoreInv, Listed
<1>3. roles' \subseteq Roles /\ setting' \subseteq Clients
  <2>1. roles \subseteq Roles /\ setting \subseteq Clients
    BY DEF StoreInv, Typed, TablesTyped
  <2>2. InsertRole(c) => ask[c].role \in Roles
    BY <1>2 DEF InsertRole, At, Stands, WellFormed, RoleOps, Op
  <2>. QED
    BY <2>1, <2>2 DEF CatalogueStep, FindRole, FindCode, InsertRole, CountUsers, Upsert, Clear,
         Insert, Settle, DropRole, tables
<1>4. ASSUME rows' \in [Tables -> SUBSET Keys], HistoryTyped'
      PROVE  TablesTyped' /\ HistoryTyped'
  BY <1>1, <1>3, <1>4 DEF StoreInv, Typed, TablesTyped
<1>5. rows \in [Tables -> SUBSET Keys] /\ HistoryTyped
  BY DEF StoreInv, Typed, TablesTyped
<1>6. UNCHANGED <<rows, exact, asked>> => TablesTyped' /\ HistoryTyped'
  BY <1>1, <1>4, <1>5 DEF HistoryTyped
<1>7. CASE Ended(c) /\ UNCHANGED <<rows, exact, asked>> /\ Head(req[c].rest) # "clear"
  BY <1>1, <1>6, <1>7, AnswerStore DEF StoreInv, Typed
<1>8. CASE /\ Moved(c, req[c]) /\ UNCHANGED <<rows, exact, asked>>
           /\ Head(req[c].rest) \in {"findCode", "insertRole", "countUsers", "deleteRole"}
  BY <1>1, <1>6, <1>8, PlainStore DEF StoreInv, Typed
<1>9. ASSUME NEW l, Moved(c, [req[c] EXCEPT !.lists = l]), Op(c) \in Replaces => l = ListsOf(c),
             Head(req[c].rest) \in {"findRole", "upsert"}, UNCHANGED <<rows, exact, asked>>
      PROVE  StoreInv'
  <2>1. [req[c] EXCEPT !.lists = l].lists = l /\ [req[c] EXCEPT !.lists = l].met = req[c].met
    BY <1>2 DEF Request
  <2>2. req'[c].state = "running" => Counted(c)'
    BY <1>1, <1>9, <2>1, ListsSetOut
  <2>. QED
    BY <1>1, <1>6, <1>9, <2>1, <2>2, ReplaceStore DEF StoreInv, Typed
<1>10. CASE Clear(c) /\ Moved(c, [req[c] EXCEPT !.todo = Wanted(c, Head(req[c].lists))])
  <2>. DEFINE r == [req[c] EXCEPT !.todo = Wanted(c, Head(req[c].lists))]
              t == Head(req[c].lists)
  <2>1. r.lists = req[c].lists /\ r.met = req[c].met
    BY <1>2 DEF Request
  <2>2. /\ Head(req[c].rest) = "clear" /\ req[c].lists # <<>> /\ HeldLists(c) \subseteq TouchedBy(c)
        /\ req[c].lists \in Seq(Tables) /\ Op(c) \in Replaces
    BY <1>2, <1>10 DEF Clear, At, Counted, Stands, Request
  <2>3. t \in TouchedBy(c)
    BY <2>2 DEF HeldLists
  <2>4. t \in Tables /\ Wanted(c, t) \subseteq Keys
    BY <1>2, <2>2, <2>3, Replacing
  <2>5. ASSUME req'[c].state = "running" PROVE Counted(c)'
    <3>1. req'[c].lists = req[c].lists /\ HeldLists(c)' = HeldLists(c)
      BY <1>10, <2>1 DEF Moved, HeldLists
    <3>2. /\ Len(req'[c].rest) \in Nat /\ Len(req[c].rest) = 1 + Len(req'[c].rest)
          /\ Follows(Head(req[c].rest), Head(req'[c].rest), Op(c))
      BY <1>1, <1>10, <2>5, RestLeft
    <3>3. Head(req'[c].rest) \notin {"upsert", "clear"}
      BY <2>2, <3>2 DEF Follows
    <3>4. Op(c) = "settings" => Len(req'[c].rest) = 2 * Len(req[c].lists) - 1
      <4>1. Op(c) = "settings" => Len(req[c].rest) = 2 * Len(req[c].lists)
        BY <1>2, <2>2 DEF Counted
      <4>2. Len(req[c].lists) \in Nat
        BY <2>2
      <4>. QED
        BY <3>2, <4>1, <4>2
    <3>. QED
      BY <1>1, <2>2, <3>1, <3>3, <3>4, SameTouched DEF Counted
  <2>6. RequestsTyped' /\ Routed' /\ Listed' /\ Overlapping'
    BY <1>1, <1>10, <2>1, <2>5, ReplaceStore
  <2>7. rows' \in [Tables -> SUBSET Keys]
    BY <1>5, <1>10 DEF Clear, Cleared
  <2>8. HistoryTyped'
    <3>1. Pending(t) \subseteq Keys
      BY DEF Pending, Running, StoreInv, Typed, RequestsTyped, Request
    <3>. QED
      BY <1>1, <1>5, <1>10, <2>4, <3>1 DEF Clear, HistoryTyped
  <2>. QED
    BY <1>4, <2>6, <2>7, <2>8 DEF StoreInv, Typed
<1>11. ASSUME NEW k \in Keys, Insert(c, k) PROVE StoreInv'
  <2>1. Overlapping'
    BY <1>1, <1>11, InsertMoves, SameMet DEF StoreInv, Running
  <2>2. Listed'
    BY <1>1, <1>11, InsertMoves, SameCounted DEF StoreInv, Listed, Running
  <2>3. Routed' /\ RequestsTyped'
    BY <1>1, <1>11, InsertMoves DEF StoreInv, Routed, Running
  <2>4. rows' \in [Tables -> SUBSET Keys] /\ HistoryTyped'
    BY <1>1, <1>5, <1>11 DEF Insert, HistoryTyped, history
  <2>. QED
    BY <1>4, <2>1, <2>2, <2>3, <2>4 DEF StoreInv, Typed
<1>12. CASE Settle(c) /\ ~ req[c].failing /\ Moved(c, [req[c] EXCEPT !.lists = Tail(@)])
  <2>. DEFINE t == Head(req[c].lists)
  <2>1. /\ [req[c] EXCEPT !.lists = Tail(@)].lists = Tail(req[c].lists)
        /\ [req[c] EXCEPT !.lists = Tail(@)].met = req[c].met
    BY <1>2 DEF Request
  <2>2. /\ Head(req[c].rest) = "insert" /\ req[c].lists # <<>> /\ HeldLists(c) \subseteq TouchedBy(c)
        /\ req[c].lists \in Seq(Tables) /\ Op(c) \in Replaces
    BY <1>2, <1>12 DEF Settle, At, Counted, Stands, Request, Replaces
  <2>3. t \in TouchedBy(c)
    BY <2>2 DEF HeldLists
  <2>4. t \in Tables /\ Wanted(c, t) \subseteq Keys
    BY <1>2, <2>2, <2>3, Replacing
  <2>5. ASSUME req'[c].state = "running" PROVE Counted(c)'
    <3>1. req'[c].lists = Tail(req[c].lists)
      BY <1>12, <2>1 DEF Moved
    <3>2. /\ Len(req'[c].rest) \in Nat /\ Len(req'[c].rest) > 0
          /\ Len(req[c].rest) = 1 + Len(req'[c].rest)
          /\ Follows(Head(req[c].rest), Head(req'[c].rest), Op(c))
      BY <1>1, <1>12, <2>5, RestLeft
    <3>3. Head(req'[c].rest) \notin {"upsert", "insert", "countUsers"}
          /\ (Head(req'[c].rest) = "clear" => Op(c) = "settings")
      BY <2>2, <3>2 DEF Follows
    <3>4. /\ Len(Tail(req[c].lists)) \in Nat /\ Len(req[c].lists) = 1 + Len(Tail(req[c].lists))
          /\ Tail(req[c].lists) \in Seq(Tables)
      BY <2>2
    <3>5. Op(c) = "settings" => /\ Len(req'[c].rest) = 2 * Len(Tail(req[c].lists))
                               /\ Tail(req[c].lists) # <<>>
      <4>. SUFFICES ASSUME Op(c) = "settings"
                    PROVE  /\ Len(req'[c].rest) = 2 * Len(Tail(req[c].lists))
                           /\ Tail(req[c].lists) # <<>>
        OBVIOUS
      <4>. DEFINE j == Len(req[c].rest)
                  k == Len(req'[c].rest)
                  m == Len(req[c].lists)
                  n == Len(Tail(req[c].lists))
      <4>1. j = 2 * m - 1
        BY <1>2, <2>2 DEF Counted
      <4>2. j = 1 + k /\ k \in Nat /\ k > 0
        BY <3>2
      <4>3. m = 1 + n /\ n \in Nat
        BY <3>4
      <4>4. Tail(req[c].lists) = <<>> => n = 0
        <5>1. \A l \in Seq(Tables) : l = <<>> => Len(l) = 0
          OBVIOUS
        <5>. QED
          BY <3>4, <5>1
      <4>. HIDE DEF j, k, m, n
      <4>5. k = 2 * n /\ n # 0
        BY <4>1, <4>2, <4>3
      <4>. QED
        BY <4>4, <4>5 DEF k, n
    <3>6. HeldLists(c)' \subseteq HeldLists(c)
      BY <2>2, <3>1, <3>4 DEF HeldLists
    <3>. QED
      BY <1>1, <2>2, <3>1, <3>3, <3>5, <3>6, SameTouched DEF Counted
  <2>6. RequestsTyped' /\ Routed' /\ Listed' /\ Overlapping'
    BY <1>1, <1>12, <2>1, <2>5, ReplaceStore
  <2>7. UNCHANGED <<rows, asked>>
    BY <1>12 DEF Settle, tables
  <2>8. HistoryTyped'
    BY <1>1, <1>5, <1>12, <2>4, <2>7 DEF Settle, HistoryTyped
  <2>. QED
    BY <1>4, <1>5, <2>6, <2>7, <2>8 DEF StoreInv, Typed
<1>. QED
  BY <1>7, <1>8, <1>9, <1>10, <1>11, <1>12, CatalogueMoves

-----------------------------------------------------------------------------
(* Requests begin, and a restart loses those under way.                    *)

(* A request that begins meets those under way; nothing else of theirs     *)
(* changes.                                                                *)
LEMMA BeginOthers ==
    ASSUME NEW c \in Clients, StoreInv, Begin(c), NEW d \in Clients, d # c
    PROVE  /\ req'[d] = IF d \in Running THEN [req[d] EXCEPT !.met = @ \cup {c}] ELSE req[d]
           /\ req'[d].state = req[d].state /\ req'[d].rest = req[d].rest
           /\ req'[d].lists = req[d].lists /\ req'[d].todo = req[d].todo
           /\ req'[d].failing = req[d].failing /\ req'[d].row = req[d].row
           /\ req'[d].met = IF d \in Running THEN req[d].met \cup {c} ELSE req[d].met
           /\ req[d].met \subseteq req'[d].met
<1>1. req \in [Clients -> Request]
  BY DEF StoreInv, Typed, RequestsTyped
<1>2. req' = [e \in Clients |->
                 CASE e = c -> [req[c] EXCEPT !.state = "running", !.met = Running,
                                              !.rest = StepsOf(ask[c])]
                   [] e \in Running -> [req[e] EXCEPT !.met = @ \cup {c}]
                   [] OTHER -> req[e]]
  BY DEF Begin
<1>3. CASE d \in Running
  <2>1. req'[d] = [req[d] EXCEPT !.met = @ \cup {c}]
    BY <1>2, <1>3
  <2>. QED
    BY <1>1, <1>3, <2>1 DEF Request
<1>4. CASE d \notin Running
  <2>1. req'[d] = req[d]
    BY <1>2, <1>4
  <2>. QED
    BY <1>1, <1>4, <2>1 DEF Request
<1>. QED
  BY <1>3, <1>4

LEMMA BeginEffect ==
    ASSUME NEW c \in Clients, StoreInv, Begin(c)
    PROVE  /\ c \in DOMAIN ask /\ req[c].state = "waiting"
           /\ req'[c] = [req[c] EXCEPT !.state = "running", !.met = Running, !.rest = StepsOf(ask[c])]
           /\ req'[c].state = "running" /\ req'[c].met = Running /\ req'[c].rest = StepsOf(ask[c])
           /\ Head(req'[c].rest) = StepsOf(ask[c])[1] /\ First(StepsOf(ask[c])[1], ask[c].op)
<1>1. /\ c \in DOMAIN ask /\ req[c].state = "waiting" /\ c \notin Running
      /\ req \in [Clients -> Request] /\ WellFormed(ask[c])
  BY RequestAssumption DEF Begin, StoreInv, Typed, RequestsTyped, Running
<1>2. Ordered(StepsOf(ask[c]), ask[c].op)
  BY <1>1, MethodsOrdered
<1>3. req' = [d \in Clients |->
                 CASE d = c -> [req[c] EXCEPT !.state = "running", !.met = Running,
                                              !.rest = StepsOf(ask[c])]
                   [] d \in Running -> [req[d] EXCEPT !.met = @ \cup {c}]
                   [] OTHER -> req[d]]
  BY DEF Begin
<1>4. req'[c] = [req[c] EXCEPT !.state = "running", !.met = Running, !.rest = StepsOf(ask[c])]
  BY <1>1, <1>3
<1>5. /\ req'[c].state = "running" /\ req'[c].met = Running /\ req'[c].rest = StepsOf(ask[c])
  BY <1>1, <1>4 DEF Request
<1>6. Head(StepsOf(ask[c])) = StepsOf(ask[c])[1] /\ First(StepsOf(ask[c])[1], ask[c].op)
  BY <1>2 DEF Ordered
<1>. QED
  BY <1>1, <1>4, <1>5, <1>6

LEMMA BeginStore ==
    ASSUME NEW c \in Clients, StoreInv, Begin(c)
    PROVE  StoreInv'
<1>1. /\ c \in DOMAIN ask /\ req[c].state = "waiting" /\ UNCHANGED <<tables, ask, clock, crashes, history>>
      /\ req \in [Clients -> Request] /\ WellFormed(ask[c])
  BY RequestAssumption DEF Begin, StoreInv, Typed, RequestsTyped
<1>2. Ordered(StepsOf(ask[c]), ask[c].op)
  BY <1>1, MethodsOrdered
<1>3. /\ c \notin Running /\ Running \subseteq Clients
      /\ \A d \in Clients : d \in Running <=> req[d].state = "running"
  BY <1>1 DEF Running
<1>4. /\ \A d \in Clients : d # c =>
            /\ req'[d].state = req[d].state /\ req'[d].rest = req[d].rest
            /\ req'[d].lists = req[d].lists
            /\ req'[d].met = IF d \in Running THEN req[d].met \cup {c} ELSE req[d].met
      /\ req'[c].state = "running" /\ req'[c].met = Running /\ req'[c].rest = StepsOf(ask[c])
      /\ c \notin Running /\ Running \subseteq Clients
  <2>1. /\ req'[c].state = "running" /\ req'[c].met = Running /\ req'[c].rest = StepsOf(ask[c])
    BY BeginEffect
  <2>2. ASSUME NEW d \in Clients, d # c
        PROVE  /\ req'[d].state = req[d].state /\ req'[d].rest = req[d].rest
               /\ req'[d].lists = req[d].lists
               /\ req'[d].met = IF d \in Running THEN req[d].met \cup {c} ELSE req[d].met
    BY <2>2, BeginOthers
  <2>. QED
    BY <1>3, <2>1, <2>2
<1>5. \A d \in Clients : req'[d] \in Request
  <2>1. req'[c] \in Request
    <3>1. StepsOf(ask[c]) \in Seq(Statements) /\ req[c] \in Request
      BY <1>1, <1>2 DEF Ordered
    <3>2. Running \in SUBSET Clients
      BY <1>3
    <3>3. \A m \in SUBSET Clients, l \in Seq(Statements) :
            [req[c] EXCEPT !.state = "running", !.met = m, !.rest = l] \in Request
      BY <3>1 DEF Request
    <3>4. req'[c] = [req[c] EXCEPT !.state = "running", !.met = Running, !.rest = StepsOf(ask[c])]
      BY BeginEffect
    <3>. QED
      BY <3>1, <3>2, <3>3, <3>4
  <2>2. ASSUME NEW d \in Clients, d # c PROVE req'[d] \in Request
    <3>1. req[d] \in Request
      BY <1>1
    <3>2. [req[d] EXCEPT !.met = @ \cup {c}] \in Request
      BY <3>1 DEF Request
    <3>. QED
      BY <2>2, <3>1, <3>2, BeginOthers
  <2>. QED
    BY <2>1, <2>2
<1>6. RequestsTyped'
  BY <1>1, <1>5 DEF Begin, RequestsTyped, StoreInv, Typed
<1>7. Routed'
  <2>1. Suffix(StepsOf(ask[c]), StepsOf(ask[c]))
    BY <1>2 DEF Suffix, Ordered
  <2>. QED
    BY <1>1, <1>4, <2>1 DEF Routed, StoreInv
<1>8. Listed'
  <2>1. Counted(c)'
    <3>1. Head(StepsOf(ask[c])) = StepsOf(ask[c])[1] /\ First(StepsOf(ask[c])[1], ask[c].op)
      BY <1>4, BeginEffect
    <3>2. Op(c)' = ask[c].op
      BY <1>1 DEF Op
    <3>3. ask[c].op = "settings" => Len(StepsOf(ask[c])) = 2 * Len(ask[c].lists) + 1
      <4>1. ask[c].op = "settings" => Len(StepsOf(ask[c])) = 1 + 2 * Len(ask[c].lists)
        BY <1>1, SettingsOrdered
      <4>2. ask[c].op = "settings" => Len(ask[c].lists) \in Nat
        BY <1>1 DEF WellFormed
      <4>. QED
        BY <4>1, <4>2
    <3>. QED
      BY <1>1, <1>4, <3>1, <3>2, <3>3 DEF Counted, First
  <2>2. \A d \in Clients : d # c /\ req'[d].state = "running" => Counted(d)'
    BY <1>1, <1>4, SameCounted DEF Listed, StoreInv
  <2>. QED
    BY <2>1, <2>2 DEF Listed
<1>9. Overlapping'
  <2>1. \A d \in Clients : c \notin req[d].met /\ req[c].met = {}
    BY <1>1 DEF StoreInv, Overlapping
  <2>2. \A d \in Clients : d # c => (c \in req'[d].met <=> d \in req'[c].met)
    BY <1>4, <2>1 DEF Running
  <2>3. \A d, e \in Clients : d # c /\ e # c => (e \in req'[d].met <=> e \in req[d].met)
    BY <1>4
  <2>4. c \notin req'[c].met
    BY <1>4
  <2>5. ASSUME NEW d \in Clients, NEW e \in Clients
        PROVE  /\ e \in req'[d].met <=> d \in req'[e].met
               /\ d \notin req'[d].met
               /\ req'[d].state = "waiting" => req'[d].met = {}
               /\ d # e /\ req'[d].state = "running" /\ req'[e].state = "running" => e \in req'[d].met
    <3>1. /\ e \in req[d].met <=> d \in req[e].met
          /\ d \notin req[d].met
          /\ req[d].state = "waiting" => req[d].met = {}
          /\ d # e /\ req[d].state = "running" /\ req[e].state = "running" => e \in req[d].met
      BY DEF StoreInv, Overlapping
    <3>2. CASE d = c
      BY <1>1, <1>3, <1>4, <2>2, <2>4, <3>1, <3>2
    <3>3. CASE d # c /\ e = c
      BY <1>1, <1>3, <1>4, <2>2, <3>1, <3>3
    <3>4. CASE d # c /\ e # c
      BY <1>1, <1>3, <1>4, <2>3, <3>1, <3>4
    <3>. QED
      BY <3>2, <3>3, <3>4
  <2>. QED
    BY <2>5 DEF Overlapping
<1>. QED
  BY <1>1, <1>6, <1>7, <1>8, <1>9 DEF StoreInv, Typed, TablesTyped, HistoryTyped, tables, history

(* After a restart no request is under way.                                *)
LEMMA CrashEffect ==
    ASSUME StoreInv, CrashApi, NEW c \in Clients
    PROVE  /\ req'[c] \in Request /\ req'[c].met = req[c].met /\ req'[c].row = req[c].row
           /\ req'[c].state # "running"
           /\ req'[c].state = "waiting" => req[c].state = "waiting"
<1>1. req'[c] = IF req[c].state = "running" THEN [req[c] EXCEPT !.state = "lost", !.rest = <<>>]
                                            ELSE req[c]
  BY DEF CrashApi, Running
<1>2. <<>> \in Seq(Statements) /\ req[c] \in Request
  BY DEF StoreInv, Typed, RequestsTyped
<1>. QED
  BY <1>1, <1>2 DEF Request

LEMMA CrashStore ==
    ASSUME StoreInv, CrashApi
    PROVE  StoreInv'
<1>1. UNCHANGED <<tables, ask, clock, history>> /\ crashes' \in 0 .. MaxCrashes
  <2>1. UNCHANGED <<tables, ask, clock, history>> /\ crashes < MaxCrashes /\ crashes' = crashes + 1
    BY DEF CrashApi
  <2>2. crashes \in 0 .. MaxCrashes /\ MaxCrashes \in Nat
    BY StoreAssumption DEF StoreInv, Typed, TablesTyped
  <2>. QED
    BY <2>1, <2>2
<1>2. RequestsTyped'
  BY <1>1, CrashEffect DEF CrashApi, RequestsTyped, StoreInv, Typed
<1>3. Overlapping'
  BY CrashEffect, SameMet DEF StoreInv
<1>4. Routed' /\ Listed'
  BY CrashEffect DEF Routed, Listed
<1>. QED
  BY <1>1, <1>2, <1>3, <1>4 DEF StoreInv, Typed, TablesTyped, HistoryTyped, tables, history

LEMMA InitStore == Init => StoreInv
<1>. SUFFICES ASSUME Init PROVE StoreInv
  OBVIOUS
<1>1. \E u \in Users : TRUE
  BY RequestAssumption
<1>2. (CHOOSE u \in Users : TRUE) \in Users
  BY <1>1
<1>3. ask \in Scenarios /\ DOMAIN ask \subseteq Clients
  BY RequestAssumption DEF Init
<1>4. TablesTyped
  BY StoreAssumption DEF Init, TablesTyped
<1>5. HistoryTyped
  BY StoreAssumption DEF Init, HistoryTyped
<1>6. ASSUME NEW c \in Clients PROVE req[c] \in Request
  <2>1. (CHOOSE d \in Clients : TRUE) \in Clients
    BY <1>6
  <2>2. <<>> \in Seq(Statements) /\ <<>> \in Seq(Tables)
    OBVIOUS
  <2>3. FirstUsers[CHOOSE u \in Users : TRUE] \in UserRow
    BY <1>2, StoreAssumption
  <2>. QED
    BY <2>1, <2>2, <2>3 DEF Init, FirstRequest, Request
<1>7. RequestsTyped
  BY <1>3, <1>6 DEF Init, RequestsTyped
<1>8. \A c \in Clients : req[c].state = "waiting" /\ req[c].met = {}
  BY DEF Init, FirstRequest
<1>. QED
  BY <1>4, <1>5, <1>7, <1>8 DEF StoreInv, Typed, Routed, Listed, Overlapping

LEMMA NextStore == StoreInv /\ [Next]_vars => StoreInv'
<1>. SUFFICES ASSUME StoreInv, [Next]_vars PROVE StoreInv'
  OBVIOUS
<1>1. ASSUME NEW c \in Clients, AccountStep(c) PROVE StoreInv'
  BY <1>1, ReadStore, WriteStore, TokenStore, ExpireStore DEF AccountStep
<1>2. CASE UNCHANGED vars
  <2>1. UNCHANGED <<tables, ask, req, clock, crashes, history>>
    BY <1>2 DEF vars
  <2>2. Listed'
    BY <2>1, SameCounted DEF StoreInv, Listed
  <2>. QED
    BY <2>1, <2>2 DEF StoreInv, Typed, TablesTyped, HistoryTyped, RequestsTyped, Routed,
       Overlapping, tables, history
<1>. QED
  BY <1>1, <1>2, BeginStore, CrashStore, CatalogueStore DEF Next

(* Requests keep to the statements of their methods, replace lists that    *)
(* they asked to replace, and know whom they met.                          *)
THEOREM StoreInvHolds == Spec => []StoreInv
  BY InitStore, NextStore, PTL DEF Spec

(* Tables and requests hold what their columns allow.                      *)
THEOREM BackOfficeTypes == Spec => []TypeOK
<1>1. StoreInv => TypeOK
  <2>. SUFFICES ASSUME StoreInv PROVE TypeOK
    OBVIOUS
  <2>1. \A c \in Clients : /\ req[c].state \in {"waiting", "running", "ok", "refused", "failed", "lost"}
                          /\ req[c].row \in UserRow /\ req[c].token \in Clients
                          /\ req[c].todo \subseteq Keys /\ req[c].met \subseteq Clients \ {c}
    BY DEF StoreInv, Typed, RequestsTyped, Overlapping, Request
  <2>. QED
    BY <2>1 DEF StoreInv, Typed, TablesTyped, TypeOK
<1>. QED
  BY <1>1, StoreInvHolds, PTL

-----------------------------------------------------------------------------
(* How a statement moves its request. *)

Stepped(c) ==
    /\ c \in Running /\ req'[c].met = req[c].met /\ req'[c].state # "waiting"
    /\ \A d \in Clients : d # c => req'[d] = req[d]
    /\ req'[c].state = "running" => Follows(Head(req[c].rest), Head(req'[c].rest), Op(c))

LEMMA MovedSteps ==
    ASSUME NEW c \in Clients, NEW r, c \in Running, r.met = req[c].met, Moved(c, r) \/ Ended(c)
    PROVE  Stepped(c)
  BY DEF Moved, Ended, Stepped

LEMMA AccountSteps ==
    ASSUME NEW c \in Clients, StoreInv, AccountStep(c)
    PROVE  /\ UNCHANGED <<ask, rows, exact, asked, roles, setting, crashes>>
           /\ \/ Expire(c) /\ UNCHANGED <<req, users, quiet>>
              \/ Stepped(c) /\ Head(req[c].rest) # "clear"
<1>1. UNCHANGED <<ask, rows, exact, asked, roles, setting, crashes>>
  BY DEF AccountStep, FindUser, FindToken, FindOtp, CheckRole, FindEmail, OpenSession, CloseSession,
         WriteUser, InsertUser, SoftDelete, RevokeTokens, MintToken, MarkUsed, Expire, tables, history
<1>2. CASE Expire(c)
  BY <1>1, <1>2 DEF Expire, history
<1>3. CASE FindUser(c) \/ FindToken(c) \/ FindOtp(c) \/ CheckRole(c) \/ FindEmail(c)
  <2>1. c \in Running /\ Head(req[c].rest) # "clear"
    BY <1>3 DEF FindUser, FindToken, FindOtp, CheckRole, FindEmail, At
  <2>2. req[c] \in Request
    BY <2>1, Standing DEF StoreInv
  <2>3. \A x : /\ [req[c] EXCEPT !.row = x].met = req[c].met
              /\ [req[c] EXCEPT !.token = x].met = req[c].met
              /\ [req[c] EXCEPT !.at = x].met = req[c].met
    BY <2>2 DEF Request
  <2>. QED
    BY <1>1, <1>3, <2>1, <2>3, ReadMoves, MovedSteps
<1>4. CASE WriteUser(c) \/ InsertUser(c) \/ SoftDelete(c)
  BY <1>1, <1>4, WriteMoves, MovedSteps
<1>5. CASE OpenSession(c) \/ CloseSession(c) \/ RevokeTokens(c) \/ MintToken(c) \/ MarkUsed(c)
  BY <1>1, <1>5, TokenMoves, MovedSteps
<1>. QED
  BY <1>2, <1>3, <1>4, <1>5 DEF AccountStep

LEMMA CatalogueSteps ==
    ASSUME NEW c \in Clients, StoreInv, CatalogueStep(c)
    PROVE  /\ UNCHANGED <<users, tokens, sessions, ask, quiet>>
           /\ \/ \E k \in Keys : Insert(c, k)
              \/ Stepped(c) /\ UNCHANGED <<rows, exact, asked>> /\ Head(req[c].rest) # "clear"
              \/ Stepped(c) /\ Clear(c) /\ req'[c].todo = Wanted(c, Head(req[c].lists))
                 /\ req'[c].lists = req[c].lists
              \/ Stepped(c) /\ Settle(c) /\ ~ req[c].failing
<1>1. c \in Running /\ UNCHANGED <<users, tokens, sessions, ask, quiet>>
  BY CatalogueMoves
<1>2. req[c] \in Request
  BY <1>1, Standing DEF StoreInv
<1>3. \A x : /\ [req[c] EXCEPT !.lists = x].met = req[c].met
            /\ [req[c] EXCEPT !.todo = x].met = req[c].met
            /\ [req[c] EXCEPT !.todo = x].todo = x
            /\ [req[c] EXCEPT !.todo = x].lists = req[c].lists
  BY <1>2 DEF Request
<1>4. CASE Ended(c) /\ UNCHANGED <<rows, exact, asked>> /\ Head(req[c].rest) # "clear"
  BY <1>1, <1>4, MovedSteps
<1>5. CASE /\ Moved(c, req[c]) /\ UNCHANGED <<rows, exact, asked>>
           /\ Head(req[c].rest) \in {"findCode", "insertRole", "countUsers", "deleteRole"}
  BY <1>1, <1>5, MovedSteps
<1>6. ASSUME NEW l, Moved(c, [req[c] EXCEPT !.lists = l]),
             Head(req[c].rest) \in {"findRole", "upsert"}, UNCHANGED <<rows, exact, asked>>
      PROVE  Stepped(c) /\ UNCHANGED <<rows, exact, asked>> /\ Head(req[c].rest) # "clear"
  BY <1>1, <1>3, <1>6, MovedSteps
<1>7. CASE Clear(c) /\ Moved(c, [req[c] EXCEPT !.todo = Wanted(c, Head(req[c].lists))])
  <2>1. Stepped(c)
    BY <1>1, <1>3, <1>7, MovedSteps
  <2>. QED
    BY <1>1, <1>3, <1>7, <2>1 DEF Moved
<1>8. CASE Settle(c) /\ ~ req[c].failing /\ Moved(c, [req[c] EXCEPT !.lists = Tail(@)])
  BY <1>1, <1>3, <1>8, MovedSteps
<1>. QED
  BY <1>1, <1>4, <1>5, <1>6, <1>7, <1>8, CatalogueMoves

-----------------------------------------------------------------------------
(* Lists that are replaced. *)

Inserting(c) == req[c].state = "running" /\ Head(req[c].rest) = "insert"

(* Keys still to be inserted were asked for since the list was emptied; no *)
(* exact list has INSERTs to come; and the rows of a list that one request *)
(* alone replaces are those it has inserted.                               *)
ListsInv ==
    /\ \A t \in Tables : rows[t] \subseteq asked[t]
    /\ \A t \in Tables : \A s \in exact[t] : rows[t] = s
    /\ \A c \in Clients : Inserting(c) =>
         LET t == Head(req[c].lists)
         IN  /\ req[c].todo \subseteq asked[t]
             /\ exact[t] = {}
             /\ ~ req[c].failing /\ AloneIn(t, c) => rows[t] \cup req[c].todo = Wanted(c, t)

LEMMA InsertingIn ==
    ASSUME NEW c \in Clients, StoreInv, Inserting(c)
    PROVE  /\ c \in Running /\ Head(req[c].lists) \in TouchedBy(c)
           /\ Head(req[c].lists) \in Tables
<1>1. c \in Running
  BY DEF Inserting, Running
<1>2. req[c] \in Request /\ Counted(c) /\ WellFormed(ask[c]) /\ Stands(Head(req[c].rest), Op(c))
  BY <1>1, Standing DEF StoreInv, Listed, Inserting
<1>3. Head(req[c].lists) \in TouchedBy(c)
  BY <1>2 DEF Counted, HeldLists, Inserting, Request
<1>. QED
  BY <1>1, <1>2, <1>3, Replacing DEF Stands, Inserting, Replaces

(* A request alone in a list has met no other on it.                       *)
LEMMA AloneMet ==
    ASSUME NEW c \in Clients, NEW d \in Clients, NEW t, StoreInv, c # d, c \in Running,
           d \in Running, t \in TouchedBy(c)
    PROVE  ~ AloneIn(t, d)
  BY DEF AloneIn, StoreInv, Overlapping, Running

LEMMA ListsFrame ==
    ASSUME ListsInv, UNCHANGED <<ask, rows, exact, asked>>,
           \A c \in Clients : Inserting(c)' =>
               /\ Inserting(c) /\ req'[c].lists = req[c].lists /\ req'[c].todo = req[c].todo
               /\ req'[c].failing = req[c].failing /\ req[c].met \subseteq req'[c].met
    PROVE  ListsInv'
<1>1. ASSUME NEW c \in Clients, Inserting(c)', NEW t, t = Head(req[c].lists)
      PROVE  /\ Head(req'[c].lists) = t /\ req'[c].todo \subseteq asked'[t] /\ exact'[t] = {}
             /\ ~ req'[c].failing /\ AloneIn(t, c)' => rows'[t] \cup req'[c].todo = Wanted(c, t)'
  <2>1. AloneIn(t, c)' => AloneIn(t, c)
    BY <1>1, SameTouched DEF AloneIn
  <2>2. Wanted(c, t)' = Wanted(c, t)
    BY DEF Wanted, Op
  <2>3. /\ req[c].todo \subseteq asked[t] /\ exact[t] = {}
        /\ ~ req[c].failing /\ AloneIn(t, c) => rows[t] \cup req[c].todo = Wanted(c, t)
    BY <1>1 DEF ListsInv
  <2>. QED
    BY <1>1, <2>1, <2>2, <2>3
<1>. QED
  BY <1>1 DEF ListsInv

LEMMA SteppedLists ==
    ASSUME NEW c \in Clients, ListsInv, Stepped(c), Head(req[c].rest) # "clear",
           UNCHANGED <<ask, rows, exact, asked>>
    PROVE  ListsInv'
<1>1. ~ Inserting(c)'
  BY DEF Stepped, Follows, Inserting
<1>2. \A d \in Clients : d # c => (Inserting(d)' <=> Inserting(d))
  BY DEF Stepped, Inserting
<1>. QED
  BY <1>1, <1>2, ListsFrame DEF Stepped

(* One request's part of ListsInv.                                         *)
InsertsInv(c, t) ==
    /\ req[c].todo \subseteq asked[t]
    /\ exact[t] = {}
    /\ ~ req[c].failing /\ AloneIn(t, c) => rows[t] \cup req[c].todo = Wanted(c, t)

LEMMA ListsParts ==
    ASSUME \A t \in Tables : rows'[t] \subseteq asked'[t],
           \A t \in Tables : \A s \in exact'[t] : rows'[t] = s,
           \A c \in Clients : \A t : t = Head(req'[c].lists) /\ Inserting(c)' => InsertsInv(c, t)'
    PROVE  ListsInv'
  BY DEF ListsInv, InsertsInv

(* The history of a list and its rows are as before, seen from a request   *)
(* on another list.                                                        *)
LEMMA OtherList ==
    ASSUME NEW c \in Clients, NEW t, UNCHANGED ask, InsertsInv(c, t), req'[c] = req[c],
           rows'[t] = rows[t], exact'[t] = exact[t], asked'[t] = asked[t]
    PROVE  InsertsInv(c, t)'
<1>1. AloneIn(t, c)' = AloneIn(t, c)
  BY SameTouched DEF AloneIn
<1>2. Wanted(c, t)' = Wanted(c, t)
  BY DEF Wanted, Op
<1>. QED
  BY <1>1, <1>2 DEF InsertsInv

LEMMA ClearLists ==
    ASSUME NEW c \in Clients, StoreInv, ListsInv, Clear(c), Stepped(c),
           req'[c].todo = Wanted(c, Head(req[c].lists)), req'[c].lists = req[c].lists, UNCHANGED ask
    PROVE  ListsInv'
<1>0. PICK t : t = Head(req[c].lists)
  OBVIOUS
<1>1. /\ rows' = [rows EXCEPT ![t] = {}]
      /\ asked' = [asked EXCEPT ![t] = Pending(t) \cup Wanted(c, t)]
      /\ exact' = [exact EXCEPT ![t] = {}]
      /\ c \in Running /\ Head(req[c].rest) = "clear"
  BY <1>0 DEF Clear, Cleared, At
<1>2. DOMAIN rows = Tables /\ DOMAIN asked = Tables /\ DOMAIN exact = Tables
  BY DEF StoreInv, Typed, TablesTyped, HistoryTyped
<1>3. /\ req[c] \in Request /\ Counted(c) /\ WellFormed(ask[c]) /\ Stands("clear", Op(c))
  BY <1>1, Standing DEF StoreInv, Listed
<1>4. t \in TouchedBy(c) /\ t \in Tables
  <2>1. t \in TouchedBy(c)
    BY <1>0, <1>1, <1>3 DEF Counted, HeldLists, Request
  <2>. QED
    BY <1>3, <2>1, Replacing DEF Stands
<1>5. /\ rows'[t] = {} /\ asked'[t] = Pending(t) \cup Wanted(c, t) /\ exact'[t] = {}
      /\ \A q \in Tables : q # t => /\ rows'[q] = rows[q] /\ asked'[q] = asked[q]
                                    /\ exact'[q] = exact[q]
  BY <1>1, <1>2, <1>4
<1>6. Wanted(c, t)' = Wanted(c, t)
  BY DEF Wanted, Op
<1>7. ASSUME NEW d \in Clients, d # c, Inserting(d)', NEW q, q = Head(req'[d].lists)
      PROVE  InsertsInv(d, q)'
  <2>1. req'[d] = req[d] /\ Inserting(d) /\ q = Head(req[d].lists)
    BY <1>7 DEF Stepped, Inserting
  <2>2. d \in Running /\ q \in Tables
    BY <2>1, InsertingIn
  <2>3. CASE q # t
    <3>1. InsertsInv(d, q)
      BY <2>1 DEF ListsInv, InsertsInv
    <3>. QED
      BY <1>5, <2>1, <2>2, <2>3, <3>1, OtherList
  <2>4. CASE q = t
    <3>1. ~ AloneIn(t, d)
      BY <1>1, <1>4, <1>7, <2>2, AloneMet
    <3>2. ~ AloneIn(t, d)'
      BY <2>1, <3>1, SameTouched DEF AloneIn
    <3>3. req[d].todo \subseteq Pending(t)
      BY <2>1, <2>2, <2>4 DEF Pending, At, Inserting
    <3>. QED
      BY <1>5, <2>1, <2>4, <3>2, <3>3 DEF InsertsInv
  <2>. QED
    BY <2>3, <2>4
<1>8. req'[c].todo = Wanted(c, t) /\ Head(req'[c].lists) = t
  BY <1>0
<1>9. InsertsInv(c, t)'
  BY <1>5, <1>6, <1>8 DEF InsertsInv
<1>10. \A q \in Tables : rows'[q] \subseteq asked'[q]
  BY <1>5 DEF ListsInv
<1>11. \A q \in Tables : \A s \in exact'[q] : rows'[q] = s
  BY <1>5 DEF ListsInv
<1>. QED
  BY <1>7, <1>8, <1>9, <1>10, <1>11, ListsParts

LEMMA InsertLists ==
    ASSUME NEW c \in Clients, NEW k \in Keys, StoreInv, ListsInv, Insert(c, k)
    PROVE  ListsInv'
<1>0. PICK t : t = Head(req[c].lists)
  OBVIOUS
<1>1. rows' = IF Accepts(t, k) THEN [rows EXCEPT ![t] = @ \cup {k}] ELSE rows
  BY <1>0 DEF Insert
<1>2. /\ c \in Running /\ Inserting(c) /\ k \in req[c].todo /\ UNCHANGED <<ask, exact, asked>>
      /\ \A d \in Clients : d # c => req'[d] = req[d]
      /\ req'[c].met = req[c].met /\ req'[c].lists = req[c].lists
      /\ req'[c].todo = req[c].todo \ {k}
      /\ req'[c].failing = (req[c].failing \/ ~ Accepts(t, k))
  BY <1>0, InsertMoves DEF Inserting, Running
<1>3. t \in TouchedBy(c) /\ t \in Tables /\ InsertsInv(c, t)
  BY <1>0, <1>2, InsertingIn DEF ListsInv, InsertsInv
<1>4. rows \in [Tables -> SUBSET Keys]
  BY DEF StoreInv, Typed, TablesTyped
<1>5. /\ rows'[t] = IF Accepts(t, k) THEN rows[t] \cup {k} ELSE rows[t]
      /\ \A q \in Tables : q # t => rows'[q] = rows[q]
  BY <1>1, <1>3, <1>4
<1>6. ASSUME NEW d \in Clients, d # c, Inserting(d)', NEW q, q = Head(req'[d].lists)
      PROVE  InsertsInv(d, q)'
  <2>1. req'[d] = req[d] /\ Inserting(d) /\ q = Head(req[d].lists)
    BY <1>2, <1>6 DEF Inserting
  <2>2. d \in Running /\ q \in Tables /\ InsertsInv(d, q)
    BY <2>1, InsertingIn DEF ListsInv, InsertsInv
  <2>3. CASE q # t
    BY <1>2, <1>5, <2>1, <2>2, <2>3, OtherList
  <2>4. CASE q = t
    <3>1. ~ AloneIn(t, d)
      BY <1>2, <1>3, <1>6, <2>2, AloneMet
    <3>2. ~ AloneIn(t, d)'
      BY <1>2, <2>1, <3>1, SameTouched DEF AloneIn
    <3>. QED
      BY <1>2, <2>1, <2>2, <2>4, <3>2 DEF InsertsInv
  <2>. QED
    BY <2>3, <2>4
<1>7. Head(req'[c].lists) = t
  BY <1>0, <1>2
<1>8. InsertsInv(c, t)'
  <2>1. AloneIn(t, c)' = AloneIn(t, c)
    BY <1>2, SameTouched DEF AloneIn
  <2>2. Wanted(c, t)' = Wanted(c, t)
    BY <1>2 DEF Wanted, Op
  <2>. QED
    BY <1>2, <1>3, <1>5, <2>1, <2>2 DEF InsertsInv
<1>9. \A q \in Tables : rows'[q] \subseteq asked'[q]
  BY <1>2, <1>3, <1>5 DEF ListsInv, InsertsInv
<1>10. \A q \in Tables : \A s \in exact'[q] : rows'[q] = s
  BY <1>2, <1>3, <1>5 DEF ListsInv, InsertsInv
<1>. QED
  BY <1>6, <1>7, <1>8, <1>9, <1>10, ListsParts

LEMMA SettleLists ==
    ASSUME NEW c \in Clients, StoreInv, ListsInv, Settle(c), Stepped(c), ~ req[c].failing,
           UNCHANGED ask
    PROVE  ListsInv'
<1>0. PICK t : t = Head(req[c].lists)
  OBVIOUS
<1>1. /\ req[c].todo = {} /\ exact' = [exact EXCEPT ![t] = IF AloneIn(t, c) THEN {Wanted(c, t)} ELSE {}]
      /\ UNCHANGED <<rows, asked>> /\ c \in Running /\ Inserting(c)
  BY <1>0 DEF Settle, tables, At, Inserting, Running
<1>2. t \in TouchedBy(c) /\ t \in Tables /\ InsertsInv(c, t)
  BY <1>0, <1>1, InsertingIn DEF ListsInv, InsertsInv
<1>3. DOMAIN exact = Tables
  BY DEF StoreInv, Typed, HistoryTyped
<1>4. /\ exact'[t] = IF AloneIn(t, c) THEN {Wanted(c, t)} ELSE {}
      /\ \A q \in Tables : q # t => exact'[q] = exact[q]
  BY <1>1, <1>2, <1>3
<1>5. ASSUME NEW d \in Clients, d # c, Inserting(d)', NEW q, q = Head(req'[d].lists)
      PROVE  InsertsInv(d, q)'
  <2>1. req'[d] = req[d] /\ Inserting(d) /\ q = Head(req[d].lists)
    BY <1>5 DEF Stepped, Inserting
  <2>2. d \in Running /\ q \in Tables /\ q \in TouchedBy(d) /\ InsertsInv(d, q)
    BY <2>1, InsertingIn DEF ListsInv, InsertsInv
  <2>3. q = t => ~ AloneIn(t, c)
    BY <1>1, <1>5, <2>2, AloneMet
  <2>4. exact'[q] = exact[q]
    BY <1>4, <2>2, <2>3 DEF InsertsInv
  <2>. QED
    BY <1>1, <2>1, <2>2, <2>4, OtherList
<1>6. ~ Inserting(c)'
  BY <1>1 DEF Stepped, Follows, Inserting
<1>7. \A q \in Tables : rows'[q] \subseteq asked'[q]
  BY <1>1 DEF ListsInv
<1>8. \A q \in Tables : \A s \in exact'[q] : rows'[q] = s
  BY <1>1, <1>2, <1>4 DEF ListsInv, InsertsInv
<1>. QED
  BY <1>5, <1>6, <1>7, <1>8, ListsParts

LEMMA RequestLists ==
    ASSUME StoreInv, ListsInv, CrashApi \/ \E c \in Clients : Begin(c)
    PROVE  ListsInv'
<1>1. CASE CrashApi
  <2>1. \A c \in Clients : ~ Inserting(c)'
    BY <1>1, CrashEffect DEF Inserting
  <2>. QED
    BY <1>1, <2>1, ListsFrame DEF CrashApi, tables, history
<1>2. ASSUME NEW c \in Clients, Begin(c) PROVE ListsInv'
  <2>1. UNCHANGED <<tables, ask, history>>
    BY <1>2 DEF Begin
  <2>2. ~ Inserting(c)'
    BY <1>2, BeginEffect DEF Inserting, First
  <2>3. ASSUME NEW d \in Clients, d # c
        PROVE  /\ req'[d].state = req[d].state /\ req'[d].rest = req[d].rest
               /\ req'[d].lists = req[d].lists /\ req'[d].todo = req[d].todo
               /\ req'[d].failing = req[d].failing /\ req[d].met \subseteq req'[d].met
    BY <1>2, <2>3, BeginOthers
  <2>. QED
    BY <2>1, <2>2, <2>3, ListsFrame DEF tables, history, Inserting
<1>. QED
  BY <1>1, <1>2

LEMMA NextLists == StoreInv /\ ListsInv /\ [Next]_vars => ListsInv'
<1>. SUFFICES ASSUME StoreInv, ListsInv, [Next]_vars PROVE ListsInv'
  OBVIOUS
<1>1. ASSUME NEW c \in Clients, AccountStep(c) PROVE ListsInv'
  <2>1. UNCHANGED <<ask, rows, exact, asked>>
    BY <1>1, AccountSteps
  <2>2. CASE UNCHANGED req
    BY <2>1, <2>2, ListsFrame DEF Inserting
  <2>3. CASE Stepped(c) /\ Head(req[c].rest) # "clear"
    BY <2>1, <2>3, SteppedLists
  <2>. QED
    BY <1>1, <2>2, <2>3, AccountSteps
<1>2. ASSUME NEW c \in Clients, CatalogueStep(c) PROVE ListsInv'
  BY <1>2, CatalogueSteps, InsertLists, ClearLists, SettleLists, SteppedLists
<1>3. CASE UNCHANGED vars
  BY <1>3, ListsFrame DEF vars, tables, history, Inserting
<1>. QED
  BY <1>1, <1>2, <1>3, RequestLists DEF Next

LEMMA ListsHold == Spec => [](StoreInv /\ ListsInv)
<1>1. Init => ListsInv
  BY StoreAssumption DEF Init, ListsInv, Inserting, FirstRequest
<1>. QED
  BY <1>1, InitStore, NextStore, NextLists, PTL DEF Spec

(* What a replacement takes out of a list comes back only through a        *)
(* request that wants it there and had not finished its INSERTs by then.   *)
THEOREM RowsAreAsked == Spec => []RowsAsked
<1>1. ListsInv => RowsAsked
  BY DEF ListsInv, RowsAsked
<1>. QED
  BY <1>1, ListsHold, PTL

(* A replacement that met no other on its list leaves exactly the rows it  *)
(* was given.                                                              *)
THEOREM QuietReplacesExact == Spec => []QuietReplaceIsExact
<1>1. ListsInv => QuietReplaceIsExact
  BY DEF ListsInv, QuietReplaceIsExact
<1>. QED
  BY <1>1, ListsHold, PTL

-----------------------------------------------------------------------------
(* What a step makes of a request. *)

Kept(d) ==
    /\ req'[d].state = req[d].state /\ req'[d].rest = req[d].rest /\ req'[d].row = req[d].row
    /\ req'[d].token = req[d].token /\ req[d].met \subseteq req'[d].met

(* Its next statement, with the row that FindUser reads and the token that *)
(* FindToken and FindOtp find.                                             *)
Advanced(d) ==
    /\ Follows(Head(req[d].rest), Head(req'[d].rest), Op(d))
    /\ IF Head(req[d].rest) = "findUser"
       THEN Live(Subject(d)) /\ req'[d].row = users[Subject(d)]
       ELSE req'[d].row = req[d].row
    /\ IF Head(req[d].rest) \in {"findToken", "findOtp"}
       THEN /\ req'[d].token = ask[d].token
            /\ ask[d].token \in Clients /\ tokens[ask[d].token].status = "issued"
       ELSE req'[d].token = req[d].token

(* The request that a step is a statement of.                              *)
Acts(c) ==
    /\ c \in Running /\ req'[c].met = req[c].met
    /\ \A d \in Clients : d # c => req'[d] = req[d]
    /\ \/ req'[c].state \notin {"waiting", "running"}
       \/ req'[c].state = "running" /\ Advanced(c)
       \/ Kept(c) /\ Head(req[c].rest) = "insert"

LEMMA MovedActs ==
    ASSUME NEW c \in Clients, NEW r, c \in Running, Moved(c, r),
           r.met = req[c].met, r.row = req[c].row, r.token = req[c].token,
           Head(req[c].rest) \notin {"findUser", "findToken", "findOtp"}
    PROVE  Acts(c)
  BY DEF Moved, Acts, Advanced

LEMMA AccountActs ==
    ASSUME NEW c \in Clients, StoreInv, AccountStep(c)
    PROVE  UNCHANGED req \/ Acts(c)
<1>1. CASE Expire(c)
  BY <1>1 DEF Expire
<1>2. CASE FindUser(c) \/ FindToken(c) \/ FindOtp(c) \/ CheckRole(c) \/ FindEmail(c)
  <2>1. c \in Running /\ req[c] \in Request
    BY <1>2, ReadMoves, Standing DEF StoreInv
  <2>2. \A x : /\ [req[c] EXCEPT !.row = x].met = req[c].met /\ [req[c] EXCEPT !.row = x].row = x
               /\ [req[c] EXCEPT !.row = x].token = req[c].token
               /\ [req[c] EXCEPT !.token = x].met = req[c].met
               /\ [req[c] EXCEPT !.token = x].row = req[c].row
               /\ [req[c] EXCEPT !.token = x].token = x
               /\ [req[c] EXCEPT !.at = x].met = req[c].met
               /\ [req[c] EXCEPT !.at = x].row = req[c].row
               /\ [req[c] EXCEPT !.at = x].token = req[c].token
    BY <2>1 DEF Request
  <2>3. CASE Ended(c)
    BY <2>1, <2>3 DEF Ended, Acts
  <2>4. CASE FindUser(c) /\ Moved(c, [req[c] EXCEPT !.row = users[Subject(c)]]) /\ Live(Subject(c))
    <3>1. Head(req[c].rest) = "findUser"
      BY <2>4 DEF FindUser, At
    <3>. QED
      BY <2>1, <2>2, <2>4, <3>1 DEF Moved, Acts, Advanced
  <2>5. CASE /\ FindToken(c) \/ FindOtp(c)
             /\ ask[c].token \in Clients /\ tokens[ask[c].token].status = "issued"
             /\ Moved(c, [req[c] EXCEPT !.token = ask[c].token])
    <3>1. Head(req[c].rest) \in {"findToken", "findOtp"}
      BY <2>5 DEF FindToken, FindOtp, At
    <3>. QED
      BY <2>1, <2>2, <2>5, <3>1 DEF Moved, Acts, Advanced
  <2>6. CASE CheckRole(c) /\ Moved(c, [req[c] EXCEPT !.at = clock + 1])
    <3>1. Head(req[c].rest) = "checkRole"
      BY <2>6 DEF CheckRole, At
    <3>. QED
      BY <2>1, <2>2, <2>6, <3>1, MovedActs
  <2>7. CASE FindEmail(c) /\ Moved(c, req[c])
    <3>1. Head(req[c].rest) = "findEmail"
      BY <2>7 DEF FindEmail, At
    <3>. QED
      BY <2>1, <2>7, <3>1, MovedActs
  <2>. QED
    BY <1>2, <2>3, <2>4, <2>5, <2>6, <2>7, ReadMoves
<1>3. CASE WriteUser(c) \/ InsertUser(c) \/ SoftDelete(c)
  <2>1. /\ c \in Running /\ (Ended(c) \/ Moved(c, req[c]))
        /\ Head(req[c].rest) \in {"writeUser", "insertUser", "softDelete"}
    BY <1>3, WriteMoves
  <2>2. CASE Ended(c)
    BY <2>1, <2>2 DEF Ended, Acts
  <2>. QED
    BY <2>1, <2>2, MovedActs
<1>4. CASE OpenSession(c) \/ CloseSession(c) \/ RevokeTokens(c) \/ MintToken(c) \/ MarkUsed(c)
  BY <1>4, TokenMoves, MovedActs
<1>. QED
  BY <1>1, <1>2, <1>3, <1>4 DEF AccountStep

LEMMA CatalogueActs ==
    ASSUME NEW c \in Clients, StoreInv, CatalogueStep(c)
    PROVE  Acts(c)
<1>1. c \in Running /\ req[c] \in Request
  BY CatalogueMoves, Standing DEF StoreInv
<1>2. \A x : /\ [req[c] EXCEPT !.lists = x].met = req[c].met
            /\ [req[c] EXCEPT !.lists = x].row = req[c].row
            /\ [req[c] EXCEPT !.lists = x].token = req[c].token
            /\ [req[c] EXCEPT !.todo = x].met = req[c].met
            /\ [req[c] EXCEPT !.todo = x].row = req[c].row
            /\ [req[c] EXCEPT !.todo = x].token = req[c].token
  BY <1>1 DEF Request
<1>3. CASE Ended(c)
  BY <1>1, <1>3 DEF Ended, Acts
<1>4. CASE Moved(c, req[c]) /\ Head(req[c].rest) \in {"findCode", "insertRole", "countUsers", "deleteRole"}
  BY <1>1, <1>4, MovedActs
<1>5. ASSUME NEW l, Moved(c, [req[c] EXCEPT !.lists = l]), Head(req[c].rest) \in {"findRole", "upsert"}
      PROVE  Acts(c)
  BY <1>1, <1>2, <1>5, MovedActs
<1>6. CASE Clear(c) /\ Moved(c, [req[c] EXCEPT !.todo = Wanted(c, Head(req[c].lists))])
  <2>1. Head(req[c].rest) = "clear"
    BY <1>6 DEF Clear, At
  <2>. QED
    BY <1>1, <1>2, <1>6, <2>1, MovedActs
<1>7. ASSUME NEW k \in Keys, Insert(c, k) PROVE Acts(c)
  <2>1. req'[c].token = req[c].token
    BY <1>1, <1>7 DEF Insert, StoreInv, Typed, RequestsTyped, Request
  <2>. QED
    BY <1>1, <1>7, <2>1, InsertMoves DEF Acts, Kept, Running
<1>8. CASE Settle(c) /\ Moved(c, [req[c] EXCEPT !.lists = Tail(@)])
  <2>1. Head(req[c].rest) = "insert"
    BY <1>8 DEF Settle, At
  <2>. QED
    BY <1>1, <1>2, <1>8, <2>1, MovedActs
<1>. QED
  BY <1>3, <1>4, <1>5, <1>6, <1>7, <1>8, CatalogueMoves

(* A request that is still to come or under way after a step was left as   *)
(* it is, went on, or has just begun.                                      *)
LEMMA RequestSteps ==
    ASSUME StoreInv, [Next]_vars, NEW d \in Clients, req'[d].state \in {"waiting", "running"}
    PROVE  Kept(d) \/ (d \in Running /\ Advanced(d)) \/ Begin(d)
<1>1. UNCHANGED req => Kept(d)
  BY DEF Kept
<1>2. ASSUME NEW c \in Clients, Acts(c) PROVE Kept(d) \/ (d \in Running /\ Advanced(d))
  BY <1>2 DEF Acts, Kept
<1>3. CASE CrashApi
  <2>1. req'[d] = IF d \in Running THEN [req[d] EXCEPT !.state = "lost", !.rest = <<>>] ELSE req[d]
    BY <1>3 DEF CrashApi
  <2>. QED
    BY <1>3, <2>1, CrashEffect DEF Kept, Running
<1>4. ASSUME NEW c \in Clients, Begin(c), c # d PROVE Kept(d)
  <2>1. /\ req'[d] = IF d \in Running THEN [req[d] EXCEPT !.met = @ \cup {c}] ELSE req[d]
        /\ req'[d].state = req[d].state /\ req'[d].rest = req[d].rest
        /\ req'[d].row = req[d].row /\ req[d].met \subseteq req'[d].met
    BY <1>4, BeginOthers
  <2>2. req'[d].token = req[d].token
    BY <2>1 DEF StoreInv, Typed, RequestsTyped, Request
  <2>. QED
    BY <2>1, <2>2 DEF Kept
<1>. QED
  BY <1>1, <1>2, <1>3, <1>4, AccountActs, CatalogueActs DEF Next, vars

LEMMA AskStays ==
    ASSUME StoreInv, [Next]_vars
    PROVE  UNCHANGED ask
  BY AccountSteps, CatalogueSteps DEF Next, Begin, CrashApi, vars

(* Requests that have met have met for good.                               *)
LEMMA MetGrows ==
    ASSUME StoreInv, [Next]_vars, NEW d \in Clients
    PROVE  req[d].met \subseteq req'[d].met
<1>1. ASSUME NEW c \in Clients, Acts(c) PROVE req'[d].met = req[d].met
  BY <1>1 DEF Acts
<1>2. CASE CrashApi
  BY <1>2, CrashEffect
<1>3. ASSUME NEW c \in Clients, Begin(c), c # d PROVE req[d].met \subseteq req'[d].met
  BY <1>3, BeginOthers
<1>4. CASE Begin(d)
  BY <1>4 DEF Begin, StoreInv, Overlapping
<1>. QED
  BY <1>1, <1>2, <1>3, <1>4, AccountActs, CatalogueActs DEF Next, vars

(* A request that goes on does so by a statement of its own.               *)
LEMMA OwnStep ==
    ASSUME StoreInv, [Next]_vars, NEW d \in Clients, d \in Running, req'[d].state = "running",
           req'[d].rest # req[d].rest
    PROVE  AccountStep(d) \/ CatalogueStep(d)
<1>1. ASSUME NEW c \in Clients, Acts(c) PROVE c = d
  BY <1>1 DEF Acts
<1>2. ASSUME NEW c \in Clients, Begin(c) PROVE FALSE
  <2>1. c # d
    BY <1>2 DEF Begin, Running
  <2>. QED
    BY <1>2, <2>1, BeginOthers
<1>3. ~ CrashApi
  BY CrashEffect
<1>. QED
  BY <1>1, <1>2, <1>3, AccountActs, CatalogueActs DEF Next, vars

(* What a step makes of the tables of accounts and links.                  *)
LEMMA TableSteps ==
    ASSUME StoreInv, [Next]_vars
    PROVE  /\ \/ UNCHANGED <<users, quiet>>
              \/ \E c \in Clients : WriteUser(c) \/ InsertUser(c) \/ SoftDelete(c)
           /\ \/ UNCHANGED tokens
              \/ \E c \in Clients : RevokeTokens(c) \/ MintToken(c) \/ MarkUsed(c) \/ Expire(c)
<1>1. ASSUME NEW c \in Clients, AccountStep(c)
      PROVE  /\ UNCHANGED <<users, quiet>> \/ WriteUser(c) \/ InsertUser(c) \/ SoftDelete(c)
             /\ UNCHANGED tokens \/ RevokeTokens(c) \/ MintToken(c) \/ MarkUsed(c) \/ Expire(c)
  BY <1>1 DEF AccountStep, FindUser, FindToken, FindOtp, CheckRole, FindEmail, OpenSession,
              CloseSession, WriteUser, InsertUser, SoftDelete, RevokeTokens, MintToken, MarkUsed,
              Expire, tables, history
<1>. QED
  BY <1>1, CatalogueSteps DEF Next, Begin, CrashApi, vars, tables, history

-----------------------------------------------------------------------------
(* Removed accounts. *)

(* A row, read or stored, of an account that is removed belongs to one     *)
(* that was there: this is why an INSERT never meets a removed account.    *)
Filed(row) == row.deleted => row.present
FiledInv ==
    /\ \A u \in Users : Filed(users[u])
    /\ \A c \in Clients : req[c].state \in {"waiting", "running"} => Filed(req[c].row)

LEMMA NextFiled == StoreInv /\ FiledInv /\ [Next]_vars => FiledInv'
<1>. SUFFICES ASSUME StoreInv, FiledInv, [Next]_vars PROVE FiledInv'
  OBVIOUS
<1>1. ASSUME NEW u \in Users PROVE Filed(users'[u])
  <2>1. Filed(users[u]) /\ users \in [Users -> UserRow]
    BY DEF FiledInv, StoreInv, Typed, TablesTyped
  <2>2. ASSUME NEW c \in Clients, WriteUser(c) PROVE Filed(users'[u])
    <3>1. Filed(Written(c)) /\ c \in Running
      <4>1. c \in Running /\ req[c].row \in UserRow
        BY <2>2 DEF WriteUser, At, StoreInv, Typed, RequestsTyped, Request
      <4>2. Filed(req[c].row)
        BY <4>1 DEF FiledInv, Running
      <4>. QED
        BY <4>1, <4>2 DEF Filed, Written, UserRow
    <3>. QED
      BY <2>1, <2>2, <3>1 DEF WriteUser
  <2>3. ASSUME NEW c \in Clients, InsertUser(c) PROVE Filed(users'[u])
    BY <2>1, <2>3 DEF InsertUser, Filed
  <2>4. ASSUME NEW c \in Clients, SoftDelete(c) PROVE Filed(users'[u])
    <3>1. PICK x : x = Subject(c)
      OBVIOUS
    <3>2. \/ users' = users
          \/ Live(x) /\ users' = [users EXCEPT ![x] = [users[x] EXCEPT !.deleted = TRUE, !.status = "inactive"]]
      BY <2>4, <3>1 DEF SoftDelete
    <3>3. \A row \in UserRow : row.present => Filed([row EXCEPT !.deleted = TRUE, !.status = "inactive"])
      BY DEF Filed, UserRow
    <3>. QED
      BY <2>1, <3>2, <3>3 DEF Live
  <2>. QED
    BY <2>1, <2>2, <2>3, <2>4, TableSteps
<1>2. ASSUME NEW c \in Clients, req'[c].state \in {"waiting", "running"} PROVE Filed(req'[c].row)
  <2>1. CASE Kept(c)
    BY <1>2, <2>1 DEF Kept, FiledInv
  <2>2. CASE c \in Running /\ Advanced(c)
    <3>1. Subject(c) \in Users
      BY <2>2, SubjectIsUser
    <3>. QED
      BY <2>2, <3>1 DEF Advanced, FiledInv, Running
  <2>3. CASE Begin(c)
    <3>1. /\ req[c].state = "waiting" /\ req[c] \in Request
          /\ req'[c] = [req[c] EXCEPT !.state = "running", !.met = Running, !.rest = StepsOf(ask[c])]
      BY <2>3, BeginEffect DEF Begin, StoreInv, Typed, RequestsTyped
    <3>2. req'[c].row = req[c].row
      BY <3>1 DEF Request
    <3>. QED
      BY <3>1, <3>2 DEF FiledInv
  <2>. QED
    BY <1>2, <2>1, <2>2, <2>3, RequestSteps
<1>. QED
  BY <1>1, <1>2 DEF FiledInv

LEMMA RowsFiled == Spec => [](StoreInv /\ FiledInv)
<1>1. Init => FiledInv
  BY RequestAssumption DEF Init, FiledInv, Filed, FirstRequest
<1>. QED
  BY <1>1, InitStore, NextStore, NextFiled, PTL DEF Spec

(* A removed account stays as the removal left it, whatever requests that  *)
(* read its row before write back.                                         *)
THEOREM RemovedStayRemoved == Spec => DeletedIsFinal
<1>1. StoreInv /\ FiledInv /\ [Next]_vars
      => [\A u \in Users : users[u].deleted => users'[u] = users[u]]_vars
  <2>. SUFFICES ASSUME StoreInv, FiledInv, [Next]_vars, NEW u \in Users, users[u].deleted
                PROVE  users'[u] = users[u]
    OBVIOUS
  <2>1. Filed(users[u])
    BY DEF FiledInv
  <2>2. ASSUME NEW c \in Clients, WriteUser(c) \/ InsertUser(c) \/ SoftDelete(c)
        PROVE  users'[u] = users[u]
    <3>1. PICK x : x = Subject(c)
      OBVIOUS
    <3>2. \/ users' = users
          \/ (Live(x) \/ ~ users[x].present) /\ \E row : users' = [users EXCEPT ![x] = row]
      BY <2>2, <3>1 DEF WriteUser, InsertUser, SoftDelete, Matches
    <3>. QED
      BY <2>1, <3>2 DEF StoreInv, Typed, TablesTyped, Filed, Live
  <2>. QED
    BY <2>2, TableSteps
<1>. QED
  BY <1>1, RowsFiled, PTL DEF Spec, DeletedIsFinal

-----------------------------------------------------------------------------
(* Links and codes. *)

(* A request that is about to make a link has met the one that made any    *)
(* other link of the kind that still works: it has revoked the rest.       *)
Minting(c) == req[c].state = "running" /\ Head(req[c].rest) = "mintToken"
Works(d, u, purpose) == tokens[d].user = u /\ Usable(d, purpose)
LinksInv ==
    /\ OneLiveLink
    /\ \A c, d \in Clients :
         Minting(c) /\ d # c /\ Works(d, Subject(c), PurposeOf(Op(c))) => d \in req[c].met

(* A link is made anew, or stays whose and what it was and works only if   *)
(* it did.                                                                 *)
Worn(t) ==
    /\ tokens'[t].user = tokens[t].user /\ tokens'[t].purpose = tokens[t].purpose
    /\ tokens'[t].status = "issued" /\ ~ tokens'[t].expired
       => tokens[t].status = "issued" /\ ~ tokens[t].expired
Minted(c) ==
    /\ c \in Running /\ Minting(c) /\ Subject(c) = ask[c].user /\ Op(c) \in MintOps
    /\ tokens'[c].user = Subject(c) /\ tokens'[c].purpose = PurposeOf(Op(c))
    /\ \A d \in Clients : d # c => tokens'[d] = tokens[d]

LEMMA MintsOwn ==
    ASSUME NEW c \in Clients, StoreInv, c \in Running, Head(req[c].rest) \in {"revokeTokens", "mintToken"}
    PROVE  Subject(c) = ask[c].user /\ Op(c) \in MintOps
<1>1. Op(c) \in MintOps
  BY Standing DEF Stands, StoreInv
<1>. QED
  BY <1>1 DEF Subject, Op, MintOps

LEMMA LinkSteps ==
    ASSUME StoreInv, [Next]_vars
    PROVE  (\A t \in Clients : Worn(t)) \/ \E c \in Clients : Minted(c)
<1>1. tokens \in [Clients -> Token]
  BY DEF StoreInv, Typed, TablesTyped
<1>2. ASSUME NEW c \in Clients, RevokeTokens(c), NEW t \in Clients PROVE Worn(t)
  BY <1>1, <1>2 DEF RevokeTokens, Worn, Token
<1>3. ASSUME NEW c \in Clients, MintToken(c) PROVE Minted(c)
  <2>1. c \in Running /\ Minting(c) /\ Subject(c) = ask[c].user /\ Op(c) \in MintOps
    BY <1>3, MintsOwn DEF MintToken, At, Minting, Running
  <2>. QED
    BY <1>1, <1>3, <2>1 DEF MintToken, Minted
<1>4. ASSUME NEW c \in Clients, MarkUsed(c), NEW t \in Clients PROVE Worn(t)
  BY <1>1, <1>4 DEF MarkUsed, Worn, Token
<1>5. ASSUME NEW c \in Clients, Expire(c), NEW t \in Clients PROVE Worn(t)
  BY <1>1, <1>5 DEF Expire, Worn, Token
<1>6. UNCHANGED tokens => \A t \in Clients : Worn(t)
  BY DEF Worn
<1>. QED
  BY <1>2, <1>3, <1>4, <1>5, <1>6, TableSteps

LEMMA NextLinks == StoreInv /\ LinksInv /\ [Next]_vars => LinksInv'
<1>. SUFFICES ASSUME StoreInv, LinksInv, [Next]_vars PROVE LinksInv'
  OBVIOUS
<1>1. UNCHANGED ask /\ Overlapping /\ Overlapping'
  BY AskStays, NextStore DEF StoreInv
<1>2. \A d \in Clients : req[d].met \subseteq req'[d].met
  BY MetGrows
<1>3. ASSUME NEW c \in Clients, NEW d \in Clients, c # d, tokens'[c].user = tokens'[d].user,
             NEW p, p = tokens'[c].purpose, Usable(c, p)', Usable(d, p)'
      PROVE  c \in req'[d].met
  <2>1. ASSUME NEW e \in Clients, NEW f \in Clients, e # f, Minted(e), tokens'[e].user = tokens'[f].user,
               tokens'[e].purpose = p, Usable(f, p)'
        PROVE  f \in req'[e].met
    <3>1. Works(f, Subject(e), p) /\ p = PurposeOf(Op(e))
      BY <2>1 DEF Minted, Works, Usable
    <3>. QED
      BY <1>2, <2>1, <3>1 DEF LinksInv, Minted
  <2>2. tokens'[d].purpose = p
    BY <1>3 DEF Usable
  <2>3. CASE Minted(c)
    <3>1. d \in req'[c].met
      BY <1>3, <2>1, <2>2, <2>3
    <3>. QED
      BY <1>1, <3>1 DEF Overlapping
  <2>4. CASE Minted(d)
    BY <1>3, <2>1, <2>2, <2>4 DEF Usable
  <2>5. CASE Worn(c) /\ Worn(d)
    <3>1. c \in req[d].met
      BY <1>3, <2>5 DEF LinksInv, OneLiveLink, Worn, Usable
    <3>. QED
      BY <1>2, <3>1
  <2>6. ASSUME NEW e \in Clients, Minted(e), e # c, e # d PROVE Worn(c) /\ Worn(d)
    BY <2>6 DEF Minted, Worn
  <2>. QED
    BY <2>3, <2>4, <2>5, <2>6, LinkSteps
<1>4. ASSUME NEW c \in Clients, NEW d \in Clients, d # c, Minting(c)',
             Works(d, Subject(c), PurposeOf(Op(c)))'
      PROVE  d \in req'[c].met
  <2>1. c \in Running /\ Head(req[c].rest) \in {"revokeTokens", "mintToken"} /\ (Kept(c) \/ Advanced(c))
    <3>1. CASE Begin(c)
      BY <1>4, <3>1, BeginEffect DEF Minting, First
    <3>. QED
      BY <1>4, <3>1, RequestSteps DEF Minting, Kept, Advanced, Follows, Running
  <2>2. Subject(c) = ask[c].user /\ Subject(c)' = ask[c].user /\ Op(c)' = Op(c)
    BY <1>1, <2>1, MintsOwn DEF Op, Subject, MintOps
  <2>3. CASE Minting(c)
    <3>1. CASE Minted(d)
      BY <1>1, <1>2, <1>4, <2>3, <3>1 DEF Overlapping, Minting, Minted
    <3>2. CASE Worn(d)
      <4>1. Works(d, Subject(c), PurposeOf(Op(c)))
        BY <1>4, <2>2, <3>2 DEF Works, Usable, Worn
      <4>. QED
        BY <1>2, <1>4, <2>3, <4>1 DEF LinksInv
    <3>3. ASSUME NEW e \in Clients, Minted(e), e # d PROVE Worn(d)
      BY <3>3 DEF Minted, Worn
    <3>. QED
      BY <3>1, <3>2, <3>3, LinkSteps
  <2>4. CASE ~ Minting(c)
    <3>1. Head(req[c].rest) = "revokeTokens" /\ req'[c].rest # req[c].rest
      BY <1>4, <2>1, <2>4 DEF Minting, Running
    <3>2. AccountStep(c) \/ CatalogueStep(c)
      BY <1>4, <2>1, <3>1, OwnStep DEF Minting
    <3>3. RevokeTokens(c)
      <4>1. ~ Expire(c)
        BY <3>1 DEF Expire
      <4>2. ~ CatalogueStep(c)
        BY <3>1 DEF CatalogueStep, FindRole, FindCode, InsertRole, CountUsers, Upsert, Clear,
                    Insert, Settle, DropRole, At
      <4>. QED
        BY <3>1, <3>2, <4>1, <4>2
           DEF AccountStep, FindUser, FindToken, FindOtp, CheckRole, FindEmail, OpenSession,
               CloseSession, WriteUser, InsertUser, SoftDelete, MintToken, MarkUsed, At
    <3>4. tokens'[d] = IF d \in RevokedBy(c) THEN [tokens[d] EXCEPT !.status = "revoked"] ELSE tokens[d]
      BY <3>3 DEF RevokeTokens
    <3>5. tokens[d] \in Token
      BY DEF StoreInv, Typed, TablesTyped
    <3>6. d \notin RevokedBy(c)
      BY <1>4, <3>4, <3>5 DEF Works, Usable, Token
    <3>7. Works(d, Subject(c), PurposeOf(Op(c)))
      BY <1>4, <2>2, <3>4, <3>6 DEF Works, Usable
    <3>. QED
      BY <3>6, <3>7 DEF RevokedBy, Works, Usable
  <2>. QED
    BY <2>3, <2>4
<1>5. OneLiveLink'
  BY <1>3 DEF OneLiveLink
<1>. QED
  BY <1>4, <1>5 DEF LinksInv

LEMMA LinksHold == Spec => [](StoreInv /\ LinksInv)
<1>1. Init => LinksInv
  BY RequestAssumption DEF Init, LinksInv, OneLiveLink, Usable, Minting, FirstRequest
<1>. QED
  BY <1>1, InitStore, NextStore, NextLinks, PTL DEF Spec

(* Of two links of one kind for one account that both work, the requests   *)
(* that made them overlapped.                                              *)
THEOREM LiveLinksOverlapped == Spec => []OneLiveLink
<1>1. LinksInv => OneLiveLink
  BY DEF LinksInv
<1>. QED
  BY <1>1, LinksHold, PTL

-----------------------------------------------------------------------------
(* Passwords and statuses. *)

(* The link of a request still to come or under way is not there yet, and  *)
(* a request that has found a link or a code has found one that was made:  *)
(* whose it is does not change under it.                                   *)
Found(c) == \/ Op(c) \in LinkOps /\ Head(req[c].rest) # "findToken"
            \/ Op(c) = "confirmOtp" /\ Head(req[c].rest) \in {"writeUser", "markUsed"}
TokensInv ==
    /\ \A c \in DOMAIN ask : Op(c) \in MintOps /\ req[c].state \in {"waiting", "running"}
                             => tokens[c].status = "none"
    /\ \A c \in Running : Found(c) => /\ tokens[req[c].token].status # "none"
                                      /\ Op(c) \in LinkOps => req[c].token = ask[c].token

(* A request that carries a row it will write back: what it does not set   *)
(* on purpose is what the last request that was alone wrote there.         *)
Carrier(c) ==
    /\ c \in Running /\ Op(c) \in UserOps
    /\ \/ Head(req[c].rest) \in {"openSession", "findOtp", "writeUser"}
       \/ Op(c) = "update" /\ Head(req[c].rest) = "findRole"
Fields == {"status", "password"}
QuietInv ==
    /\ \A u \in Users, f \in Fields : \A v \in quiet[u][f] : users[u][f] = v
    /\ \A u \in Users, f \in Fields : \A v \in quiet[u][f] : \A c \in Clients :
         Carrier(c) /\ Subject(c) = u /\ f \notin Sets(c) => req[c].row[f] = v

(* Tokens that were made stay made, and stay whose they are.               *)
LEMMA MadeStays ==
    ASSUME StoreInv, TokensInv, [Next]_vars, NEW t \in Clients
    PROVE  /\ tokens[t].status # "none" => /\ tokens'[t].status # "none"
                                           /\ tokens'[t].user = tokens[t].user
           /\ tokens'[t].status # "none" /\ tokens[t].status = "none" => MintToken(t)
<1>1. tokens \in [Clients -> Token]
  BY DEF StoreInv, Typed, TablesTyped
<1>2. ASSUME NEW c \in Clients, RevokeTokens(c)
      PROVE  /\ tokens'[t].user = tokens[t].user
             /\ tokens'[t].status = "none" <=> tokens[t].status = "none"
  BY <1>1, <1>2 DEF RevokeTokens, RevokedBy, Token
<1>3. ASSUME NEW c \in Clients, MarkUsed(c)
      PROVE  /\ tokens'[t].user = tokens[t].user
             /\ tokens'[t].status = "none" <=> tokens[t].status = "none"
  <2>1. c \in Running /\ Head(req[c].rest) = "markUsed" /\ Found(c)
    <3>1. c \in Running /\ Head(req[c].rest) = "markUsed"
      BY <1>3 DEF MarkUsed, At
    <3>. QED
      BY <3>1, Standing DEF Stands, Found, StoreInv
  <2>2. tokens[req[c].token].status # "none"
    BY <2>1 DEF TokensInv
  <2>. QED
    BY <1>1, <1>3, <2>2 DEF MarkUsed, Token
<1>4. ASSUME NEW c \in Clients, Expire(c)
      PROVE  /\ tokens'[t].user = tokens[t].user
             /\ tokens'[t].status = "none" <=> tokens[t].status = "none"
  BY <1>1, <1>4 DEF Expire, Token
<1>5. ASSUME NEW c \in Clients, MintToken(c)
      PROVE  /\ tokens[c].status = "none"
             /\ t # c => tokens'[t] = tokens[t]
  <2>1. c \in Running /\ Head(req[c].rest) = "mintToken"
    BY <1>5 DEF MintToken, At
  <2>2. c \in DOMAIN ask /\ Op(c) \in MintOps
    BY <2>1, MintsOwn, Standing DEF StoreInv
  <2>. QED
    BY <1>1, <1>5, <2>1, <2>2 DEF MintToken, TokensInv, Running
<1>. QED
  BY <1>2, <1>3, <1>4, <1>5, TableSteps

LEMMA NextTokens == StoreInv /\ TokensInv /\ [Next]_vars => TokensInv'
<1>. SUFFICES ASSUME StoreInv, TokensInv, [Next]_vars PROVE TokensInv'
  OBVIOUS
<1>1. UNCHANGED ask /\ \A c : Op(c)' = Op(c)
  BY AskStays DEF Op
<1>2. ASSUME NEW c \in DOMAIN ask, Op(c) \in MintOps, req'[c].state \in {"waiting", "running"}
      PROVE  tokens'[c].status = "none"
  <2>1. c \in Clients
    BY RequestAssumption DEF StoreInv, Typed, RequestsTyped
  <2>2. Kept(c) \/ (c \in Running /\ Advanced(c)) \/ Begin(c)
    BY <1>2, <2>1, RequestSteps
  <2>3. tokens[c].status = "none"
    BY <1>2, <2>2 DEF TokensInv, Kept, Begin, Running
  <2>4. ~ MintToken(c)
    <3>1. ASSUME MintToken(c) PROVE FALSE
      <4>1. Acts(c) /\ Head(req[c].rest) = "mintToken" /\ Moved(c, req[c])
        BY <2>1, <3>1, TokenMoves, MovedActs DEF MintToken, At
      <4>. QED
        BY <1>2, <4>1 DEF Moved, Follows
    <3>. QED
      BY <3>1
  <2>. QED
    BY <2>1, <2>3, <2>4, MadeStays
<1>3. ASSUME NEW c \in Clients, c \in Running', Found(c)'
      PROVE  /\ tokens'[req'[c].token].status # "none"
             /\ Op(c) \in LinkOps => req'[c].token = ask[c].token
  <2>1. req'[c].state = "running"
    BY <1>3 DEF Running
  <2>2. ~ Begin(c)
    <3>1. ASSUME Begin(c) PROVE FALSE
      <4>1. First(Head(req'[c].rest), Op(c))
        BY <3>1, BeginEffect DEF Op
      <4>. QED
        BY <1>1, <1>3, <4>1 DEF First, Found
    <3>. QED
      BY <3>1
  <2>3. c \in Running /\ (Kept(c) \/ Advanced(c))
    BY <2>1, <2>2, RequestSteps DEF Kept, Running
  <2>4. req[c].token \in Clients /\ Stands(Head(req[c].rest), Op(c))
    BY <2>3, Standing DEF StoreInv, Typed, RequestsTyped, Request
  <2>5. CASE /\ Advanced(c) /\ Head(req[c].rest) \in {"findToken", "findOtp"}
    BY <2>4, <2>5, MadeStays DEF Advanced
  <2>6. CASE Kept(c) \/ (Advanced(c) /\ Head(req[c].rest) \notin {"findToken", "findOtp"})
    <3>1. req'[c].token = req[c].token
      BY <2>6 DEF Kept, Advanced
    <3>2. Found(c)
      <4>1. CASE Kept(c)
        BY <1>1, <1>3, <4>1 DEF Kept, Found
      <4>2. CASE Advanced(c) /\ Head(req[c].rest) \notin {"findToken", "findOtp"}
        BY <1>1, <1>3, <4>2 DEF Advanced, Follows, Found
      <4>. QED
        BY <2>6, <4>1, <4>2
    <3>. QED
      BY <2>3, <2>4, <3>1, <3>2, MadeStays DEF TokensInv
  <2>. QED
    BY <2>3, <2>5, <2>6
<1>. QED
  BY <1>1, <1>2, <1>3 DEF TokensInv, Running

(* Whose row a request carries does not change while it carries it.        *)
LEMMA SubjectStays ==
    ASSUME StoreInv, TokensInv, [Next]_vars, NEW c \in Clients, c \in Running,
           Head(req[c].rest) # "findToken"
    PROVE  Subject(c)' = Subject(c)
<1>1. UNCHANGED ask
  BY AskStays
<1>2. CASE Op(c) \in LinkOps
  <2>1. tokens[ask[c].token].status # "none" /\ ask[c].token \in Clients
    BY <1>2, Standing DEF TokensInv, Found, WellFormed, StoreInv, Op
  <2>. QED
    BY <1>1, <1>2, <2>1, MadeStays DEF Subject, Op, LinkOps
<1>3. CASE Op(c) \notin LinkOps
  BY <1>1, <1>3 DEF Subject, Op, LinkOps
<1>. QED
  BY <1>2, <1>3

(* A request carries a row from the moment FindUser read it.               *)
LEMMA CarrierSteps ==
    ASSUME StoreInv, TokensInv, [Next]_vars, NEW c \in Clients, Carrier(c)'
    PROVE  /\ Subject(c)' = Subject(c) /\ Subject(c) \in Users /\ Sets(c)' = Sets(c)
           /\ \/ Carrier(c) /\ req'[c].row = req[c].row
              \/ c \in Running /\ Advanced(c) /\ req'[c].row = users[Subject(c)]
                 /\ Head(req[c].rest) = "findUser"
<1>1. UNCHANGED ask /\ Op(c)' = Op(c)
  BY AskStays DEF Op
<1>2. req'[c].state = "running" /\ Op(c) \in UserOps
  BY <1>1 DEF Carrier, Running
<1>3. ~ Begin(c)
  <2>1. ASSUME Begin(c) PROVE FALSE
    <3>1. First(Head(req'[c].rest), Op(c))
      BY <2>1, BeginEffect DEF Op
    <3>. QED
      BY <1>1, <3>1 DEF First, Carrier
  <2>. QED
    BY <2>1
<1>4. c \in Running /\ (Kept(c) \/ Advanced(c))
  BY <1>2, <1>3, RequestSteps DEF Kept, Running
<1>5. \/ Carrier(c) /\ req'[c].row = req[c].row
      \/ Advanced(c) /\ req'[c].row = users[Subject(c)] /\ Head(req[c].rest) = "findUser"
  <2>1. CASE Kept(c)
    BY <1>1, <1>4, <2>1 DEF Kept, Carrier
  <2>2. CASE Advanced(c)
    BY <1>1, <1>2, <1>4, <2>2 DEF Advanced, Follows, Carrier
  <2>. QED
    BY <1>4, <2>1, <2>2
<1>6. Head(req[c].rest) # "findToken"
  BY <1>5 DEF Carrier
<1>. QED
  BY <1>1, <1>4, <1>5, <1>6, SubjectStays, SubjectIsUser DEF Sets

(* A statement that writes a row keeps what the request does not set, and  *)
(* it carries no row any more.                                             *)
LEMMA WrittenKeeps ==
    ASSUME NEW c \in Clients, StoreInv, QuietInv, c \in Running, NEW u \in Users, u = Subject(c),
           NEW row \in UserRow, NEW f \in Fields, f \notin Sets(c), NEW v \in quiet[u][f],
           \/ row = Written(c) /\ Head(req[c].rest) = "writeUser"
           \/ Head(req[c].rest) = "insertUser"
           \/ Head(req[c].rest) = "softDelete" /\ row.password = users[u].password
    PROVE  row[f] = v
<1>1. req[c].row \in UserRow /\ Stands(Head(req[c].rest), Op(c))
  BY Standing DEF StoreInv, Request
<1>2. CASE row = Written(c) /\ Head(req[c].rest) = "writeUser"
  <2>1. Carrier(c)
    BY <1>1, <1>2 DEF Stands, Carrier
  <2>2. req[c].row[f] = v
    BY <2>1 DEF QuietInv
  <2>3. Written(c)[f] = req[c].row[f]
    BY <1>1 DEF Written, Sets, Fields, UserRow
  <2>. QED
    BY <1>2, <2>2, <2>3
<1>3. CASE Head(req[c].rest) = "insertUser"
  BY <1>1, <1>3 DEF Stands, Sets, Fields
<1>4. CASE Head(req[c].rest) = "softDelete" /\ row.password = users[u].password
  BY <1>1, <1>4 DEF Stands, Sets, Fields, QuietInv
<1>. QED
  BY <1>2, <1>3, <1>4

LEMMA NextQuiet == StoreInv /\ TokensInv /\ QuietInv /\ [Next]_vars => QuietInv'
<1>. SUFFICES ASSUME StoreInv, TokensInv, QuietInv, [Next]_vars PROVE QuietInv'
  OBVIOUS
<1>1. CASE UNCHANGED <<users, quiet>>
  <2>1. ASSUME NEW u \in Users, NEW f \in Fields, NEW v \in quiet[u][f], NEW c \in Clients,
               Carrier(c)', Subject(c)' = u, f \notin Sets(c)'
        PROVE  req'[c].row[f] = v
    <3>1. Subject(c) = u /\ f \notin Sets(c)
      BY <2>1, CarrierSteps
    <3>2. CASE Carrier(c) /\ req'[c].row = req[c].row
      BY <2>1, <3>1, <3>2 DEF QuietInv
    <3>3. CASE req'[c].row = users[u]
      BY <2>1, <3>3 DEF QuietInv
    <3>. QED
      BY <2>1, <3>1, <3>2, <3>3, CarrierSteps
  <2>. QED
    BY <1>1, <2>1 DEF QuietInv
<1>2. ASSUME NEW c \in Clients, WriteUser(c) \/ InsertUser(c) \/ SoftDelete(c),
             ~ UNCHANGED <<users, quiet>>
      PROVE  QuietInv'
  <2>1. PICK u \in Users : u = Subject(c)
    BY <1>2, WriteMoves
  <2>2. PICK row \in UserRow :
          /\ users' = [users EXCEPT ![u] = row] /\ Note(u, c, row)
          /\ \/ row = Written(c) /\ Head(req[c].rest) = "writeUser"
             \/ Head(req[c].rest) = "insertUser"
             \/ Head(req[c].rest) = "softDelete" /\ row.password = users[u].password
    BY <1>2, <2>1, WriteMoves
  <2>3. /\ c \in Running /\ Head(req[c].rest) \in {"writeUser", "insertUser", "softDelete"}
        /\ (Ended(c) \/ Moved(c, req[c])) /\ UNCHANGED ask
    BY <1>2, WriteMoves
  <2>4. /\ users \in [Users -> UserRow] /\ DOMAIN quiet = Users
    BY DEF StoreInv, Typed, TablesTyped, HistoryTyped
  <2>5. /\ users'[u] = row /\ \A w \in Users : w # u => users'[w] = users[w]
        /\ \A w \in Users : w # u => quiet'[w] = quiet[w]
        /\ \A f \in Fields : quiet'[u][f] = IF f \notin Sets(c) THEN quiet[u][f]
                                            ELSE IF AloneOn(u, c) THEN {row[f]} ELSE {}
    BY <2>2, <2>4 DEF Note, Fields
  <2>6. ASSUME NEW w \in Users, NEW f \in Fields, NEW v \in quiet'[w][f]
        PROVE  users'[w][f] = v
    <3>1. CASE w # u
      BY <2>5, <2>6, <3>1 DEF QuietInv
    <3>2. CASE w = u /\ f \in Sets(c)
      BY <2>5, <2>6, <3>2
    <3>3. CASE w = u /\ f \notin Sets(c)
      <4>1. v \in quiet[u][f] /\ users'[w][f] = row[f]
        BY <2>5, <2>6, <3>3
      <4>2. row[f] = v
        BY <2>1, <2>2, <2>3, <3>3, <4>1, WrittenKeeps
      <4>. QED
        BY <4>1, <4>2
    <3>. QED
      BY <3>1, <3>2, <3>3
  <2>7. ~ Carrier(c)'
    BY <2>3 DEF Carrier, Running, Ended, Moved, Follows, Op
  <2>8. ASSUME NEW w \in Users, NEW f \in Fields, NEW v \in quiet'[w][f], NEW d \in Clients,
               Carrier(d)', Subject(d)' = w, f \notin Sets(d)'
        PROVE  req'[d].row[f] = v
    <3>1. d # c /\ req'[d] = req[d]
      BY <2>3, <2>7, <2>8 DEF Moved, Ended
    <3>2. Subject(d) = w /\ f \notin Sets(d) /\ Carrier(d)
      <4>1. Op(d)' = Op(d)
        BY <2>3 DEF Op
      <4>2. Carrier(d)
        BY <2>8, <3>1, <4>1 DEF Carrier, Running
      <4>3. Subject(d)' = Subject(d) /\ Sets(d)' = Sets(d)
        BY <2>8, CarrierSteps
      <4>. QED
        BY <2>8, <4>2, <4>3
    <3>3. CASE w # u \/ f \notin Sets(c)
      <4>1. v \in quiet[w][f]
        BY <2>5, <2>8, <3>3
      <4>2. req[d].row[f] = v
        BY <2>8, <3>2, <4>1 DEF QuietInv
      <4>. QED
        BY <3>1, <4>2
    <3>4. CASE w = u /\ f \in Sets(c)
      <4>1. d \in req[c].met
        BY <2>3, <3>1, <3>2 DEF StoreInv, Overlapping, Carrier, Running
      <4>2. ~ AloneOn(u, c)
        BY <3>2, <3>4, <4>1 DEF AloneOn, Carrier, Op
      <4>. QED
        BY <2>5, <2>8, <3>4, <4>2
    <3>. QED
      BY <3>3, <3>4
  <2>. QED
    BY <2>6, <2>8 DEF QuietInv
<1>. QED
  BY <1>1, <1>2, TableSteps

LEMMA QuietHolds == Spec => [](StoreInv /\ TokensInv /\ QuietInv)
<1>1. Init => TokensInv
  BY RequestAssumption DEF Init, TokensInv, Op, Running, FirstRequest
<1>2. Init => QuietInv
  BY DEF Init, QuietInv, Fields, Carrier, Running, FirstRequest
<1>. QED
  BY <1>1, <1>2, InitStore, NextStore, NextTokens, NextQuiet, PTL DEF Spec

(* What a request that met no other on its account wrote to the password   *)
(* or the status stays until a request that sets that field.               *)
THEOREM QuietWritesStay == Spec => []QuietWriteStays
<1>1. StoreInv /\ QuietInv => QuietWriteStays
  <2>. SUFFICES ASSUME StoreInv, QuietInv, NEW u \in Users
                PROVE  /\ \A v \in quiet[u]["status"] : users[u]["status"] = v
                       /\ \A v \in quiet[u]["password"] : users[u]["password"] = v
    BY DEF QuietWriteStays
  <2>. QED
    BY DEF QuietInv, Fields
<1>. QED
  BY <1>1, QuietHolds, PTL
=============================================================================

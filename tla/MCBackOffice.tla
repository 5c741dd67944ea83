---------------------------- MODULE MCBackOffice ----------------------------
(***************************************************************************)
(* A small back office: families of four requests that meet on one         *)
(* account, one role or one list.                                          *)
(***************************************************************************)
EXTENDS BackOffice

MCClients == {"c1", "c2", "c3", "c4"}
MCKeys == {"k1", "k2", "bad"}

Ask(op, u) == [op |-> op, user |-> u]
SignIn(u, p) == [op |-> "login", user |-> u, password |-> p]
Own(u, p) == [op |-> "myPassword", user |-> u, password |-> p]
Edit(u, r) == [op |-> "update", user |-> u, role |-> r]
Invite(u, r) == [op |-> "create", user |-> u, role |-> r]
Switch(u, s) == [op |-> "status", user |-> u, status |-> s]
Redeem(op, t) == [op |-> op, user |-> "u1", token |-> t]
Grant(r, s) == [op |-> "grants", user |-> "u2", role |-> r, want |-> [t \in {r} |-> s]]
OnRole(op, r) == [op |-> op, user |-> "u2", role |-> r]
Bands(s) == [op |-> "settings", user |-> "u2", lists |-> <<"tenor_bands">>,
             want |-> [t \in {"tenor_bands"} |-> s]]
Both(s, q) == [op |-> "settings", user |-> "u2", lists |-> <<"tenor_bands", "source_channels">>,
               want |-> [t \in {"tenor_bands", "source_channels"} |->
                           IF t = "tenor_bands" THEN s ELSE q]]
SignOut(s) == [op |-> "logout", user |-> "u1", session |-> s]

Three(s1, s2, s3) == {[c1 |-> a, c2 |-> b, c3 |-> d] : a \in s1, b \in s2, d \in s3}
Four(s1, s2, s3, s4) == {[c1 |-> a, c2 |-> b, c3 |-> d, c4 |-> e] :
                            a \in s1, b \in s2, d \in s3, e \in s4}

(* u1 is invited and active; u2 has no account yet.  The link c4 is an     *)
(* invitation of u1 that was never used.                                   *)
MCFirstUsers == [u \in {"u1", "u2"} |->
    [present |-> u = "u1", deleted |-> FALSE, password |-> "first",
     status |-> IF u = "u1" THEN "active" ELSE "inactive", role |-> "r1"]]
MCFirstRows == [t \in {"super", "r1", "r2", "r3", "tenor_bands", "source_channels"} |->
    IF t \in {"r1", "r2", "tenor_bands"} THEN {"k1"} ELSE {}]
MCFirstTokens == [c \in MCClients |->
    [user |-> "u1", purpose |-> "set_password", at |-> 0, expired |-> FALSE,
     status |-> IF c = "c4" THEN "issued" ELSE "none"]]

(* Whole-row writes that meet on u1.                                       *)
Writers == Three({SignIn("u1", "first"), Edit("u1", "r2")},
                 {Switch("u1", "inactive"), Own("u1", "first"), Ask("password", "u1")},
                 {Redeem("set", "c4"), SignIn("u1", "c2"), Ask("softDelete", "u1")})

(* Links and codes mailed twice and redeemed.                              *)
Links == Three({Ask("forgot", "u1")}, {Ask("forgot", "u1"), Switch("u1", "inactive")},
               {Redeem("reset", "c1"), Redeem("reset", "c4")})
         \cup Three({Ask("requestOtp", "u1")}, {Ask("requestOtp", "u1"), Edit("u1", "super")},
                    {Redeem("confirmOtp", "c1"), Redeem("confirmOtp", "c2")})

(* Invitations, sign-in and sign-out of a new account.                     *)
Invitations == Three({Invite("u2", "r1"), Ask("invite", "u1")}, {Invite("u2", "r2"), Invite("u1", "r2")},
                     {OnRole("deleteRole", "r2"), Ask("softDelete", "u2")})
               \cup Three({SignIn("u1", "first")}, {SignOut("c1")}, {Ask("invite", "u1")})

(* Replacements of one role's permissions, roles made and deleted.         *)
RoleEdits == Three({Grant("r2", {"k2"})}, {Grant("r2", {}), Grant("r2", {"k1", "k2"})},
                   {OnRole("deleteRole", "r2"), Grant("r2", {"k1"}), Edit("u1", "r2")})
             \cup Three({OnRole("createRole", "r3")}, {OnRole("createRole", "r3")},
                        {OnRole("deleteRole", "super"), OnRole("deleteRole", "r1")})

SettingEdits == Three({Both({"k2"}, {"k1"})}, {Bands({"k1", "k2"})}, {Bands({"k1", "bad"}), Bands({})})

(* Two codes in a row, with an account that becomes a super administrator. *)
Codes == Four({Ask("requestOtp", "u1")}, {Ask("requestOtp", "u1")},
              {Redeem("confirmOtp", "c1")}, {Redeem("confirmOtp", "c2")})

MCScenarios == Writers \cup Links \cup Invitations \cup RoleEdits \cup SettingEdits \cup Codes
=============================================================================

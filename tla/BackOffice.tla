----------------------------- MODULE BackOffice -----------------------------
(***************************************************************************)
(* Accounts, roles and settings under concurrent requests and restarts of  *)
(* the API.                                                                *)
(***************************************************************************)
EXTENDS Accounts, Catalogue

Next == (\E c \in Clients : Begin(c) \/ AccountStep(c) \/ CatalogueStep(c)) \/ CrashApi

(* Nothing forces a client to ask: safety only.                            *)
Spec == Init /\ [][Next]_vars

-----------------------------------------------------------------------------
(* The tables and the requests hold what their columns allow.              *)
TypeOK ==
    /\ users \in [Users -> UserRow] /\ tokens \in [Clients -> Token]
    /\ sessions \in [Clients -> {"none", "active", "revoked"}]
    /\ roles \subseteq Roles /\ rows \in [Tables -> SUBSET Keys]
    /\ setting \subseteq Clients /\ clock \in Nat /\ crashes \in 0 .. MaxCrashes
    /\ \A c \in Clients :
         /\ req[c].state \in {"waiting", "running", "ok", "refused", "failed", "lost"}
         /\ req[c].row \in UserRow /\ req[c].token \in Clients
         /\ req[c].todo \subseteq Keys /\ req[c].met \subseteq Clients \ {c}

(* A removed account stays as the removal left it, although sign-ins and   *)
(* edits that read the row before write the whole of it back later: every  *)
(* UPDATE of users asks for deleted_at IS NULL.                            *)
DeletedIsFinal == [][\A u \in Users : users[u].deleted => users'[u] = users[u]]_vars

(* Of two links or codes of one kind for one account that both still work, *)
(* the requests that mailed them overlapped: a request that starts after   *)
(* another has mailed its link always kills that link, whatever is reset,  *)
(* used or lost in between.                                                *)
OneLiveLink ==
    \A c, d \in Clients :
        /\ c # d /\ tokens[c].user = tokens[d].user
        /\ Usable(c, tokens[c].purpose) /\ Usable(d, tokens[c].purpose)
        => c \in req[d].met

(* What a request that met no other on its account wrote to the password   *)
(* or the status stays there until a request that sets that field on       *)
(* purpose: no sign-in, edit or reset that starts later brings an old      *)
(* password, or an account that was switched off, back.                    *)
QuietWriteStays ==
    \A u \in Users :
        /\ \A v \in quiet[u].status : users[u].status = v
        /\ \A v \in quiet[u].password : users[u].password = v

(* A permission, tenor band or channel that a replacement took out of a    *)
(* list comes back only through a request that wants it there and had not  *)
(* finished its INSERTs by then.                                           *)
RowsAsked == \A t \in Tables : rows[t] \subseteq asked[t]

(* A replacement that was answered with success, and met no other on its   *)
(* list, left exactly the rows it was given, until the next replacement    *)
(* empties the list: an answer never comes before the last INSERT.         *)
QuietReplaceIsExact == \A t \in Tables : \A s \in exact[t] : rows[t] = s
=============================================================================

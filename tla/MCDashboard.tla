----------------------------- MODULE MCDashboard -----------------------------
(***************************************************************************)
(* An administrator, and a clerk who may see investments and not customers.*)
(***************************************************************************)
EXTENDS Dashboard

MCPermits == [admin |-> Menu \cup {"portfolio"}, clerk |-> {"investments", "uploads"}]
MCActorTypes == [admin |-> {"admin"}, clerk |-> {"analyst", "uploader"}]
Admin == [who |-> "admin", sid |-> 1, type |-> "admin"]
Clerk == [who |-> "clerk", sid |-> 1, type |-> "analyst"]
MCStarts == {<<"wealth-managers", Admin, FALSE>>, <<"users", Admin, FALSE>>,
             <<"investments", Clerk, TRUE>>}
=============================================================================

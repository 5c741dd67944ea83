------------------------------ MODULE Dashboard ------------------------------
(***************************************************************************)
(* The App whole: browsing, the session, and the handlers that change what *)
(* the API keeps and then put the affected resources back to idle, or ask  *)
(* for them again. A handler goes on whatever view the user is at when its *)
(* answer comes; dialogs run one at a time, drawers do not wait.           *)
(***************************************************************************)
EXTENDS DashboardSession

VARIABLES
    running,     \* the requests of handlers in flight
    queued       \* how many uploads and imports wait for the workers
vars == <<views, sessionVars, running, queued>>

Overviews == {"portfolio", "investments", "managers", "summary", "uploads"}
Dialogs == {"clear", "upload", "ingest", "confirm", "history", "deleteBatch", "removeUser", "deleteRole"}
Drawers == {"invite", "edit", "editStatus", "createRole", "syncNow"}
Handlers == Dialogs \cup Drawers

(* Where the button is, and the request of the handler that follows k.     *)
Button(k) ==
    CASE k = "upload"                             -> ui.path = "uploads"
      [] k \in {"clear", "confirm", "deleteBatch"} -> ui.path = "uploads" /\ HasRows("uploads")
      [] k \in {"removeUser", "edit"}             -> ui.path = "users" /\ HasRows("users")
      [] k = "invite"                             -> ui.path = "users" /\ ui.usersTab = "admins"
      [] k = "createRole"                         -> Wanted("matrix", ui)
      [] k = "deleteRole"                         -> Wanted("matrix", ui) /\ res["matrix"].status = "ready"
      [] k = "syncNow"                            -> Wanted("integrations", ui) /\ res["integrations"].status = "ready"
      [] OTHER                                    -> FALSE
Then(k) ==
    CASE k = "upload"  -> {"ingest"}
      [] k = "confirm" -> {"history"}
      [] k = "edit"    -> {"editStatus", None}
      [] OTHER         -> {None}
Bumped(k) ==
    CASE k \in {"removeUser", "invite", "edit", "editStatus"} -> {"users"}
      [] k \in {"deleteRole", "createRole"}                   -> {"roles", "matrix"}
      [] OTHER                                                -> {}

(* Mutant: the managers are not reset with the other overviews. *)
ResetsSome(k) ==
    CASE k \in {"clear", "ingest", "deleteBatch"} -> Overviews \ {"managers"}
      [] k = "confirm"                            -> Overviews \ {"uploads"}
      [] k = "syncNow"                            -> {"integrations"}
      [] OTHER                                    -> {}

Resets(k) ==
    CASE k \in {"clear", "ingest", "deleteBatch"} -> Overviews
      [] k = "confirm"                            -> Overviews \ {"uploads"}
      [] k = "syncNow"                            -> {"integrations"}
      [] OTHER                                    -> {}

(* What a handler changes, and a view shows: trends and commissions are     *)
(* left out, for no handler resets them.                                   *)
Affected(k) ==
    CASE k \in {"clear", "ingest", "deleteBatch"} -> Overviews
      [] k = "confirm" -> Overviews \ {"uploads"}
      [] k \in {"removeUser", "invite", "edit", "editStatus"} -> {"users"}
      [] k \in {"deleteRole", "createRole"} -> {"roles", "matrix"}
      [] OTHER -> {}

Submit(k) ==
    /\ Usable /\ Button(k) /\ Click
    /\ k \notin running /\ (k \in Dialogs => running \cap Dialogs = {})
    /\ running' = running \cup {k}
    /\ UNCHANGED <<ui, res, req, now, told, errors, sessionVars, queued>>

(* The handler ends: what it changed is not to be shown as it was, unless  *)
(* a load in flight that is not cancelled brings that back.                *)
Told(R) == told' = [r \in Resources |-> IF r \in R /\ (req[r] = None \/ r \notin Overviews) THEN now' ELSE told[r]]

(* The API has stored an upload or a confirmation, and queued the rest.    *)
Queued == {"ingest", "confirm"}
Succeed(k) ==
    /\ k \in running \ {"history"}
    /\ now' = now + 1
    /\ queued' = IF k \in Queued THEN [queued EXCEPT ![k] = @ + 1] ELSE queued
    /\ \E next \in Then(k) :
          /\ running' = (running \ {k}) \cup ({next} \ {None})
          /\ LET bumped == IF k = "edit" /\ next # None THEN {} ELSE Bumped(k) IN
             /\ Render(ui, [r \in Resources |-> IF r \in Resets(k) THEN Idle ELSE res[r]], bumped)
             /\ IF next \in {None, "history"} THEN Told(Affected(k)) ELSE UNCHANGED told
    /\ UNCHANGED <<clicks, errors, sessionVars>>

(* A worker writes the rows or the records; nobody is told.                *)
Written(k) ==
    /\ queued[k] > 0
    /\ queued' = [queued EXCEPT ![k] = @ - 1]
    /\ now' = now + 1
    /\ UNCHANGED <<ui, res, req, told, clicks, errors, sessionVars, running>>

(* The history asked for at once after an import is confirmed.             *)
History ==
    /\ "history" \in running
    /\ running' = running \ {"history"}
    /\ \/ /\ res' = [res EXCEPT !["uploads"] = [status |-> "ready", asked |-> <<>>, version |-> now]]
          /\ told' = [told EXCEPT !["uploads"] = IF req["uploads"] = None THEN now ELSE @]
          /\ UNCHANGED errors
       \/ Errs /\ res' = [res EXCEPT !["uploads"] = Idle] /\ UNCHANGED told
    /\ UNCHANGED <<ui, req, now, clicks, sessionVars, queued>>

(* A request refused ends the handler where it is.                         *)
Fail(k) ==
    /\ k \in running \ {"history"}
    /\ running' = running \ {k} /\ Errs
    /\ UNCHANGED <<ui, res, req, now, told, clicks, sessionVars, queued>>

Init == SessionInit /\ running = {} /\ queued = [k \in Queued |-> 0]
Next ==
    \/ Usable /\ Browse /\ UNCHANGED <<sessionVars, running, queued>>
    \/ (Debounce \/ Answers) /\ UNCHANGED <<sessionVars, running, queued>>
    \/ SessionSteps /\ UNCHANGED <<running, queued>>
    \/ \E k \in Handlers : Submit(k) \/ Succeed(k) \/ Fail(k)
    \/ \E k \in Queued : Written(k)
    \/ History

(* The API answers, or the browser gives up on it, and the timer fires.    *)
Fairness ==
    /\ WF_vars(Answers /\ UNCHANGED <<sessionVars, running, queued>>)
    /\ WF_vars(Debounce /\ UNCHANGED <<sessionVars, running, queued>>)
Spec == Init /\ [][Next]_vars /\ Fairness

-----------------------------------------------------------------------------
(* Screens, resources, requests and what was told name what there is.     *)
TypeOK ==
    /\ ui.path \in Menu \cup {"detail"} \cup {FirstView(w) : w \in Users}
    /\ ui.page \in [Paged -> 1 .. 2] /\ ui.typing \in BOOLEAN
    /\ DOMAIN res = Resources /\ DOMAIN req = Resources
    /\ \A r \in Resources : /\ res[r].status \in {"idle", "loading", "ready", "error"}
                            /\ res[r].version \in 0 .. now /\ told[r] \in 0 .. now
                            /\ req[r] # None => req[r].since \in 0 .. now
    /\ session = None \/ (session.who \in Users /\ session.sid \in Nat)
    /\ running \subseteq Handlers /\ clicks \in 0 .. MaxClicks

(* What a view shows as ready answers the range, page, search and filters  *)
(* the screen shows with it, whatever answers came late.                   *)
ShownIsAsked ==
    \A r \in Resources : Wanted(r, ui) /\ res[r].status = "ready" => res[r].asked = Asked(r, ui)

(* What a view shows as ready was read after the last handler that reset   *)
(* it or asked for it again, unless a load was in flight when it was       *)
(* reset. What a worker writes after the answer is not among it.           *)
ReadAfterWrite ==
    \A r \in Resources : Wanted(r, ui) /\ res[r].status = "ready" => res[r].version >= told[r]

(* The requests of a session carry its actor, its session id and its       *)
(* permissions, unless the refresh of the mount outlived its session.      *)
(* Nothing is said of its actor type, which a refresh leaves as it was.    *)
QuietIdentity ==
    session # None /\ ~crossed => [headers EXCEPT !.type = session.type] = HeadersOf(session)

(* A list that is loaded at every visit stops loading, and the search box  *)
(* comes into force, once the user pauses.                                 *)
Settles ==
    []<>(/\ ui.query = ui.search
         /\ \A r \in Resources \ LoadedOnce : Wanted(r, ui) => res[r].status # "loading")
=============================================================================

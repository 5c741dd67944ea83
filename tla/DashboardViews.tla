--------------------------- MODULE DashboardViews ---------------------------
(***************************************************************************)
(* What the single page App keeps of the API: a state per resource, the    *)
(* request that may still change it, and the parameters it is asked with.  *)
(* An effect reruns when one of its dependencies changes; its cleanup sets *)
(* the cancelled flag of the request before, which is why at most one      *)
(* request of a resource counts.                                           *)
(***************************************************************************)
EXTENDS Integers, SequencesExt

CONSTANTS
    Menu,        \* the views the user opens
    MaxClicks,   \* bound on what the user does
    MaxErrors,   \* bound on the requests that fail
    None

ASSUME BoundAssumption == MaxClicks \in Nat /\ MaxErrors \in Nat

VARIABLES
    ui,      \* path, tabs, search box, pages, filters and ranges
    res,     \* resource -> [status, asked, version] shown
    req,     \* resource -> the request not cancelled, or None
    now,     \* mutations the API has executed
    told,    \* resource -> the mutation its state was last reset or refetched for
    clicks,
    errors
views == <<ui, res, req, now, told, clicks, errors>>

Paged == {"portfolio", "investments", "commissions"}
Filtered == {"investments", "commissions"}
Ranged == {"summary", "reports", "trends"}

(* The views each effect loads its resource in, and those of them that     *)
(* load once: their effect also asks for the status idle.                  *)
Loaders == [reports |-> {"reports"}, summary |-> {"summary", "reports"},
            trends |-> {"summary", "trends", "reports"}, portfolio |-> {"portfolio"},
            investments |-> {"investments"}, commissions |-> {"commissions"},
            managers |-> {"wealth-managers"}, uploads |-> {"uploads"}, settings |-> {"settings"},
            users |-> {"users"}, roles |-> {"users"}, matrix |-> {"users"}, integrations |-> {"settings"}]
Resources == {r \in DOMAIN Loaders : Loaders[r] \cap (Menu \cup {"portfolio"}) # {}}
LoadedOnce == {"managers", "uploads", "settings", "integrations"}

(* A path the map does not know, a detail page among them, is portfolio.   *)
View(u) == IF u.path = "detail" THEN "portfolio" ELSE u.path
Wanted(r, u) ==
    /\ View(u) \in Loaders[r]
    /\ r = "matrix" => u.usersTab = "roles"
    /\ r = "integrations" => u.settingsTab = "config"

RangeOf(r, u) == u.range[IF View(u) \in Ranged /\ (r = "trends" \/ View(u) = "reports") THEN View(u) ELSE "summary"]
Asked(r, u) ==
    CASE r \in {"summary", "trends"} -> <<RangeOf(r, u)>>
      [] r = "portfolio"             -> <<u.page[r], u.query>>
      [] r \in Filtered              -> <<u.page[r], u.query, u.filter[r]>>
      [] OTHER                       -> <<>>
Deps(r, u) ==
    CASE r = "summary" -> <<View(u), u.range["reports"], u.range["summary"]>>
      [] r = "trends"  -> <<View(u), u.range>>
      [] r = "matrix"  -> <<View(u), u.usersTab>>
      [] r = "integrations" -> <<View(u), u.settingsTab>>
      [] OTHER -> <<View(u), Asked(r, u)>>

Idle == [status |-> "idle", asked |-> None, version |-> 0]
Loading(r, s) == [s EXCEPT !.status = IF r = "reports" /\ s.asked # None THEN "ready" ELSE "loading"]

(* Mutant: every resource is loaded only when it is idle. *)
RunsOnce(r, u, s) == Wanted(r, u) /\ s[r].status = "idle"

Runs(r, u, s) == Wanted(r, u) /\ (r \in LoadedOnce => s[r].status = "idle")

(* Mutant: the effects depend on the view alone. *)
CancelsOnMove(r, u, bumped) == r \in bumped \/ View(u) # View(ui)

Cancels(r, u, bumped) == r \in bumped \/ Deps(r, u) # Deps(r, ui)

(* The effects after a render: u is the new ui, s the resources as the     *)
(* handler left them, bumped those whose refresh key it raised.            *)
Render(u, s, bumped) ==
    /\ ui' = u
    /\ res' = [r \in Resources |->
                 IF Cancels(r, u, bumped) /\ Runs(r, u, s) THEN Loading(r, s[r]) ELSE s[r]]
    /\ req' = [r \in Resources |->
                 IF ~Cancels(r, u, bumped) THEN req[r]
                 ELSE IF Runs(r, u, s) THEN [asked |-> Asked(r, u), since |-> now'] ELSE None]

FirstScreen(v) == [path |-> v, from |-> v, usersTab |-> "admins", settingsTab |-> "profile",
                   search |-> "", query |-> "", typing |-> FALSE, page |-> [r \in Paged |-> 1],
                   filter |-> [r \in Filtered |-> "none"], range |-> [v1 \in Ranged |-> "all"]]
Mounted(u) ==
    /\ ui = u
    /\ res = [r \in Resources |-> IF Wanted(r, u) THEN Loading(r, Idle) ELSE Idle]
    /\ req = [r \in Resources |-> IF Wanted(r, u) THEN [asked |-> Asked(r, u), since |-> 0] ELSE None]
    /\ now = 0
    /\ told = [r \in Resources |-> 0]
    /\ clicks = 0 /\ errors = 0

Click == clicks < MaxClicks /\ clicks' = clicks + 1
Errs == errors < MaxErrors /\ errors' = errors + 1
Shows(u, bumped) == UNCHANGED <<now, told, errors>> /\ Render(u, res, bumped)

(* The effect on pathname empties the search box and the filters, but not  *)
(* the pages.                                                              *)
Moved(p) == [ui EXCEPT !.path = p, !.from = IF p = "detail" THEN ui.path ELSE p, !.search = "",
                       !.typing = ui.typing \/ ui.search # "", !.filter = [r \in Filtered |-> "none"]]
Open(v) == ui.path # v /\ v \in Menu /\ Click /\ Shows(Moved(v), {})

(* Rows stay, and can be clicked, while they are asked for again.          *)
HasRows(r) == res[r].asked # None
OpenDetail ==
    /\ ui.path \in {"portfolio", "investments", "wealth-managers"}
    /\ HasRows(IF ui.path = "wealth-managers" THEN "managers" ELSE ui.path)
    /\ Click /\ Shows(Moved("detail"), {})
GoBack == ui.path = "detail" /\ Click /\ Shows(Moved(ui.from), {})
OpenTab ==
    /\ \/ View(ui) = "users" /\ \E t \in {"admins", "roles"} \ {ui.usersTab} : Shows([ui EXCEPT !.usersTab = t], {})
       \/ View(ui) = "settings" /\ \E t \in {"profile", "config"} \ {ui.settingsTab} :
                                      Shows([ui EXCEPT !.settingsTab = t], {})
    /\ Click
Type(q) ==
    /\ ui.path \in Paged \cup {"wealth-managers"} /\ ui.search # q
    /\ Click /\ Shows([ui EXCEPT !.search = q, !.typing = TRUE], {})

(* The timer set 300 ms after the last key.                                *)
Debounce ==
    /\ ui.typing
    /\ Shows([ui EXCEPT !.typing = FALSE, !.query = ui.search, !.page = [r \in Paged |-> 1]], {})
    /\ UNCHANGED clicks

(* Mutant: the paginator adds to the page. *)
TurnBy(p) ==
    /\ ui.path \in Paged /\ res[ui.path].status = "ready" /\ p # ui.page[ui.path]
    /\ Click /\ Shows([ui EXCEPT !.page[ui.path] = @ + p], {})

Turn(p) ==
    /\ ui.path \in Paged /\ res[ui.path].status = "ready" /\ p # ui.page[ui.path]
    /\ Click /\ Shows([ui EXCEPT !.page[ui.path] = p], {})
Narrow(f) ==
    /\ ui.path \in Filtered /\ f # ui.filter[ui.path]
    /\ Click /\ Shows([ui EXCEPT !.filter[ui.path] = f, !.page[ui.path] = 1], {})
PickRange(d) ==
    /\ ui.path \in Ranged
    /\ Click
    /\ Shows([ui EXCEPT !.range[ui.path] = d],
             IF ui.path = "summary" THEN {"summary", "trends"} ELSE {})
Reload == ui.path = "reports" /\ Click /\ Shows(ui, {"reports"})

(* An answer to the request that counts: the data, read at any moment      *)
(* since the request was sent, or an error. Only an error of the reports   *)
(* keeps the data there were.                                              *)
Answered(r, s) == res' = [res EXCEPT ![r] = s] /\ req' = [req EXCEPT ![r] = None]
Answer(r) ==
    /\ req[r] # None
    /\ \/ /\ \E v \in req[r].since .. now :
                Answered(r, [status |-> "ready", asked |-> req[r].asked, version |-> v])
          /\ UNCHANGED errors
       \/ Errs /\ Answered(r, [(IF r = "reports" THEN res[r] ELSE Idle) EXCEPT !.status = "error"])
    /\ UNCHANGED <<ui, now, told, clicks>>

Browse ==
    \/ \E v \in Menu : Open(v)
    \/ OpenDetail \/ GoBack \/ OpenTab \/ Reload
    \/ \E q \in {"", "q"} : Type(q)
    \/ \E p \in 1 .. 2 : Turn(p)
    \/ \E f \in {"none", "some"} : Narrow(f)
    \/ \E d \in {"all", "week"} : PickRange(d)
Answers == \E r \in Resources : Answer(r)
=============================================================================

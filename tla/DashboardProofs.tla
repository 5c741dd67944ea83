-------------------------- MODULE DashboardProofs --------------------------
(***************************************************************************)
(* What a screen shows, whatever the user does and whenever the answers    *)
(* come: for any menu, any users and permissions, any number of clicks and *)
(* errors.                                                                 *)
(***************************************************************************)
EXTENDS Dashboard, TLAPS

-----------------------------------------------------------------------------
(* The screen, and the rows of resources and requests.                     *)
Paths == Menu \cup {"detail"} \cup {FirstView(w) : w \in Users}
Screen == [path : Paths, from : Paths, usersTab : {"admins", "roles"}, settingsTab : {"profile", "config"},
           search : {"", "q"}, query : {"", "q"}, typing : BOOLEAN, page : [Paged -> 1 .. 2],
           filter : [Filtered -> {"none", "some"}], range : [Ranged -> {"all", "week"}]]
Row(s) == /\ s = [status |-> s.status, asked |-> s.asked, version |-> s.version]
          /\ s.status \in {"idle", "loading", "ready", "error"}

ViewsInv ==
    /\ ui \in Screen /\ now \in Nat /\ clicks \in 0 .. MaxClicks
    /\ res = [r \in Resources |-> res[r]] /\ req = [r \in Resources |-> req[r]]
    /\ told = [r \in Resources |-> told[r]]
    /\ \A r \in Resources : /\ Row(res[r]) /\ res[r].version \in 0 .. now /\ told[r] \in 0 .. now
                            /\ req[r] # None => req[r].since \in told[r] .. now
    /\ "reports" \in Resources => told["reports"] = 0

(* The parameters of a resource, its request and its row agree.            *)
Fixed == LoadedOnce \cup {"reports", "users", "roles", "matrix"}
Agree(r, u, s) ==
    /\ Wanted(r, u) /\ s.status = "ready" => s.asked = Asked(r, u) /\ s.version >= told[r]
    /\ r \in Fixed /\ s.status = "ready" => s.asked = <<>>
    /\ r = "reports" => s.asked \in {None, <<>>}
    /\ r \in LoadedOnce /\ s.status = "ready" => s.version >= told[r]
ShownInv ==
    \A r \in Resources : /\ Agree(r, ui, res[r])
                         /\ req[r] # None => Wanted(r, ui) /\ req[r].asked = Asked(r, ui)
-----------------------------------------------------------------------------
(* The effects of a render. *)

(* An effect that does not rerun wants the same resource, with the same    *)
(* parameters, as before.                                                  *)
LEMMA DepsDecide ==
    ASSUME NEW r \in Resources, NEW u, NEW v, Deps(r, u) = Deps(r, v)
    PROVE  (Wanted(r, u) <=> Wanted(r, v)) /\ Asked(r, u) = Asked(r, v)
<1>1. r \in {"reports", "summary", "trends", "portfolio", "investments", "commissions", "managers",
             "uploads", "settings", "users", "roles", "matrix", "integrations"}
  BY DEF Resources, Loaders
<1>2. CASE r = "summary"
  <2>1. View(u) = View(v) /\ u.range["reports"] = v.range["reports"] /\ u.range["summary"] = v.range["summary"]
    BY <1>2 DEF Deps
  <2>2. RangeOf(r, u) = RangeOf(r, v)
    BY <1>2, <2>1 DEF RangeOf
  <2>3. Asked(r, u) = Asked(r, v)
    BY <1>2, <2>2 DEF Asked, Filtered
  <2>4. Wanted(r, u) <=> Wanted(r, v)
    BY <1>2, <2>1 DEF Wanted
  <2> QED BY <2>3, <2>4
<1>3. CASE r = "trends"
  <2>1. View(u) = View(v) /\ u.range = v.range
    BY <1>3 DEF Deps
  <2>2. RangeOf(r, u) = RangeOf(r, v)
    BY <1>3, <2>1 DEF RangeOf
  <2>3. Asked(r, u) = Asked(r, v)
    BY <1>3, <2>2 DEF Asked, Filtered
  <2>4. Wanted(r, u) <=> Wanted(r, v)
    BY <1>3, <2>1 DEF Wanted
  <2> QED BY <2>3, <2>4
<1>4. CASE r = "matrix"
  <2>1. View(u) = View(v) /\ u.usersTab = v.usersTab
    BY <1>4 DEF Deps
  <2> QED BY <1>4, <2>1 DEF Wanted, Asked, Filtered
<1>5. CASE r = "integrations"
  <2>1. View(u) = View(v) /\ u.settingsTab = v.settingsTab
    BY <1>5 DEF Deps
  <2> QED BY <1>5, <2>1 DEF Wanted, Asked, Filtered
<1>6. CASE r \notin {"summary", "trends", "matrix", "integrations"}
  <2>1. View(u) = View(v) /\ Asked(r, u) = Asked(r, v)
    BY <1>6 DEF Deps
  <2> QED BY <1>6, <2>1 DEF Wanted
<1> QED BY <1>1, <1>2, <1>3, <1>4, <1>5, <1>6

LEMMA FixedAsks == ASSUME NEW r \in Fixed, NEW u PROVE Asked(r, u) = <<>>
  BY DEF Fixed, LoadedOnce, Asked, Filtered

LEMMA LoadingRow ==
    ASSUME NEW r, NEW s, Row(s)
    PROVE  /\ Row(Loading(r, s))
           /\ Loading(r, s).asked = s.asked /\ Loading(r, s).version = s.version
           /\ \/ Loading(r, s).status = "loading"
              \/ Loading(r, s).status = "ready" /\ r = "reports" /\ s.asked # None
<1>1. PICK a, b, c : s = [status |-> a, asked |-> b, version |-> c] /\ a = s.status /\ b = s.asked /\ c = s.version
  BY DEF Row
<1>2. Loading(r, s) = [status |-> IF r = "reports" /\ b # None THEN "ready" ELSE "loading", asked |-> b, version |-> c]
  BY <1>1 DEF Loading
<1> QED BY <1>1, <1>2 DEF Row

LEMMA IdleRow == Row(Idle) /\ Idle.status = "idle" /\ Idle.version = 0 /\ Idle.asked = None
  BY DEF Row, Idle

(* A render keeps every row and request in step with the screen, when the  *)
(* handler before it put back to idle, or asks again for, what it counts   *)
(* as told.                                                                *)
Refetches(r, bumped, s) ==
    \/ r \in bumped /\ r \notin LoadedOnce
    \/ s[r] = Idle /\ req[r] = None

LEMMA RenderKeeps ==
    ASSUME ViewsInv, ShownInv, NEW u \in Screen, NEW s, NEW bumped, Render(u, s, bumped),
           now' \in {now, now + 1}, clicks' \in 0 .. MaxClicks, told' = [r \in Resources |-> told'[r]],
           \A r \in Resources :
              /\ s[r] = res[r] \/ s[r] = Idle
              /\ told'[r] = told[r] \/ (told'[r] = now' /\ r # "reports" /\ Refetches(r, bumped, s))
    PROVE  ViewsInv' /\ ShownInv'
<1>1. ui' = u /\ now \in Nat /\ now' \in Nat /\ now' >= now
  BY DEF Render, ViewsInv
<1>2. ASSUME NEW r \in Resources
      PROVE  /\ Row(res'[r]) /\ res'[r].version \in 0 .. now' /\ told'[r] \in 0 .. now'
             /\ req'[r] # None => req'[r].since \in told'[r] .. now'
             /\ r = "reports" => told'[r] = 0
             /\ Agree(r, ui, res[r])'
             /\ req'[r] # None => Wanted(r, u) /\ req'[r].asked = Asked(r, u)
  <2>1. /\ Row(res[r]) /\ res[r].version \in 0 .. now /\ told[r] \in 0 .. now
        /\ req[r] # None => req[r].since \in told[r] .. now
        /\ r = "reports" => told[r] = 0
    BY DEF ViewsInv
  <2>2. Agree(r, ui, res[r]) /\ (req[r] # None => Wanted(r, ui) /\ req[r].asked = Asked(r, ui))
    BY DEF ShownInv
  <2>3. Row(s[r]) /\ s[r].version \in 0 .. now' /\ Agree(r, ui, s[r]) /\ (s[r] = res[r] \/ s[r].status = "idle")
    BY <1>1, <2>1, <2>2, IdleRow DEF Agree
  <2>4. told'[r] \in 0 .. now' /\ (r = "reports" => told'[r] = 0)
    BY <1>1, <2>1
  <2>5. CASE ~Cancels(r, u, bumped)
    <3>1. res'[r] = s[r] /\ req'[r] = req[r] /\ r \notin bumped /\ Deps(r, u) = Deps(r, ui)
      BY <2>5 DEF Render, Cancels
    <3>2. (Wanted(r, u) <=> Wanted(r, ui)) /\ Asked(r, u) = Asked(r, ui)
      BY <3>1, DepsDecide
    <3>3. told'[r] = told[r] \/ (s[r].status = "idle" /\ req[r] = None)
      BY <3>1, IdleRow DEF Refetches
    <3>4. Agree(r, ui, res[r])'
      BY <1>1, <2>3, <3>1, <3>2, <3>3 DEF Agree
    <3> QED BY <1>1, <2>1, <2>2, <2>3, <2>4, <3>1, <3>2, <3>3, <3>4
  <2>6. CASE Cancels(r, u, bumped) /\ Runs(r, u, s)
    <3>1. res'[r] = Loading(r, s[r]) /\ req'[r] = [asked |-> Asked(r, u), since |-> now'] /\ Wanted(r, u)
      BY <2>6 DEF Render, Runs
    <3>2. Row(res'[r]) /\ res'[r].asked = s[r].asked /\ res'[r].version = s[r].version
      BY <2>3, <3>1, LoadingRow
    <3>3. res'[r].status = "loading" \/ (res'[r].status = "ready" /\ r = "reports" /\ s[r].asked = <<>>)
      BY <2>3, <3>1, LoadingRow DEF Agree
    <3>4. r = "reports" => Asked(r, u) = <<>> /\ r \notin LoadedOnce
      BY FixedAsks DEF Fixed, LoadedOnce
    <3>5. Agree(r, ui, res[r])'
      BY <1>1, <2>3, <2>4, <3>2, <3>3, <3>4 DEF Agree
    <3> QED BY <1>1, <2>3, <2>4, <3>1, <3>2, <3>5
  <2>7. CASE Cancels(r, u, bumped) /\ ~Runs(r, u, s)
    <3>1. res'[r] = s[r] /\ req'[r] = None
      BY <2>7 DEF Render
    <3>2. Wanted(r, u) => r \in LoadedOnce /\ r \in Fixed /\ s[r].status # "idle" /\ Asked(r, u) = <<>>
      BY <2>7, FixedAsks DEF Runs, Fixed
    <3>3. r \in LoadedOnce /\ s[r].status = "ready" => told'[r] = told[r]
      BY IdleRow DEF Refetches
    <3>4. Agree(r, ui, res[r])'
      BY <1>1, <2>3, <3>1, <3>2, <3>3 DEF Agree
    <3> QED BY <1>1, <2>3, <2>4, <3>1, <3>4
  <2> QED BY <2>5, <2>6, <2>7
<1>3. res' = [r \in Resources |-> res'[r]] /\ req' = [r \in Resources |-> req'[r]]
  BY DEF Render
<1>4. ViewsInv'
  BY <1>1, <1>2, <1>3 DEF ViewsInv
<1>5. ShownInv'
  BY <1>1, <1>2 DEF ShownInv
<1> QED BY <1>4, <1>5

LEMMA ShowsKeeps ==
    ASSUME ViewsInv, ShownInv, NEW u \in Screen, NEW bumped, Shows(u, bumped), clicks' \in 0 .. MaxClicks
    PROVE  ViewsInv' /\ ShownInv'
<1>1. Render(u, res, bumped) /\ now' = now /\ told' = told
  BY DEF Shows
<1>2. told' = [r \in Resources |-> told'[r]]
  BY <1>1 DEF ViewsInv
<1> QED BY <1>1, <1>2, RenderKeeps

-----------------------------------------------------------------------------
(* The steps of the user and of the answers. *)

LEMMA MovedScreen == ASSUME NEW p \in Paths, ui \in Screen PROVE Moved(p) \in Screen
  BY DEF Moved, Screen, Paths

LEMMA BrowseKeeps == ASSUME ViewsInv, ShownInv, Browse PROVE ViewsInv' /\ ShownInv'
<1>1. ui \in Screen /\ clicks \in 0 .. MaxClicks /\ MaxClicks \in Nat
  BY BoundAssumption DEF ViewsInv
<1>2. ASSUME Click PROVE clicks' \in 0 .. MaxClicks
  BY <1>1, <1>2 DEF Click
<1>3. ASSUME NEW v \in Menu, Open(v) PROVE ViewsInv' /\ ShownInv'
  <2>1. v \in Paths
    BY DEF Paths
  <2> QED BY <1>1, <1>2, <1>3, <2>1, MovedScreen, ShowsKeeps DEF Open
<1>4. CASE OpenDetail
  <2>1. "detail" \in Paths
    BY DEF Paths
  <2> QED BY <1>1, <1>2, <1>4, <2>1, MovedScreen, ShowsKeeps DEF OpenDetail
<1>5. CASE GoBack
  <2>1. ui.from \in Paths
    BY <1>1 DEF Screen
  <2> QED BY <1>1, <1>2, <1>5, <2>1, MovedScreen, ShowsKeeps DEF GoBack
<1>6. CASE OpenTab
  <2>1. Click
    BY <1>6 DEF OpenTab
  <2>2. \A t \in {"admins", "roles"} : [ui EXCEPT !.usersTab = t] \in Screen
    BY <1>1 DEF Screen
  <2>3. \A t \in {"profile", "config"} : [ui EXCEPT !.settingsTab = t] \in Screen
    BY <1>1 DEF Screen
  <2>4. PICK u \in Screen : Shows(u, {})
    BY <1>6, <2>2, <2>3 DEF OpenTab
  <2> QED BY <1>2, <2>1, <2>4, ShowsKeeps
<1>7. CASE Reload
  BY <1>1, <1>2, <1>7, ShowsKeeps DEF Reload
<1>8. ASSUME NEW q \in {"", "q"}, Type(q) PROVE ViewsInv' /\ ShownInv'
  <2>1. [ui EXCEPT !.search = q, !.typing = TRUE] \in Screen
    BY <1>1 DEF Screen
  <2> QED BY <1>2, <1>8, <2>1, ShowsKeeps DEF Type
<1>9. ASSUME NEW p \in 1 .. 2, Turn(p) PROVE ViewsInv' /\ ShownInv'
  <2>1. [ui EXCEPT !.page[ui.path] = p] \in Screen
    BY <1>1 DEF Screen
  <2> QED BY <1>2, <1>9, <2>1, ShowsKeeps DEF Turn
<1>10. ASSUME NEW f \in {"none", "some"}, Narrow(f) PROVE ViewsInv' /\ ShownInv'
  <2>1. ui.filter \in [Filtered -> {"none", "some"}] /\ ui.page \in [Paged -> 1 .. 2]
    BY <1>1 DEF Screen
  <2>2. [ui.filter EXCEPT ![ui.path] = f] \in [Filtered -> {"none", "some"}]
    BY <2>1
  <2>3. \A p \in 1 .. 2 : [ui.page EXCEPT ![ui.path] = p] \in [Paged -> 1 .. 2]
    BY <2>1
  <2>4. ASSUME NEW g \in [Filtered -> {"none", "some"}], NEW h \in [Paged -> 1 .. 2]
        PROVE  [ui EXCEPT !.filter = g, !.page = h] \in Screen
    BY <1>1 DEF Screen
  <2>5. [ui EXCEPT !.filter[ui.path] = f, !.page[ui.path] = 1]
          = [ui EXCEPT !.filter = [ui.filter EXCEPT ![ui.path] = f], !.page = [ui.page EXCEPT ![ui.path] = 1]]
    BY <1>1 DEF Screen
  <2>6. 1 \in 1 .. 2
    OBVIOUS
  <2>7. [ui EXCEPT !.filter[ui.path] = f, !.page[ui.path] = 1] \in Screen
    BY <2>2, <2>3, <2>4, <2>5, <2>6
  <2> QED BY <1>2, <1>10, <2>7, ShowsKeeps DEF Narrow
<1>11. ASSUME NEW d \in {"all", "week"}, PickRange(d) PROVE ViewsInv' /\ ShownInv'
  <2>1. [ui EXCEPT !.range[ui.path] = d] \in Screen
    BY <1>1 DEF Screen
  <2> QED BY <1>2, <1>11, <2>1, ShowsKeeps DEF PickRange
<1> QED BY <1>3, <1>4, <1>5, <1>6, <1>7, <1>8, <1>9, <1>10, <1>11 DEF Browse

LEMMA DebounceKeeps == ASSUME ViewsInv, ShownInv, Debounce PROVE ViewsInv' /\ ShownInv'
<1>1. ui \in Screen /\ clicks' \in 0 .. MaxClicks
  BY DEF ViewsInv, Debounce
<1>2. [ui EXCEPT !.typing = FALSE, !.query = ui.search, !.page = [r \in Paged |-> 1]] \in Screen
  <2>1. [r \in Paged |-> 1] \in [Paged -> 1 .. 2]
    OBVIOUS
  <2>2. ui.search \in {"", "q"}
    BY <1>1 DEF Screen
  <2> QED BY <1>1, <2>1, <2>2 DEF Screen
<1> QED BY <1>1, <1>2, ShowsKeeps DEF Debounce

(* One row set anew, at a version no older than what was told of it.       *)
LEMMA SetKeeps ==
    ASSUME ViewsInv, ShownInv, NEW r \in Resources, NEW s, Row(s), s.version \in 0 .. now, Agree(r, ui, s)',
           res' = [res EXCEPT ![r] = s], req' = req \/ req' = [req EXCEPT ![r] = None],
           UNCHANGED <<ui, now, clicks>>, told' = told \/ (told' = [told EXCEPT ![r] = now] /\ req[r] = None /\ r # "reports")
    PROVE  ViewsInv' /\ ShownInv'
<1>1. res = [i \in Resources |-> res[i]] /\ req = [i \in Resources |-> req[i]] /\ told = [i \in Resources |-> told[i]] /\ now \in Nat
  BY DEF ViewsInv
<1>2. /\ res' = [i \in Resources |-> res'[i]] /\ req' = [i \in Resources |-> req'[i]] /\ told' = [i \in Resources |-> told'[i]]
      /\ res'[r] = s /\ (req'[r] = req[r] \/ req'[r] = None)
      /\ told'[r] = told[r] \/ (told'[r] = now /\ req[r] = None /\ r # "reports")
      /\ \A i \in Resources : i # r => res'[i] = res[i] /\ req'[i] = req[i] /\ told'[i] = told[i]
  BY <1>1
<1>3. ViewsInv'
  BY <1>1, <1>2 DEF ViewsInv
<1>4. ShownInv'
  BY <1>2 DEF ShownInv, Agree
<1> QED BY <1>3, <1>4

LEMMA AnswerKeeps == ASSUME ViewsInv, ShownInv, NEW r \in Resources, Answer(r) PROVE ViewsInv' /\ ShownInv'
<1>1. /\ Row(res[r]) /\ res[r].version \in 0 .. now /\ told[r] \in 0 .. now /\ now \in Nat
      /\ req[r].since \in told[r] .. now /\ req[r].asked = Asked(r, ui) /\ Wanted(r, ui)
      /\ r = "reports" => res[r].asked \in {None, <<>>}
      /\ UNCHANGED <<ui, now, told, clicks>>
  BY DEF ViewsInv, ShownInv, Agree, Answer
<1>2. r \in Fixed => Asked(r, ui) = <<>>
  BY FixedAsks
<1>3. ASSUME NEW v \in req[r].since .. now,
             Answered(r, [status |-> "ready", asked |-> req[r].asked, version |-> v])
      PROVE  ViewsInv' /\ ShownInv'
  <2> DEFINE s == [status |-> "ready", asked |-> req[r].asked, version |-> v]
  <2>1. Row(s) /\ s.version \in 0 .. now /\ s.version >= told[r] /\ s.asked = Asked(r, ui) /\ s.status = "ready"
    BY <1>1 DEF Row
  <2>2. res' = [res EXCEPT ![r] = s] /\ req' = [req EXCEPT ![r] = None]
    BY <1>3 DEF Answered
  <2>3. PICK t : t = s
    OBVIOUS
  <2> HIDE DEF s
  <2>4. Agree(r, ui, t)'
    BY <1>1, <1>2, <2>1, <2>3 DEF Agree, Fixed
  <2> QED BY <1>1, <2>1, <2>2, <2>3, <2>4, SetKeeps
<1>4. ASSUME Answered(r, [(IF r = "reports" THEN res[r] ELSE Idle) EXCEPT !.status = "error"])
      PROVE  ViewsInv' /\ ShownInv'
  <2> DEFINE o == IF r = "reports" THEN res[r] ELSE Idle
             s == [o EXCEPT !.status = "error"]
  <2>1. Row(o) /\ o.version \in 0 .. now /\ (r = "reports" => o.asked \in {None, <<>>})
    BY <1>1, IdleRow
  <2>2. res' = [res EXCEPT ![r] = s] /\ req' = [req EXCEPT ![r] = None]
    BY <1>4 DEF Answered
  <2> HIDE DEF o
  <2>3. Row(s) /\ s.version = o.version /\ s.asked = o.asked /\ s.status = "error"
    BY <2>1 DEF Row
  <2>4. PICK t : t = s
    OBVIOUS
  <2> HIDE DEF s
  <2>5. Agree(r, ui, t)'
    BY <1>1, <2>1, <2>3, <2>4 DEF Agree, Fixed, LoadedOnce
  <2> QED BY <1>1, <2>1, <2>2, <2>3, <2>4, <2>5, SetKeeps
<1> QED BY <1>3, <1>4 DEF Answer

-----------------------------------------------------------------------------
(* The steps of handlers. *)

LEMMA QuietKeeps ==
    ASSUME ViewsInv, ShownInv, UNCHANGED <<ui, res, req, now, told>>, clicks' \in 0 .. MaxClicks
    PROVE  ViewsInv' /\ ShownInv'
<1>1. ViewsInv'
  BY DEF ViewsInv
<1>2. ShownInv'
  BY DEF ShownInv, Agree
<1> QED BY <1>1, <1>2

(* What a worker writes is told to nobody: no row, request or telling      *)
(* changes, and the mutations only grow.                                   *)
LEMMA WrittenKeeps ==
    ASSUME ViewsInv, ShownInv, NEW k, Written(k)
    PROVE  ViewsInv' /\ ShownInv'
<1>1. UNCHANGED <<ui, res, req, told, clicks>> /\ now' = now + 1
  BY DEF Written
<1>2. ViewsInv'
  <2>1. now \in Nat /\ now' \in Nat
    BY <1>1 DEF ViewsInv
  <2>2. ASSUME NEW r \in Resources
        PROVE  /\ Row(res'[r]) /\ res'[r].version \in 0 .. now' /\ told'[r] \in 0 .. now'
               /\ req'[r] # None => req'[r].since \in told'[r] .. now'
    <3>1. /\ Row(res[r]) /\ res[r].version \in 0 .. now /\ told[r] \in 0 .. now
          /\ req[r] # None => req[r].since \in told[r] .. now
      BY DEF ViewsInv
    <3> QED BY <1>1, <2>1, <3>1
  <2> QED BY <1>1, <2>1, <2>2 DEF ViewsInv
<1>3. ShownInv'
  BY <1>1 DEF ShownInv, Agree
<1> QED BY <1>2, <1>3

LEMMA SucceedKeeps ==
    ASSUME ViewsInv, ShownInv, NEW k \in Handlers, Succeed(k)
    PROVE  ViewsInv' /\ ShownInv'
<1>1. ui \in Screen /\ now' = now + 1 /\ clicks' \in 0 .. MaxClicks /\ told = [r \in Resources |-> told[r]]
  BY DEF Succeed, ViewsInv
<1>2. PICK next \in Then(k) :
         /\ Render(ui, [r \in Resources |-> IF r \in Resets(k) THEN Idle ELSE res[r]],
                   IF k = "edit" /\ next # None THEN {} ELSE Bumped(k))
         /\ IF next \in {None, "history"} THEN Told(Affected(k)) ELSE UNCHANGED told
  BY DEF Succeed
<1>3. PICK s : s = [r \in Resources |-> IF r \in Resets(k) THEN Idle ELSE res[r]]
  OBVIOUS
<1>4. PICK bumped : bumped = IF k = "edit" /\ next # None THEN {} ELSE Bumped(k)
  OBVIOUS
<1>5. told' = [r \in Resources |-> told'[r]]
  BY <1>1, <1>2 DEF Told
<1>6. ASSUME NEW r \in Resources
      PROVE  /\ s[r] = res[r] \/ s[r] = Idle
             /\ told'[r] = told[r] \/ (told'[r] = now' /\ r # "reports" /\ Refetches(r, bumped, s))
  <2>1. s[r] = IF r \in Resets(k) THEN Idle ELSE res[r]
    BY <1>3
  <2>2. CASE told'[r] # told[r]
    <3>1. /\ next \in {None, "history"} /\ r \in Affected(k) /\ told'[r] = now'
          /\ req[r] = None \/ r \notin Overviews
      BY <1>2, <2>2 DEF Told
    <3>2. CASE r \in Overviews
      <4>1. r \in Resets(k) /\ r # "reports"
        BY <3>1, <3>2 DEF Affected, Resets, Overviews
      <4> QED BY <2>1, <3>1, <3>2, <4>1 DEF Refetches
    <3>3. CASE r \notin Overviews
      <4>1. r \in {"users", "roles", "matrix"} /\ r \in Bumped(k)
        BY <3>1, <3>3 DEF Affected, Bumped, Overviews
      <4>2. k = "edit" => next = None
        BY <1>2, <3>1 DEF Then
      <4> QED BY <1>4, <2>1, <3>1, <4>1, <4>2 DEF Refetches, LoadedOnce
    <3> QED BY <3>2, <3>3
  <2> QED BY <2>1, <2>2
<1> QED BY <1>1, <1>2, <1>3, <1>4, <1>5, <1>6, RenderKeeps

LEMMA HistoryKeeps ==
    ASSUME ViewsInv, ShownInv, History
    PROVE  ViewsInv' /\ ShownInv'
<1>1. UNCHANGED <<ui, req, now, clicks>>
  BY DEF History
<1>2. now \in Nat /\ clicks' \in 0 .. MaxClicks /\ res = [r \in Resources |-> res[r]] /\ told = [r \in Resources |-> told[r]]
  BY <1>1 DEF ViewsInv
<1>3. CASE "uploads" \notin Resources
  <2>1. res' = res /\ told' = told
    BY <1>2, <1>3 DEF History
  <2> QED BY <1>1, <1>2, <2>1, QuietKeeps
<1>4. CASE "uploads" \in Resources
  <2>1. PICK r : r = "uploads"
    OBVIOUS
  <2>2. told[r] \in 0 .. now /\ r \in Fixed /\ r # "reports"
    BY <1>4, <2>1 DEF ViewsInv, Fixed, LoadedOnce
  <2>3. Asked(r, ui)' = <<>>
    BY <1>1, <2>2, FixedAsks
  <2>4. CASE res' = [res EXCEPT !["uploads"] = [status |-> "ready", asked |-> <<>>, version |-> now]]
             /\ told' = [told EXCEPT !["uploads"] = IF req["uploads"] = None THEN now ELSE @]
    <3>1. PICK t : t = [status |-> "ready", asked |-> <<>>, version |-> now]
      OBVIOUS
    <3>2. told' = told \/ (told' = [told EXCEPT ![r] = now] /\ req[r] = None)
      BY <1>2, <2>1, <2>4
    <3>3. told'[r] \in 0 .. now
      BY <1>2, <1>4, <2>1, <2>2, <3>2
    <3>4. Row(t) /\ t.version = now /\ t.status = "ready" /\ t.asked = <<>>
      BY <3>1 DEF Row
    <3>5. Agree(r, ui, t)'
      BY <1>1, <1>2, <2>2, <2>3, <3>3, <3>4 DEF Agree
    <3>6. res' = [res EXCEPT ![r] = t]
      BY <2>1, <2>4, <3>1
    <3>7. t.version \in 0 .. now
      BY <1>2, <3>4
    <3> QED BY <1>1, <1>4, <2>1, <2>2, <3>2, <3>4, <3>5, <3>6, <3>7, SetKeeps
  <2>5. CASE res' = [res EXCEPT !["uploads"] = Idle] /\ told' = told
    <3>1. PICK t : t = Idle
      OBVIOUS
    <3>2. Agree(r, ui, t)'
      BY <2>2, <3>1, IdleRow DEF Agree
    <3>3. t.version \in 0 .. now /\ Row(t)
      BY <1>2, <3>1, IdleRow
    <3> QED BY <1>1, <1>4, <2>1, <2>2, <2>5, <3>1, <3>2, <3>3, SetKeeps
  <2> QED BY <2>4, <2>5 DEF History
<1> QED BY <1>3, <1>4

-----------------------------------------------------------------------------
(* The session. *)
IsSession(s) == s = None \/ (s.who \in Users /\ s.sid \in Nat)
IsHeaders(h) ==
    /\ h = [who |-> h.who, sid |-> h.sid, type |-> h.type, rights |-> h.rights]
    /\ h.sid \in Nat
SessionInv == IsSession(session) /\ IsSession(renewing) /\ IsHeaders(headers)

LEMMA SessionsAre ==
    ASSUME NEW w \in Users, NEW id \in Nat, NEW s \in Sessions(w, id)
    PROVE  IsSession(s) /\ IsHeaders(HeadersOf(s)) /\ s.who = w /\ s.sid = id
  BY DEF Sessions, IsSession, IsHeaders, HeadersOf

LEMMA SessionStepsKeep ==
    ASSUME ViewsInv, ShownInv, SessionInv, SessionSteps
    PROVE  ViewsInv' /\ ShownInv' /\ SessionInv'
<1>1. clicks \in 0 .. MaxClicks /\ MaxClicks \in Nat /\ ui \in Screen
  BY BoundAssumption DEF ViewsInv
<1>2. ASSUME Click PROVE clicks' \in 0 .. MaxClicks
  BY <1>1, <1>2 DEF Click
<1>3. CASE Redirect
  <2>1. session.who \in Users
    BY <1>3 DEF Redirect, Forbidden, SessionInv, IsSession
  <2>2. FirstView(session.who) \in Paths
    BY <2>1 DEF Paths
  <2>3. Moved(FirstView(session.who)) \in Screen
    BY <1>1, <2>2, MovedScreen
  <2>4. ViewsInv' /\ ShownInv'
    BY <1>1, <1>3, <2>3, ShowsKeeps DEF Redirect
  <2>5. SessionInv'
    BY <1>3 DEF Redirect, sessionVars, SessionInv
  <2> QED BY <2>4, <2>5
<1>4. CASE Refreshed
  <2>1. ViewsInv' /\ ShownInv'
    BY <1>1, <1>4, QuietKeeps DEF Refreshed, views
  <2>2. CASE session' = None /\ headers' = headers
    BY <1>4, <2>1, <2>2 DEF Refreshed, SessionInv, IsSession
  <2>3. CASE /\ session' \in Sessions(renewing.who, renewing.sid)
             /\ headers' = [headers EXCEPT !.rights = renewing.who]
    <3>1. renewing.who \in Users /\ renewing.sid \in Nat /\ renewing' = None
      BY <1>4 DEF Refreshed, SessionInv, IsSession
    <3>2. IsSession(session') /\ IsSession(renewing')
      BY <2>3, <3>1, SessionsAre DEF IsSession
    <3>3. IsHeaders(headers')
      BY <2>3 DEF SessionInv, IsHeaders
    <3> QED BY <2>1, <3>2, <3>3 DEF SessionInv
  <2> QED BY <1>4, <2>2, <2>3 DEF Refreshed
<1>5. ASSUME NEW w \in Users, SignedIn(w) PROVE ViewsInv' /\ ShownInv' /\ SessionInv'
  <2>1. ViewsInv' /\ ShownInv'
    BY <1>1, <1>5, QuietKeeps DEF SignedIn, views
  <2>2. CASE UNCHANGED <<session, headers>>
    BY <1>5, <2>1, <2>2 DEF SignedIn, SessionInv
  <2>3. CASE session' \in Sessions(w, headers.sid + 1) /\ headers' = HeadersOf(session')
    <3>1. headers.sid + 1 \in Nat /\ UNCHANGED renewing
      BY <1>5 DEF SignedIn, SessionInv, IsHeaders
    <3>2. IsSession(session') /\ IsHeaders(headers')
      BY <2>3, <3>1, SessionsAre
    <3> QED BY <2>1, <3>1, <3>2 DEF SessionInv
  <2> QED BY <1>5, <2>2, <2>3 DEF SignedIn
<1>6. ASSUME SignOut \/ IdleTimeout \/ SignInAgain \/ \E w \in Users : SignIn(w)
      PROVE  ViewsInv' /\ ShownInv' /\ SessionInv'
  <2>1. ViewsInv' /\ ShownInv'
    BY <1>1, <1>2, <1>6, QuietKeeps DEF SignOut, IdleTimeout, SignInAgain, SignIn
  <2>2. SessionInv'
    BY <1>6 DEF SignOut, IdleTimeout, SignInAgain, SignIn, SessionInv, IsSession
  <2> QED BY <2>1, <2>2
<1> QED BY <1>3, <1>4, <1>5, <1>6 DEF SessionSteps

-----------------------------------------------------------------------------
DashboardInv == ViewsInv /\ ShownInv /\ SessionInv /\ running \subseteq Handlers

LEMMA FirstLoads == ASSUME NEW u \in Screen, Mounted(u) PROVE ViewsInv /\ ShownInv
<1>1. /\ ui = u /\ now = 0 /\ clicks = 0
      /\ res = [r \in Resources |-> IF Wanted(r, u) THEN Loading(r, Idle) ELSE Idle]
      /\ req = [r \in Resources |-> IF Wanted(r, u) THEN [asked |-> Asked(r, u), since |-> 0] ELSE None]
      /\ told = [r \in Resources |-> 0]
  BY DEF Mounted
<1>2. ASSUME NEW r \in Resources
      PROVE  Row(res[r]) /\ res[r].version = 0 /\ res[r].asked = None /\ res[r].status # "ready"
  BY <1>1, IdleRow, LoadingRow
<1>3. ViewsInv
  BY <1>1, <1>2, BoundAssumption DEF ViewsInv
<1>4. ShownInv
  BY <1>1, <1>2 DEF ShownInv, Agree
<1> QED BY <1>3, <1>4

LEMMA Mounts == Init => DashboardInv
<1> SUFFICES ASSUME Init PROVE DashboardInv
  OBVIOUS
<1>1. PICK s \in Starts : /\ Mounted(FirstScreen(s[1]))
                          /\ session = s[2]
                          /\ renewing = IF s[3] THEN session ELSE None
  BY DEF Init, SessionInit
<1>2. s[1] \in Menu /\ (s[2] = None \/ \E w \in Users : s[2] \in Sessions(w, 1))
  BY StartAssumption
<1>3. FirstScreen(s[1]) \in Screen
  BY <1>2 DEF FirstScreen, Screen, Paths
<1>4. ViewsInv /\ ShownInv
  BY <1>1, <1>3, FirstLoads
<1>5. /\ IsSession(session) /\ IsSession(renewing)
      /\ session # None => IsHeaders(HeadersOf(session))
  <2>1. ASSUME NEW w \in Users, session \in Sessions(w, 1)
        PROVE  IsSession(session) /\ IsHeaders(HeadersOf(session))
    BY <2>1, SessionsAre
  <2> QED BY <1>1, <1>2, <2>1 DEF IsSession
<1>6. headers = IF session = None THEN Default ELSE HeadersOf(session)
  BY DEF Init, SessionInit
<1>7. IsHeaders(Default)
  BY DEF IsHeaders, Default
<1>8. SessionInv
  BY <1>5, <1>6, <1>7 DEF SessionInv
<1> QED BY <1>4, <1>8 DEF DashboardInv, Init

LEMMA DashboardStep == DashboardInv /\ [Next]_vars => DashboardInv'
<1> SUFFICES ASSUME DashboardInv, [Next]_vars PROVE DashboardInv'
  OBVIOUS
<1>1. ViewsInv /\ ShownInv /\ SessionInv /\ running \subseteq Handlers /\ clicks \in 0 .. MaxClicks /\ MaxClicks \in Nat
  BY BoundAssumption DEF DashboardInv, ViewsInv
<1>2. ASSUME UNCHANGED sessionVars PROVE SessionInv'
  BY <1>1, <1>2 DEF sessionVars, SessionInv
<1>3. CASE Browse /\ UNCHANGED <<sessionVars, running, queued>>
  BY <1>1, <1>2, <1>3, BrowseKeeps DEF DashboardInv
<1>4. CASE (Debounce \/ Answers) /\ UNCHANGED <<sessionVars, running, queued>>
  <2>1. ViewsInv' /\ ShownInv'
    BY <1>1, <1>4, DebounceKeeps, AnswerKeeps DEF Answers
  <2> QED BY <1>1, <1>2, <1>4, <2>1 DEF DashboardInv
<1>5. CASE SessionSteps /\ UNCHANGED <<running, queued>>
  BY <1>1, <1>5, SessionStepsKeep DEF DashboardInv
<1>6. ASSUME NEW k \in Handlers, Submit(k) PROVE DashboardInv'
  <2>1. clicks' \in 0 .. MaxClicks
    BY <1>1, <1>6 DEF Submit, Click
  <2>2. UNCHANGED <<ui, res, req, now, told>> /\ UNCHANGED sessionVars /\ running' \subseteq Handlers
    BY <1>1, <1>6 DEF Submit
  <2>3. ViewsInv' /\ ShownInv'
    BY <1>1, <2>1, <2>2, QuietKeeps
  <2> QED BY <1>2, <2>2, <2>3 DEF DashboardInv
<1>7. ASSUME NEW k \in Handlers, Succeed(k) PROVE DashboardInv'
  <2>1. UNCHANGED sessionVars
    BY <1>7 DEF Succeed
  <2>2. PICK next \in Then(k) : running' = (running \ {k}) \cup ({next} \ {None})
    BY <1>7 DEF Succeed
  <2>3. next \in Handlers \cup {None}
    BY <2>2 DEF Then, Handlers, Dialogs, Drawers
  <2>4. running' \subseteq Handlers
    BY <1>1, <2>2, <2>3
  <2>5. ViewsInv' /\ ShownInv'
    BY <1>1, <1>7, SucceedKeeps
  <2> QED BY <1>2, <2>1, <2>4, <2>5 DEF DashboardInv
<1>8. ASSUME NEW k \in Handlers, Fail(k) PROVE DashboardInv'
  <2>1. UNCHANGED <<ui, res, req, now, told, clicks>> /\ UNCHANGED sessionVars /\ running' \subseteq Handlers
    BY <1>1, <1>8 DEF Fail
  <2>2. ViewsInv' /\ ShownInv'
    BY <1>1, <2>1, QuietKeeps
  <2> QED BY <1>2, <2>1, <2>2 DEF DashboardInv
<1>9. CASE History
  <2>1. UNCHANGED sessionVars /\ running' \subseteq Handlers
    BY <1>1, <1>9 DEF History
  <2>2. ViewsInv' /\ ShownInv'
    BY <1>1, <1>9, HistoryKeeps
  <2> QED BY <1>2, <2>1, <2>2 DEF DashboardInv
<1>11. ASSUME NEW k \in Queued, Written(k) PROVE DashboardInv'
  <2>1. UNCHANGED sessionVars /\ UNCHANGED running
    BY <1>11 DEF Written
  <2>2. ViewsInv' /\ ShownInv'
    BY <1>1, <1>11, WrittenKeeps
  <2> QED BY <1>1, <1>2, <2>1, <2>2 DEF DashboardInv
<1>10. CASE UNCHANGED vars
  <2>1. UNCHANGED <<ui, res, req, now, told, clicks>> /\ UNCHANGED sessionVars /\ UNCHANGED running
    BY <1>10 DEF vars, views
  <2>2. ViewsInv' /\ ShownInv'
    BY <1>1, <2>1, QuietKeeps
  <2> QED BY <1>1, <1>2, <2>1, <2>2 DEF DashboardInv
<1> QED BY <1>3, <1>4, <1>5, <1>6, <1>7, <1>8, <1>9, <1>10, <1>11 DEF Next

LEMMA DashboardHolds == Spec => []DashboardInv
  BY Mounts, DashboardStep, PTL DEF Spec

-----------------------------------------------------------------------------
(* Screens, rows, requests, sessions and handlers keep their shape.        *)
THEOREM DashboardTypes == Spec => []TypeOK
<1>1. ASSUME DashboardInv PROVE TypeOK
  <2>1. ui.path \in Paths /\ ui.page \in [Paged -> 1 .. 2] /\ ui.typing \in BOOLEAN
    BY <1>1 DEF DashboardInv, ViewsInv, Screen
  <2>2. DOMAIN res = Resources /\ DOMAIN req = Resources
    BY <1>1 DEF DashboardInv, ViewsInv
  <2>3. \A r \in Resources : /\ res[r].status \in {"idle", "loading", "ready", "error"}
                             /\ res[r].version \in 0 .. now /\ told[r] \in 0 .. now
                             /\ req[r] # None => req[r].since \in 0 .. now
    BY <1>1 DEF DashboardInv, ViewsInv, Row
  <2> QED BY <1>1, <2>1, <2>2, <2>3 DEF DashboardInv, ViewsInv, SessionInv, IsSession, Paths, TypeOK
<1> QED BY <1>1, DashboardHolds, PTL

(* Whatever order the answers come in, and whatever the user does between  *)
(* a request and its answer, a list that is shown as ready was asked for   *)
(* with the range, page, search and filters on the screen.                 *)
THEOREM ScreensShowWhatIsAsked == Spec => []ShownIsAsked
<1>1. DashboardInv => ShownIsAsked
  BY DEF DashboardInv, ShownInv, Agree, ShownIsAsked
<1> QED BY <1>1, DashboardHolds, PTL

(* No screen shows as ready what was read before the last handler that     *)
(* reset it, except for the load that was in flight then.                  *)
THEOREM NothingStaleIsShown == Spec => []ReadAfterWrite
<1>1. DashboardInv => ReadAfterWrite
  BY DEF DashboardInv, ShownInv, Agree, ReadAfterWrite
<1> QED BY <1>1, DashboardHolds, PTL

(* The headers are the session's own through every sign-in, sign-out and   *)
(* time-out: only the refresh of another session leaves them behind.       *)
THEOREM HeadersFollowSession == Spec => []QuietIdentity
<1>1. Init => QuietIdentity
  BY DEF Init, SessionInit, QuietIdentity, HeadersOf
<1>2. DashboardInv /\ QuietIdentity /\ [Next]_vars => QuietIdentity'
  <2> SUFFICES ASSUME DashboardInv, QuietIdentity, [Next]_vars PROVE QuietIdentity'
    OBVIOUS
  <2>0. /\ IsHeaders(headers)
        /\ renewing # None => renewing.who \in Users /\ renewing.sid \in Nat
    BY DEF DashboardInv, SessionInv, IsSession
  <2>1. CASE Refreshed
    <3> SUFFICES ASSUME session' # None, ~crossed'
                 PROVE  [headers' EXCEPT !.type = session'.type] = HeadersOf(session')
      BY DEF QuietIdentity
    <3>1. /\ session' \in Sessions(renewing.who, renewing.sid) /\ renewing # None
          /\ headers' = [headers EXCEPT !.rights = renewing.who]
          /\ ~crossed /\ session = renewing
      BY <2>1 DEF Refreshed
    <3>2. session'.who = session.who /\ session'.sid = session.sid
      BY <2>0, <3>1, SessionsAre
    <3>3. [headers EXCEPT !.type = session.type] = HeadersOf(session)
      BY <3>1 DEF QuietIdentity
    <3>4. headers.who = session.who /\ headers.sid = session.sid
      BY <2>0, <3>3 DEF HeadersOf, IsHeaders
    <3>5. PICK a, b, c, d : headers = [who |-> a, sid |-> b, type |-> c, rights |-> d]
      BY <2>0 DEF IsHeaders
    <3>6. PICK t : t = session'.type
      OBVIOUS
    <3>7. headers' = [who |-> a, sid |-> b, type |-> c, rights |-> renewing.who]
      BY <3>1, <3>5
    <3>8. [headers' EXCEPT !.type = t] = [who |-> a, sid |-> b, type |-> t, rights |-> renewing.who]
      BY <3>7
    <3>9. HeadersOf(session') = [who |-> a, sid |-> b, type |-> t, rights |-> renewing.who]
      BY <3>1, <3>2, <3>4, <3>5, <3>6 DEF HeadersOf
    <3> QED BY <3>6, <3>8, <3>9
  <2>2. ASSUME NEW w \in Users, SignedIn(w) PROVE QuietIdentity'
    <3>1. CASE headers' = HeadersOf(session')
      BY <3>1 DEF QuietIdentity, HeadersOf
    <3>2. CASE UNCHANGED <<session, headers>>
      BY <2>2, <3>2 DEF SignedIn, QuietIdentity
    <3> QED BY <2>2, <3>1, <3>2 DEF SignedIn
  <2>3. CASE SignOut
    BY <2>3 DEF SignOut, QuietIdentity
  <2>4. ASSUME UNCHANGED <<session, headers, crossed>> PROVE QuietIdentity'
    BY <2>4 DEF QuietIdentity
  <2>5. SessionSteps \/ UNCHANGED sessionVars
    BY DEF Next, Submit, Succeed, Fail, History, Written, vars
  <2>6. CASE UNCHANGED sessionVars
    BY <2>4, <2>6 DEF sessionVars
  <2>7. CASE Redirect \/ IdleTimeout \/ SignInAgain \/ \E w \in Users : SignIn(w)
    BY <2>4, <2>7 DEF Redirect, IdleTimeout, SignInAgain, SignIn, sessionVars
  <2> QED BY <2>1, <2>2, <2>3, <2>5, <2>6, <2>7 DEF SessionSteps
<1> QED BY <1>1, <1>2, DashboardHolds, PTL DEF Spec
=============================================================================

----------------------------- MODULE SyncProofs -----------------------------
(***************************************************************************)
(* The safety properties of the syncs, the reports and the outbox, for     *)
(* every choice of the constants.  Each has an inductive invariant of its  *)
(* own; what they share is that a worker's step changes no other run but   *)
(* to note that it was disturbed, and that a request has one job at most.  *)
(***************************************************************************)
EXTENDS SyncTyping

Busy(w) == run[w].at # "idle"

(* What other workers see of a step: a run stays as it is, or is disturbed. *)
Same(c, r) == c = r \/ (r.at # "idle" /\ c = [r EXCEPT !.calm = FALSE])
Others(w) == \A v \in Workers \ {w} : Same(run'[v], run[v])

-----------------------------------------------------------------------------
(* How a step leaves the runs of others. *)

(* A run that is disturbed keeps all but its calm. *)
LEMMA SameRun ==
    ASSUME NEW asked, NEW w \in Workers, NEW r, NEW c, RunOK(asked, w, r), Same(c, r)
    PROVE  /\ c.at = r.at /\ (c = Idle <=> r = Idle)
           /\ r.at # "idle" => c.job = r.job /\ (c.calm => r.calm)
           /\ QueueOf[w] = "sheets" /\ r.at \in OnRow \cup {"fetch", "tabDone"} =>
                c.valid = r.valid /\ c.invalid = r.invalid /\ c.left = r.left
           /\ QueueOf[w] = "sheets" /\ r.at \in OnRow \cup {"tabDone"} =>
                c.tab = r.tab /\ c.rows = r.rows /\ c.line = r.line /\ c.found = r.found
           /\ QueueOf[w] = "sync" /\ r.at = "row" =>
                c.rows = r.rows /\ c.line = r.line /\ c.valid = r.valid /\ c.invalid = r.invalid
           /\ QueueOf[w] = "report" /\ r.at = "complete" => c.picked = r.picked
<1>1. CASE c = r
  BY <1>1
<1>2. CASE r.at # "idle" /\ c = [r EXCEPT !.calm = FALSE]
  <2>1. CASE r \in Begins
    BY <1>2, <2>1 DEF Begins, Idle, OnRow
  <2>2. CASE r \in Counts /\ QueueOf[w] = "sheets"
    BY <1>2, <2>2 DEF Counts, Idle, OnRow
  <2>3. CASE r \in Lines /\ QueueOf[w] = "sheets"
    BY <1>2, <2>3 DEF Lines, Idle, OnRow
  <2>4. CASE r \in Posts /\ QueueOf[w] = "sync"
    BY <1>2, <2>4 DEF Posts, Idle, OnRow
  <2>5. CASE r \in Filings /\ QueueOf[w] = "report"
    BY <1>2, <2>5 DEF Filings, Idle, OnRow
  <2>. QED
    BY <1>2, <2>1, <2>2, <2>3, <2>4, <2>5 DEF RunOK, Idle
<1>. QED
  BY <1>1, <1>2 DEF Same

LEMMA GotoOthers == ASSUME NEW w \in Workers, NEW r, RunTyped, Goto(w, r) PROVE Others(w) /\ run'[w] = r
  BY DEF Others, Same, Goto, RunTyped

LEMMA ThrowOthers ==
    ASSUME NEW w \in Workers, RunTyped, Throw(w)
    PROVE  Others(w) /\ run'[w] = Idle
  BY GotoOthers DEF Throw

LEMMA DisturbedSame ==
    ASSUME NEW s, NEW w \in Workers
    PROVE  Same(Disturbed(s)[w], run[w])
  BY DEF Same, Disturbed

(* The steps of a sheets worker. *)
LEMMA SheetsOthers ==
    ASSUME NEW w \in Workers, Typed, SheetsStep(w)
    PROVE  Others(w)
<1>0. RunTyped
  BY DEF Typed
<1>1. CASE ShStart(w)
  BY <1>1 DEF ShStart, OthersOn, Others, Same
<1>2. CASE ShUpdate(w)
  <2>1. CASE Throw(w)
    BY <1>0, <2>1, ThrowOthers
  <2>2. CASE run' = [Disturbed(SharedBy(w)) EXCEPT ![w].at = "sum"]
    <3>1. \A v \in Workers \ {w} : run'[v] = Disturbed(SharedBy(w))[v]
      BY <2>2 DEF Disturbed
    <3>. QED
      BY <3>1, DisturbedSame DEF Others
  <2>. QED
    BY <1>2, <2>1, <2>2 DEF ShUpdate
<1>3. CASE ShInsert(w)
  BY <1>0, <1>3, ThrowOthers, GotoOthers DEF ShInsert, Step
<1>4. CASE ShStore(w)
  BY <1>0, <1>4, ThrowOthers, GotoOthers DEF ShStore
<1>5. CASE ShFetch(w)
  BY <1>0, <1>5, GotoOthers DEF ShFetch
<1>6. CASE ShCompare(w)
  BY <1>0, <1>6, GotoOthers DEF ShCompare
<1>7. CASE ShTabs(w) \/ ShError(w) \/ ShLookup(w) \/ ShTabDone(w) \/ ShFinish(w) \/ ShStamp(w)
  BY <1>0, <1>7, GotoOthers DEF ShTabs, ShError, ShLookup, ShTabDone, ShFinish, ShStamp, Step
<1>. QED
  BY <1>1, <1>2, <1>3, <1>4, <1>5, <1>6, <1>7 DEF SheetsStep

LEMMA WorkerOthers ==
    ASSUME NEW w \in Workers, Typed, Work(w) \/ Fault(w) \/ CrashWorker(w)
    PROVE  Others(w) /\ ask' = ask
<1>0. RunTyped
  BY DEF Typed
<1>1. CASE SheetsStep(w)
  <2>1. UNCHANGED Rest
    BY <1>1 DEF SheetsStep, ShStart, ShTabs, ShFetch, ShCompare, ShError, ShLookup, ShUpdate, ShInsert,
       ShStore, ShTabDone, ShFinish, ShStamp
  <2>. QED
    BY <1>1, <2>1, SheetsOthers DEF Rest
<1>2. CASE SyStart(w) \/ SyError(w) \/ SyFinish(w)
  BY <1>0, <1>2, GotoOthers DEF SyStart, SyError, SyFinish, Step, Kept
<1>3. CASE SyInsert(w)
  BY <1>0, <1>3, GotoOthers, ThrowOthers DEF SyInsert, Kept
<1>4. CASE ExportStep(w)
  BY <1>0, <1>4, GotoOthers DEF ExportStep, RpMark, RpSelect, RpWrite, RpComplete, Dispatch, Step, Aside
<1>5. CASE Take(w) \/ Ack(w)
  BY <1>0, <1>5, GotoOthers DEF Take, Ack
<1>6. CASE Fault(w)
  BY <1>0, <1>6, ThrowOthers DEF Fault
<1>7. CASE CrashWorker(w)
  BY <1>0, <1>7, GotoOthers DEF CrashWorker
<1>. QED
  BY <1>1, <1>2, <1>3, <1>4, <1>5, <1>6, <1>7 DEF Work, SourceStep

(* Nobody but a worker moves a run. *)
Requested == \/ \E q \in Requests : Ask(q) \/ Proceed(q) \/ Discover(q)
             \/ \E t \in Tabs : Edit(t)
             \/ \E s \in Sources : Elapse(s)
             \/ CrashApi

LEMMA RequestedOthers ==
    ASSUME Typed, Requested
    PROVE  /\ ask' = ask /\ UNCHANGED <<errors, sums, files>>
           /\ \A v \in Workers : Same(run'[v], run[v])
<1>1. ASSUME NEW s, Disturb(s)
      PROVE  \A v \in Workers : Same(run'[v], run[v])
  BY <1>1, DisturbedSame DEF Disturb
<1>2. ASSUME NEW q \in Requests, SetTab(q) \/ Discover(q) \/ DeleteInvestment(q)
      PROVE  /\ ask' = ask /\ UNCHANGED <<errors, sums, files>>
             /\ \A v \in Workers : Same(run'[v], run[v])
  <2>1. /\ ask' = ask /\ UNCHANGED <<errors, sums, files>>
        /\ Disturb({SourceOf[ask[q].tab]}) \/ Disturb({ask[q].source}) \/ Disturb(Sources)
    BY <1>2 DEF SetTab, Discover, DeleteInvestment, WorkerSide
  <2>. QED
    BY <1>1, <2>1
<1>3. ASSUME NEW q \in Requests, Accept(q) \/ FindSource(q) \/ Proceed(q)
      PROVE  UNCHANGED <<ask, run, errors, sums, files>>
  BY <1>3 DEF Accept, FindSource, Proceed, InsertRow, Enqueue, InsertEvent, EnqueueEvent, WriteSource,
     WorkerSide
<1>4. ASSUME NEW t \in Tabs, Edit(t)
      PROVE  /\ ask' = ask /\ UNCHANGED <<errors, sums, files>>
             /\ \A v \in Workers : Same(run'[v], run[v])
  <2>1. ask' = ask /\ UNCHANGED <<errors, sums, files>> /\ Disturb({SourceOf[t]})
    BY <1>4 DEF Edit, WorkerSide
  <2>. QED
    BY <1>1, <2>1
<1>5. ASSUME (\E s \in Sources : Elapse(s)) \/ CrashApi
      PROVE  UNCHANGED <<ask, run, errors, sums, files>>
  BY <1>5 DEF Elapse, CrashApi, WorkerSide
<1>6. run' = run => \A v \in Workers : Same(run'[v], run[v])
  BY DEF Same
<1>. QED
  BY <1>2, <1>3, <1>4, <1>5, <1>6 DEF Requested, Ask

LEMMA NextSteps ==
    [Next]_vars <=> \/ \E w \in Workers : Work(w) \/ Fault(w) \/ CrashWorker(w)
                    \/ Requested \/ UNCHANGED vars
  BY DEF Next, Requested

-----------------------------------------------------------------------------
(* What each step of a sheets worker makes of its own run. *)

(* The same line of the same tab. *)
SameTab(c, r) == /\ c.job = r.job /\ c.calm = r.calm /\ c.left = r.left /\ c.tab = r.tab /\ c.rows = r.rows
SameRow(c, r) == SameTab(c, r) /\ c.line = r.line /\ c.valid = r.valid /\ c.invalid = r.invalid

(* Where a run stands that has moved from line i. *)
NextLine(c, i) == /\ c.line = After(c.rows, i)
                  /\ c.at = IF c.line > Len(c.rows) THEN "tabDone" ELSE "row"

LEMMA StartOwn ==
    ASSUME NEW w \in Workers, Typed, ShStart(w)
    PROVE  /\ run[w].at = "start" /\ QueueOf[w] = "sheets"
           /\ run'[w].at = "tabs" /\ run'[w].job = run[w].job
           /\ run'[w].calm => OthersOn(w, Source(w)) = {}
<1>. DEFINE alone == OthersOn(w, Source(w)) = {}
<1>1. w \notin OthersOn(w, Source(w))
  BY DEF OthersOn
<1>2. run'[w] = [at |-> "tabs", job |-> run[w].job, calm |-> alone]
  BY <1>1 DEF ShStart
<1>. HIDE DEF alone
<1>3. run'[w].at = "tabs" /\ run'[w].job = run[w].job /\ run'[w].calm = alone
  BY <1>2
<1>4. run'[w].calm => alone
  BY <1>3, Zenon
<1>. QED
  BY <1>3, <1>4 DEF ShStart, At, alone

LEMMA TabsOwn ==
    ASSUME NEW w \in Workers, Typed, ShTabs(w)
    PROVE  /\ run'[w] = [at |-> "fetch", job |-> run[w].job, calm |-> run[w].calm, valid |-> 0, invalid |-> 0,
                         left |-> {t \in tabsOn : SourceOf[t] = Source(w)}]
           /\ run[w].at = "tabs" /\ QueueOf[w] = "sheets"
  BY DEF ShTabs, At, Goto, Typed, RunTyped

LEMMA FetchOwn ==
    ASSUME NEW w \in Workers, Typed, ShFetch(w)
    PROVE  /\ run[w].at = "fetch" /\ QueueOf[w] = "sheets"
           /\ \E t \in run[w].left :
                /\ t \in Tabs
                /\ run'[w].job = run[w].job /\ run'[w].calm = run[w].calm
                /\ run'[w].valid = run[w].valid /\ run'[w].invalid = run[w].invalid
                /\ run'[w].left = run[w].left \ {t} /\ run'[w].tab = t /\ run'[w].rows = feed[t]
                /\ NextLine(run'[w], 0)
<1>1. PICK t \in run[w].left :
        LET r == [at |-> "row", job |-> run[w].job, calm |-> run[w].calm,
                  valid |-> run[w].valid, invalid |-> run[w].invalid,
                  left |-> run[w].left \ {t}, tab |-> t, rows |-> feed[t], line |-> 0,
                  known |-> FALSE, found |-> {}]
        IN  /\ Goto(w, Moved(r)) /\ Moved(r) \in Lines /\ OnTab(ask, Moved(r)) /\ t \in Tabs
            /\ Moved(r) = [r EXCEPT !.line = After(r.rows, r.line),
                                    !.at = IF After(r.rows, r.line) > Len(r.rows) THEN "tabDone" ELSE "row"]
  BY ShFetchRun
<1>. DEFINE r == [at |-> "row", job |-> run[w].job, calm |-> run[w].calm,
                  valid |-> run[w].valid, invalid |-> run[w].invalid,
                  left |-> run[w].left \ {t}, tab |-> t, rows |-> feed[t], line |-> 0,
                  known |-> FALSE, found |-> {}]
<1>2. /\ run'[w] = [r EXCEPT !.line = After(r.rows, r.line),
                             !.at = IF After(r.rows, r.line) > Len(r.rows) THEN "tabDone" ELSE "row"]
      /\ t \in Tabs
  BY <1>1, GotoOthers DEF Typed
<1>3. QueueOf[w] = "sheets" /\ run[w].at = "fetch"
  BY DEF ShFetch, At
<1>. QED
  BY <1>2, <1>3 DEF NextLine

LEMMA CompareOwn ==
    ASSUME NEW w \in Workers, Typed, ShCompare(w)
    PROVE  /\ run[w].at = "row" /\ QueueOf[w] = "sheets"
           /\ SameRow(run'[w], run[w]) /\ run'[w].found = {} /\ run'[w].at \in {"error", "post", "lookup"}
           /\ run'[w].at = "error" <=> Line(w).kind = "short"
           /\ run'[w].at = "post" => Line(w).ref = NoRef
<1>1. PICK known \in BOOLEAN, next \in {"error", "post", "lookup"} :
        /\ Goto(w, [run[w] EXCEPT !.at = next, !.known = known, !.found = {}])
        /\ next = "error" <=> Line(w).kind = "short"
        /\ next = "post" => Line(w).ref = NoRef
  BY ShCompareRun
<1>2. run'[w] = [run[w] EXCEPT !.at = next, !.known = known, !.found = {}]
  BY <1>1, GotoOthers DEF Typed
<1>3. QueueOf[w] = "sheets" /\ run[w].at = "row"
  BY DEF ShCompare, At
<1>4. run[w] \in Lines
  BY <1>3, RowRun DEF Typed, OnRow
<1>. QED
  BY <1>1, <1>2, <1>3, <1>4 DEF Lines, SameRow, SameTab

LEMMA ErrorOwn ==
    ASSUME NEW w \in Workers, Typed, ShError(w)
    PROVE  /\ run[w].at = "error" /\ QueueOf[w] = "sheets"
           /\ SameTab(run'[w], run[w]) /\ run'[w].valid = run[w].valid
           /\ run'[w].invalid = run[w].invalid + 1 /\ NextLine(run'[w], run[w].line)
<1>. DEFINE c == [run[w] EXCEPT !.invalid = run[w].invalid + 1]
<1>1. QueueOf[w] = "sheets" /\ run[w].at = "error" /\ Goto(w, Moved(c))
  BY DEF ShError, At
<1>2. run[w].at \in OnRow
  BY <1>1 DEF OnRow
<1>3. run[w] \in Lines
  BY <1>1, <1>2, RowRun DEF Typed
<1>4. /\ c \in Lines /\ c.at = run[w].at /\ SameTab(c, run[w]) /\ c.line = run[w].line
      /\ c.valid = run[w].valid /\ c.invalid = run[w].invalid + 1
      /\ run[w].valid \in Nat /\ run[w].invalid \in Nat
  BY <1>3 DEF Lines, SameTab
<1>5. run'[w] = Moved(c)
  BY <1>1, GotoOthers DEF Typed
<1>. HIDE DEF c
<1>6. c.valid + c.invalid = run[w].valid + run[w].invalid + 1
  BY <1>4
<1>7. run'[w] = [c EXCEPT !.line = After(c.rows, c.line),
                          !.at = IF After(c.rows, c.line) > Len(c.rows) THEN "tabDone" ELSE "row"]
  BY <1>1, <1>2, <1>4, <1>5, <1>6, CountedLine DEF SameTab
<1>. QED
  BY <1>1, <1>4, <1>7 DEF Lines, SameTab, NextLine

LEMMA StoreOwn ==
    ASSUME NEW w \in Workers, Typed, ShStore(w)
    PROVE  /\ run[w].at = "sum" /\ QueueOf[w] = "sheets"
           /\ \/ Throw(w) /\ run'[w] = Idle
              \/ /\ SameTab(run'[w], run[w]) /\ run'[w].invalid = run[w].invalid
                 /\ NextLine(run'[w], run[w].line) /\ UNCHANGED queue
<1>. DEFINE c == [run[w] EXCEPT !.valid = run[w].valid + 1]
<1>1. QueueOf[w] = "sheets" /\ run[w].at = "sum"
  BY DEF ShStore, At
<1>2. CASE Throw(w)
  BY <1>1, <1>2, ThrowOthers DEF Typed
<1>3. CASE Goto(w, Moved(c)) /\ UNCHANGED queue
  <2>2. run[w].at \in OnRow
    BY <1>1 DEF OnRow
  <2>3. run[w] \in Lines
    BY <1>1, <2>2, RowRun DEF Typed
  <2>4. /\ c \in Lines /\ c.at = run[w].at /\ SameTab(c, run[w]) /\ c.line = run[w].line
        /\ c.invalid = run[w].invalid /\ c.valid = run[w].valid + 1
        /\ run[w].valid \in Nat /\ run[w].invalid \in Nat
    BY <2>3 DEF Lines, SameTab
  <2>5. run'[w] = Moved(c)
    BY <1>3, GotoOthers DEF Typed
  <2>. HIDE DEF c
  <2>6. c.valid + c.invalid = run[w].valid + run[w].invalid + 1
    BY <2>4
  <2>7. run'[w] = [c EXCEPT !.line = After(c.rows, c.line),
                            !.at = IF After(c.rows, c.line) > Len(c.rows) THEN "tabDone" ELSE "row"]
    BY <1>1, <2>2, <2>4, <2>5, <2>6, CountedLine DEF SameTab
  <2>. QED
    BY <1>1, <1>3, <2>4, <2>7 DEF Lines, SameTab, NextLine
<1>. QED
  BY <1>2, <1>3 DEF ShStore

LEMMA LookupOwn ==
    ASSUME NEW w \in Workers, Typed, ShLookup(w)
    PROVE  /\ run[w].at = "lookup" /\ QueueOf[w] = "sheets"
           /\ SameRow(run'[w], run[w]) /\ run'[w].at = "post"
           /\ run'[w].found = {r.id : r \in {s \in records : s.ref = Line(w).ref}}
<1>1. QueueOf[w] = "sheets" /\ run[w].at = "lookup"
  BY DEF ShLookup, At
<1>2. run[w] \in Lines
  BY <1>1, RowRun DEF Typed, OnRow
<1>3. PICK found : found = {r.id : r \in {s \in records : s.ref = Line(w).ref}}
  OBVIOUS
<1>4. run'[w] = [run[w] EXCEPT !.at = "post", !.found = found]
  BY <1>3, GotoOthers DEF Typed, ShLookup
<1>5. SameRow(run'[w], run[w]) /\ run'[w].at = "post" /\ run'[w].found = found
  BY <1>2, <1>4 DEF Lines, SameRow, SameTab
<1>. QED
  BY <1>1, <1>3, <1>5

LEMMA PostOwn ==
    ASSUME NEW w \in Workers, Typed, ShUpdate(w) \/ ShInsert(w)
    PROVE  /\ run[w].at = "post" /\ QueueOf[w] = "sheets"
           /\ \/ Throw(w) /\ run'[w] = Idle /\ UNCHANGED <<records, fresh>>
              \/ SameRow(run'[w], run[w]) /\ run'[w].at = "sum" /\ UNCHANGED queue
<1>1. QueueOf[w] = "sheets" /\ run[w].at = "post"
  BY DEF ShUpdate, ShInsert, At
<1>2. run[w] \in Lines
  BY <1>1, RowRun DEF Typed, OnRow
<1>3. CASE Throw(w) /\ UNCHANGED <<records, fresh>>
  BY <1>1, <1>3, ThrowOthers DEF Typed
<1>4. CASE run' = [Disturbed(SharedBy(w)) EXCEPT ![w].at = "sum"] /\ UNCHANGED queue
  <2>1. Disturbed(SharedBy(w))[w] = run[w]
    BY DEF Disturbed, SharedBy
  <2>2. run'[w] = [Disturbed(SharedBy(w))[w] EXCEPT !.at = "sum"]
    BY <1>4 DEF Disturbed
  <2>3. run'[w] = [run[w] EXCEPT !.at = "sum"]
    BY <2>1, <2>2
  <2>. QED
    BY <1>1, <1>2, <1>4, <2>3 DEF Lines, SameRow, SameTab
<1>5. CASE Step(w, "sum") /\ UNCHANGED queue
  <2>1. run'[w] = [run[w] EXCEPT !.at = "sum"]
    BY <1>5, GotoOthers DEF Step, Typed
  <2>. QED
    BY <1>1, <1>2, <1>5, <2>1 DEF Lines, SameRow, SameTab
<1>6. ShUpdate(w) => \/ Throw(w) /\ UNCHANGED <<records, fresh>>
                     \/ run' = [Disturbed(SharedBy(w)) EXCEPT ![w].at = "sum"] /\ UNCHANGED queue
  BY DEF ShUpdate
<1>7. ShInsert(w) => \/ Throw(w) /\ UNCHANGED <<records, fresh>>
                     \/ Step(w, "sum") /\ UNCHANGED queue
  BY DEF ShInsert
<1>. QED
  BY <1>3, <1>4, <1>5, <1>6, <1>7

LEMMA TabDoneOwn ==
    ASSUME NEW w \in Workers, Typed, ShTabDone(w)
    PROVE  /\ run[w].at = "tabDone" /\ QueueOf[w] = "sheets"
           /\ SameRow(run'[w], run[w]) /\ run'[w].at = "fetch"
<1>1. QueueOf[w] = "sheets" /\ run[w].at = "tabDone"
  BY DEF ShTabDone, At
<1>2. run[w] \in Lines
  BY <1>1, RowRun DEF Typed
<1>3. run'[w] = [run[w] EXCEPT !.at = "fetch"]
  BY GotoOthers DEF ShTabDone, Step, Typed
<1>. QED
  BY <1>1, <1>2, <1>3 DEF Lines, SameRow, SameTab

LEMMA LastOwn ==
    ASSUME NEW w \in Workers, Typed, ShFinish(w) \/ ShStamp(w)
    PROVE  /\ run[w].at \in {"fetch", "stamp"} /\ QueueOf[w] = "sheets"
           /\ run'[w].job = run[w].job /\ run'[w].calm = run[w].calm /\ run'[w].at \in {"stamp", "ack"}
<1>1. QueueOf[w] = "sheets" /\ run[w].at \in {"fetch", "stamp"}
  BY DEF ShFinish, ShStamp, At
<1>2. run[w] \in Lines \/ run[w] \in Counts
  BY <1>1, CountRun DEF Typed
<1>3. \E step \in {"stamp", "ack"} : run'[w] = [run[w] EXCEPT !.at = step]
  BY GotoOthers DEF ShFinish, ShStamp, Step, Typed
<1>. QED
  BY <1>1, <1>2, <1>3 DEF Lines, Counts

-----------------------------------------------------------------------------
(* Every invalid row that is counted was written. *)

CountsRows(w) == \/ QueueOf[w] = "sheets" /\ run[w].at \in OnRow \cup {"fetch", "tabDone"}
                 \/ QueueOf[w] = "sync" /\ run[w].at = "row"
BatchesTraced == \A q \in Requests : batches[q].invalid <= errors[q]
RunsTraced == \A w \in Workers : CountsRows(w) => run[w].invalid <= errors[Of(w)]
Traced == BatchesTraced /\ RunsTraced

(* What a run that counts holds. *)
LEMMA CountingRun ==
    ASSUME NEW w \in Workers, Typed, CountsRows(w)
    PROVE  /\ run[w].invalid \in Nat /\ run[w].valid \in Nat /\ Of(w) \in Requests
           /\ errors[Of(w)] \in Nat /\ run[w] # Idle
<1>1. QueueOf[w] = "sheets" => run[w] \in Counts \cup Lines
  BY CountRun, RowRun DEF CountsRows, Typed
<1>2. QueueOf[w] = "sync" => run[w] \in Posts
  BY PostRun DEF CountsRows, Typed
<1>3. run[w].at # "idle"
  BY DEF CountsRows, OnRow
<1>. QED
  BY <1>1, <1>2, <1>3, Running DEF CountsRows, Counts, Lines, Posts, Typed, Fits, JobType, Of, BatchesTyped, Idle

(* A run that others leave alone stays traced. *)
LEMMA TracedKept ==
    ASSUME NEW v \in Workers, Typed, RunsTraced, ask' = ask, Same(run'[v], run[v]),
           \A q \in Requests : errors[q] <= errors'[q] /\ errors'[q] \in Nat
    PROVE  (CountsRows(v) => run[v].invalid <= errors[Of(v)])'
<1>. SUFFICES ASSUME CountsRows(v)' PROVE run'[v].invalid <= errors'[Of(v)']
  OBVIOUS
<1>1. RunOK(ask, v, run[v])
  BY DEF Typed, RunTyped
<1>2. run'[v].at = run[v].at /\ (run[v].at # "idle" => run'[v].job = run[v].job)
  BY <1>1, SameRun
<1>3. CountsRows(v)
  BY <1>2 DEF CountsRows
<1>4. run'[v].invalid = run[v].invalid
  BY <1>1, <1>3, SameRun DEF CountsRows
<1>5. run'[v].job = run[v].job
  BY <1>2, <1>3 DEF CountsRows, OnRow
<1>6. Of(v)' = Of(v)
  BY <1>5 DEF Of
<1>. QED
  BY <1>3, <1>4, <1>6, CountingRun DEF RunsTraced

(* A sheets worker. *)
LEMMA SheetsTraced ==
    ASSUME NEW w \in Workers, Typed, Typed', Traced, SheetsStep(w)
    PROVE  /\ BatchesTraced' /\ \A q \in Requests : errors[q] <= errors'[q]
           /\ (CountsRows(w) => run[w].invalid <= errors[Of(w)])'
<1>0. /\ errors \in [Requests -> Nat] /\ batches \in [Requests -> BatchRow]
      /\ Of(w) \in Requests /\ QueueOf[w] = "sheets" /\ run[w].at # "idle"
  BY SheetsFrame, SheetJob DEF Typed, BatchesTyped
<1>1. CountsRows(w) => run[w].invalid <= errors[Of(w)] /\ run[w].invalid \in Nat
  BY CountingRun DEF Traced, RunsTraced
<1>2. CASE ShStart(w)
  <2>1. UNCHANGED errors /\ batches' = [batches EXCEPT ![Of(w)].status = "running"] /\ run'[w].at = "tabs"
    BY <1>2, StartOwn DEF ShStart
  <2>. QED
    BY <1>0, <2>1 DEF Traced, BatchesTraced, BatchRow, CountsRows, OnRow
<1>3. CASE ShTabs(w)
  <2>1. UNCHANGED <<errors, batches>> /\ run'[w].invalid = 0 /\ run'[w].job = run[w].job
    BY <1>3, TabsOwn DEF ShTabs
  <2>. QED
    BY <1>0, <2>1 DEF Traced, BatchesTraced, Of
<1>4. CASE ShFetch(w)
  <2>1. /\ UNCHANGED <<errors, batches>> /\ run'[w].invalid = run[w].invalid /\ run'[w].job = run[w].job
        /\ CountsRows(w)
    BY <1>4, FetchOwn DEF ShFetch, CountsRows
  <2>. QED
    BY <1>0, <1>1, <2>1 DEF Traced, BatchesTraced, Of
<1>5. CASE ShCompare(w) \/ ShLookup(w) \/ ShTabDone(w)
  <2>1. /\ UNCHANGED <<errors, batches>> /\ run'[w].invalid = run[w].invalid /\ run'[w].job = run[w].job
        /\ CountsRows(w)
    BY <1>5, CompareOwn, LookupOwn, TabDoneOwn
       DEF ShCompare, ShLookup, ShTabDone, CountsRows, OnRow, SameRow, SameTab
  <2>. QED
    BY <1>0, <1>1, <2>1 DEF Traced, BatchesTraced, Of
<1>6. CASE ShError(w)
  <2>1. /\ UNCHANGED batches /\ run'[w].invalid = run[w].invalid + 1 /\ run'[w].job = run[w].job
        /\ CountsRows(w) /\ errors' = [errors EXCEPT ![Of(w)] = errors[Of(w)] + 1]
    BY <1>6, ErrorOwn DEF ShError, CountsRows, OnRow, SameTab
  <2>2. /\ Of(w)' = Of(w) /\ errors'[Of(w)] = errors[Of(w)] + 1
        /\ \A q \in Requests : errors'[q] = errors[q] \/ errors'[q] = errors[q] + 1
    BY <1>0, <2>1 DEF Of
  <2>3. \A q \in Requests : errors[q] <= errors'[q] /\ errors[q] \in Nat /\ errors'[q] \in Nat /\ batches[q].invalid \in Nat
    BY <1>0, <2>2 DEF BatchRow
  <2>4. run'[w].invalid <= errors'[Of(w)']
    BY <1>0, <1>1, <2>1, <2>2
  <2>. QED
    BY <2>1, <2>3, <2>4 DEF Traced, BatchesTraced
<1>7. CASE ShUpdate(w) \/ ShInsert(w)
  <2>1. UNCHANGED <<errors, batches>> /\ CountsRows(w)
    BY <1>7, PostOwn DEF ShUpdate, ShInsert, CountsRows, OnRow
  <2>2. run'[w] = Idle \/ (run'[w].invalid = run[w].invalid /\ run'[w].job = run[w].job)
    BY <1>7, PostOwn DEF SameRow, SameTab
  <2>. QED
    BY <1>0, <1>1, <2>1, <2>2 DEF Traced, BatchesTraced, Of, CountsRows, Idle, OnRow
<1>8. CASE ShStore(w)
  <2>1. UNCHANGED <<errors, batches>> /\ CountsRows(w)
    BY <1>8, StoreOwn DEF ShStore, CountsRows, OnRow
  <2>2. run'[w] = Idle \/ (run'[w].invalid = run[w].invalid /\ run'[w].job = run[w].job)
    BY <1>8, StoreOwn DEF SameTab
  <2>. QED
    BY <1>0, <1>1, <2>1, <2>2 DEF Traced, BatchesTraced, Of, CountsRows, Idle, OnRow
<1>9. CASE ShFinish(w)
  <2>1. /\ UNCHANGED errors /\ CountsRows(w) /\ run'[w].at \in {"stamp", "ack"}
        /\ batches' = [batches EXCEPT ![Of(w)] = [status |-> FinalStatus(w), valid |-> run[w].valid,
                                                  invalid |-> run[w].invalid]]
    BY <1>9, LastOwn DEF ShFinish, CountsRows, At
  <2>. QED
    BY <1>0, <1>1, <2>1 DEF Traced, BatchesTraced, CountsRows, OnRow
<1>10. CASE ShStamp(w)
  <2>1. UNCHANGED <<errors, batches>> /\ run'[w].at \in {"stamp", "ack"}
    BY <1>10, LastOwn DEF ShStamp
  <2>. QED
    BY <1>0, <2>1 DEF Traced, BatchesTraced, CountsRows, OnRow
<1>. QED
  BY <1>2, <1>3, <1>4, <1>5, <1>6, <1>7, <1>8, <1>9, <1>10 DEF SheetsStep

(* What each step of a sync worker makes of its own run. *)
LEMMA PostsOwn ==
    ASSUME NEW w \in Workers, Typed, SourceStep(w)
    PROVE  /\ QueueOf[w] = "sync"
           /\ SyStart(w) => /\ run[w].at = "start"
                            /\ run'[w] = [at |-> "row", job |-> run[w].job, calm |-> FALSE,
                                          rows |-> feed[Source(w)], line |-> 1, valid |-> 0, invalid |-> 0]
           /\ SyError(w) => /\ run[w].at = "row" /\ run'[w].at = "row" /\ run'[w].job = run[w].job
                            /\ run'[w].rows = run[w].rows /\ run'[w].line = run[w].line + 1
                            /\ run'[w].valid = run[w].valid /\ run'[w].invalid = run[w].invalid + 1
           /\ SyInsert(w) => /\ run[w].at = "row"
                             /\ \/ Throw(w) /\ run'[w] = Idle /\ UNCHANGED records
                                \/ /\ run'[w].at = "row" /\ run'[w].job = run[w].job
                                   /\ run'[w].rows = run[w].rows /\ run'[w].line = run[w].line + 1
                                   /\ run'[w].valid = run[w].valid + 1
                                   /\ run'[w].invalid = run[w].invalid /\ UNCHANGED queue
           /\ SyFinish(w) => /\ run[w].at = "row" /\ run'[w].at = "ack" /\ run'[w].job = run[w].job
<1>0. RunTyped /\ QueueOf[w] = "sync"
  BY DEF Typed, SourceStep, SyStart, SyError, SyInsert, SyFinish, At
<1>1. run[w].at = "row" => run[w] \in Posts
  BY <1>0, PostRun
<1>2. ASSUME SyStart(w)
      PROVE  /\ run[w].at = "start"
             /\ run'[w] = [at |-> "row", job |-> run[w].job, calm |-> FALSE,
                           rows |-> feed[Source(w)], line |-> 1, valid |-> 0, invalid |-> 0]
  BY <1>0, <1>2, GotoOthers DEF SyStart, At
<1>3. ASSUME SyError(w)
      PROVE  /\ run[w].at = "row" /\ run'[w].at = "row" /\ run'[w].job = run[w].job
             /\ run'[w].rows = run[w].rows /\ run'[w].line = run[w].line + 1
             /\ run'[w].valid = run[w].valid /\ run'[w].invalid = run[w].invalid + 1
  <2>1. /\ run[w].at = "row"
        /\ run'[w] = [run[w] EXCEPT !.line = run[w].line + 1, !.invalid = run[w].invalid + 1]
    BY <1>0, <1>3, GotoOthers DEF SyError, At
  <2>2. run[w].line \in Nat /\ run[w].invalid \in Nat
    BY <1>1, <2>1 DEF Posts
  <2>3. PICK n \in Nat, m \in Nat : n = run[w].line + 1 /\ m = run[w].invalid + 1
    BY <2>2
  <2>. QED
    BY <1>1, <2>1, <2>3 DEF Posts
<1>4. ASSUME SyInsert(w)
      PROVE  /\ run[w].at = "row"
             /\ \/ Throw(w) /\ run'[w] = Idle /\ UNCHANGED records
                \/ /\ run'[w].at = "row" /\ run'[w].job = run[w].job
                   /\ run'[w].rows = run[w].rows /\ run'[w].line = run[w].line + 1
                   /\ run'[w].valid = run[w].valid + 1
                   /\ run'[w].invalid = run[w].invalid /\ UNCHANGED queue
  <2>1. run[w].at = "row"
    BY <1>4 DEF SyInsert, At
  <2>2. CASE Throw(w) /\ UNCHANGED records
    BY <1>0, <2>1, <2>2, ThrowOthers
  <2>3. CASE Goto(w, [run[w] EXCEPT !.line = run[w].line + 1, !.valid = run[w].valid + 1]) /\ UNCHANGED queue
    <3>1. run'[w] = [run[w] EXCEPT !.line = run[w].line + 1, !.valid = run[w].valid + 1]
      BY <1>0, <2>3, GotoOthers
    <3>2. PICK n \in Nat, m \in Nat : n = run[w].line + 1 /\ m = run[w].valid + 1
      BY <1>1, <2>1 DEF Posts
    <3>. QED
      BY <1>1, <2>1, <2>3, <3>1, <3>2 DEF Posts
  <2>. QED
    BY <1>4, <2>1, <2>2, <2>3 DEF SyInsert
<1>5. ASSUME SyFinish(w)
      PROVE  run[w].at = "row" /\ run'[w].at = "ack" /\ run'[w].job = run[w].job
  <2>1. run[w].at = "row" /\ run'[w] = [run[w] EXCEPT !.at = "ack"]
    BY <1>0, <1>5, GotoOthers DEF SyFinish, At, Step
  <2>. QED
    BY <1>1, <2>1 DEF Posts
<1>. QED
  BY <1>0, <1>2, <1>3, <1>4, <1>5

LEMMA SourceTraced ==
    ASSUME NEW w \in Workers, Typed, Typed', Traced, SourceStep(w)
    PROVE  /\ BatchesTraced' /\ \A q \in Requests : errors[q] <= errors'[q]
           /\ (CountsRows(w) => run[w].invalid <= errors[Of(w)])'
<1>0. /\ errors \in [Requests -> Nat] /\ batches \in [Requests -> BatchRow]
      /\ Of(w) \in Requests /\ QueueOf[w] = "sync" /\ run[w].at # "idle"
  <2>1. QueueOf[w] = "sync" /\ run[w].at # "idle"
    BY DEF SourceStep, SyStart, SyError, SyInsert, SyFinish, At
  <2>. QED
    BY <2>1, SyncJob DEF Typed, BatchesTyped
<1>1. CountsRows(w) => run[w].invalid <= errors[Of(w)] /\ run[w].invalid \in Nat
  BY CountingRun DEF Traced, RunsTraced
<1>2. CASE SyStart(w)
  <2>1. /\ UNCHANGED errors /\ batches' = [batches EXCEPT ![Of(w)].status = "running"]
        /\ run'[w].invalid = 0 /\ run'[w].job = run[w].job
    <3>1. /\ run'[w] = [at |-> "row", job |-> run[w].job, calm |-> FALSE,
                        rows |-> feed[Source(w)], line |-> 1, valid |-> 0, invalid |-> 0]
      BY <1>2, PostsOwn
    <3>. QED
      BY <1>2, <3>1 DEF SyStart
  <2>. QED
    BY <1>0, <2>1 DEF Traced, BatchesTraced, BatchRow, Of
<1>3. CASE SyError(w)
  <2>1. /\ UNCHANGED batches /\ run'[w].invalid = run[w].invalid + 1 /\ run'[w].job = run[w].job
        /\ CountsRows(w) /\ errors' = [errors EXCEPT ![Of(w)] = errors[Of(w)] + 1]
    BY <1>0, <1>3, PostsOwn DEF SyError, CountsRows, Kept
  <2>2. /\ Of(w)' = Of(w) /\ errors'[Of(w)] = errors[Of(w)] + 1
        /\ \A q \in Requests : errors'[q] = errors[q] \/ errors'[q] = errors[q] + 1
    BY <1>0, <2>1 DEF Of
  <2>3. \A q \in Requests : errors[q] <= errors'[q] /\ errors[q] \in Nat /\ errors'[q] \in Nat /\ batches[q].invalid \in Nat
    BY <1>0, <2>2 DEF BatchRow
  <2>4. run'[w].invalid <= errors'[Of(w)']
    BY <1>0, <1>1, <2>1, <2>2
  <2>. QED
    BY <2>1, <2>3, <2>4 DEF Traced, BatchesTraced
<1>4. CASE SyInsert(w)
  <2>1. UNCHANGED <<errors, batches>> /\ CountsRows(w)
    BY <1>0, <1>4, PostsOwn DEF SyInsert, CountsRows, Kept
  <2>2. run'[w] = Idle \/ (run'[w].invalid = run[w].invalid /\ run'[w].job = run[w].job)
    BY <1>4, PostsOwn
  <2>. QED
    BY <1>0, <1>1, <2>1, <2>2 DEF Traced, BatchesTraced, Of, CountsRows, Idle, OnRow
<1>5. CASE SyFinish(w)
  <2>1. /\ UNCHANGED errors /\ CountsRows(w) /\ run'[w].at = "ack"
        /\ \E s \in SyncStatus :
             batches' = [batches EXCEPT ![Of(w)] = [status |-> s, valid |-> run[w].valid,
                                                    invalid |-> run[w].invalid]]
    <3>1. PICK s \in SyncStatus : s = IF run[w].invalid > 0 THEN "partial_success" ELSE "success"
      BY DEF SyncStatus
    <3>2. batches' = [batches EXCEPT ![Of(w)] = [status |-> s, valid |-> run[w].valid,
                                                 invalid |-> run[w].invalid]]
      BY <1>5, <3>1 DEF SyFinish
    <3>3. run[w].at = "row" /\ run'[w].at = "ack" /\ UNCHANGED errors
      BY <1>5, PostsOwn DEF SyFinish, Kept
    <3>. QED
      BY <1>0, <3>2, <3>3 DEF CountsRows
  <2>. QED
    BY <1>0, <1>1, <2>1 DEF Traced, BatchesTraced, CountsRows, OnRow
<1>. QED
  BY <1>2, <1>3, <1>4, <1>5 DEF SourceStep

LEMMA TracedStep == Typed /\ Typed' /\ Traced /\ [Next]_vars => Traced'
<1>. SUFFICES ASSUME Typed, Typed', Traced, [Next]_vars PROVE Traced'
  OBVIOUS
<1>1. ASSUME NEW w \in Workers, Work(w) \/ Fault(w) \/ CrashWorker(w)
      PROVE  Traced'
  <2>1. Others(w) /\ ask' = ask
    BY <1>1, WorkerOthers
  <2>2. /\ BatchesTraced' /\ \A q \in Requests : errors[q] <= errors'[q]
        /\ (CountsRows(w) => run[w].invalid <= errors[Of(w)])'
    <3>1. CASE ExportStep(w)
      <4>1. UNCHANGED <<errors, batches>> /\ QueueOf[w] \notin {"sheets", "sync"}
        BY <3>1 DEF ExportStep, RpMark, RpSelect, RpWrite, RpComplete, Dispatch, Aside, At
      <4>. QED
        BY <4>1 DEF Traced, BatchesTraced, CountsRows, Typed, BatchesTyped
    <3>2. CASE Take(w) \/ Ack(w) \/ Fault(w) \/ CrashWorker(w)
      <4>1. UNCHANGED <<errors, batches>> /\ run'[w].at \in {"idle", "start"}
        BY <3>2, GotoOthers, ThrowOthers DEF Take, Ack, Fault, CrashWorker, Typed, Idle
      <4>. QED
        BY <4>1 DEF Traced, BatchesTraced, CountsRows, OnRow, Typed, BatchesTyped
    <3>. QED
      BY <1>1, <3>1, <3>2, SheetsTraced, SourceTraced DEF Work
  <2>3. ASSUME NEW v \in Workers \ {w}
        PROVE  (CountsRows(v) => run[v].invalid <= errors[Of(v)])'
    <3>1. Same(run'[v], run[v])
      BY <2>1 DEF Others
    <3>2. \A q \in Requests : errors'[q] \in Nat
      BY DEF Typed, BatchesTyped
    <3>. QED
      BY <2>1, <2>2, <3>1, <3>2, TracedKept DEF Traced
  <2>. QED
    BY <2>2, <2>3 DEF Traced, RunsTraced
<1>2. CASE Requested
  <2>1. ask' = ask /\ UNCHANGED errors /\ \A v \in Workers : Same(run'[v], run[v])
    BY <1>2, RequestedOthers
  <2>2. \A q \in Requests : errors'[q] \in Nat /\ errors[q] <= errors'[q]
    BY <2>1 DEF Typed, BatchesTyped
  <2>3. RunsTraced'
    BY <2>1, <2>2, TracedKept DEF Traced, RunsTraced
  <2>4. \A q \in Requests : batches'[q].invalid = batches[q].invalid
    <3>1. UNCHANGED batches \/ \E q \in Requests : InsertRow(q)
      BY <1>2 DEF Requested, Ask, Proceed, Accept, FindSource, SetTab, DeleteInvestment, Enqueue,
         InsertEvent, EnqueueEvent, WriteSource, Discover, Edit, Elapse, CrashApi
    <3>2. ASSUME NEW q \in Requests, InsertRow(q)
          PROVE  \A p \in Requests : batches'[p].invalid = batches[p].invalid
      BY <3>2 DEF InsertRow, Typed, BatchesTyped, BatchRow
    <3>. QED
      BY <3>1, <3>2
  <2>. QED
    BY <2>1, <2>3, <2>4 DEF Traced, BatchesTraced
<1>3. CASE UNCHANGED vars
  BY <1>3 DEF vars, Traced, BatchesTraced, RunsTraced, CountsRows, Of
<1>. QED
  BY <1>1, <1>2, <1>3, NextSteps

(* Every invalid row that a finished sync reports left a row in            *)
(* sync_batch_errors, on whatever attempts and with whatever faults in     *)
(* between: each count of a run is covered by rows its batch has by then,  *)
(* and rows of a batch are never taken away.                               *)
THEOREM InvalidRowsAreTraced == Spec => []InvalidRowsTraced
<1>1. Init => Traced
  BY DEF Init, Traced, BatchesTraced, RunsTraced, CountsRows, Idle, OnRow
<1>2. Typed /\ Typed' /\ Traced /\ [Next]_vars => Traced'
  BY TracedStep
<1>3. Traced => InvalidRowsTraced
  BY DEF Traced, BatchesTraced, InvalidRowsTraced
<1>. QED
  BY <1>1, <1>2, <1>3, SyncIsTyped, PTL DEF Spec

-----------------------------------------------------------------------------
(* How jobs come and go. *)

(* A job joins queue k at its end (d = 0) or before the others (d = 1). *)
Joins(k, job) ==
    /\ \A m \in Queues \ {k} : queue'[m] = queue[m]
    /\ \E p \in DOMAIN queue'[k], d \in {0, 1} :
         /\ queue'[k][p] = job
         /\ \A i \in DOMAIN queue'[k] \ {p} : i - d \in DOMAIN queue[k] /\ queue'[k][i] = queue[k][i - d]
         /\ \A i \in DOMAIN queue[k] : i + d \in DOMAIN queue'[k] /\ queue'[k][i + d] = queue[k][i]

(* The first job leaves queue k. *)
Leaves(k) ==
    /\ \A m \in Queues \ {k} : queue'[m] = queue[m]
    /\ 1 \in DOMAIN queue[k]
    /\ \A i \in DOMAIN queue'[k] : i + 1 \in DOMAIN queue[k] /\ queue'[k][i] = queue[k][i + 1]
    /\ \A i \in DOMAIN queue[k] \ {1} : i - 1 \in DOMAIN queue'[k] /\ queue'[k][i - 1] = queue[k][i]

LEMMA AppendJoins ==
    ASSUME NEW k \in Queues, NEW job \in JobType, QueueTyped, queue' = [queue EXCEPT ![k] = Append(queue[k], job)]
    PROVE  Joins(k, job)
<1>1. queue[k] \in Seq(JobType) /\ queue'[k] = Append(queue[k], job)
  BY DEF QueueTyped
<1>2. /\ Len(queue[k]) \in Nat /\ DOMAIN queue[k] = 1 .. Len(queue[k])
      /\ DOMAIN queue'[k] = 1 .. Len(queue[k]) + 1
      /\ \A i \in 1 .. Len(queue[k]) : queue'[k][i] = queue[k][i]
      /\ queue'[k][Len(queue[k]) + 1] = job
  BY <1>1, AppendProperties, LenProperties
<1>3. \A m \in Queues \ {k} : queue'[m] = queue[m]
  BY DEF QueueTyped
<1>4. PICK p : p = Len(queue[k]) + 1
  OBVIOUS
<1>5. /\ p \in DOMAIN queue'[k] /\ queue'[k][p] = job
      /\ \A i \in DOMAIN queue'[k] \ {p} : i - 0 \in DOMAIN queue[k] /\ queue'[k][i] = queue[k][i - 0]
      /\ \A i \in DOMAIN queue[k] : i + 0 \in DOMAIN queue'[k] /\ queue'[k][i + 0] = queue[k][i]
  BY <1>2, <1>4
<1>. QED
  BY <1>3, <1>5 DEF Joins

LEMMA PushJoins ==
    ASSUME NEW k \in Queues, NEW job \in JobType, QueueTyped,
           queue' = [queue EXCEPT ![k] = <<job>> \o queue[k]]
    PROVE  Joins(k, job)
<1>1. queue[k] \in Seq(JobType) /\ queue'[k] = <<job>> \o queue[k]
  BY DEF QueueTyped
<1>2. <<job>> \in Seq(JobType) /\ Len(<<job>>) = 1 /\ <<job>>[1] = job
  OBVIOUS
<1>. DEFINE n == Len(queue[k])
<1>3. /\ queue'[k] \in Seq(JobType) /\ Len(queue'[k]) = 1 + n
      /\ \A i \in 1 .. 1 + n : queue'[k][i] = IF i <= 1 THEN <<job>>[i] ELSE queue[k][i - 1]
  BY <1>1, <1>2, ConcatProperties
<1>4. n \in Nat /\ DOMAIN queue[k] = 1 .. n /\ DOMAIN queue'[k] = 1 .. 1 + n
  BY <1>1, <1>3, LenProperties
<1>. HIDE DEF n
<1>5. \A m \in Queues \ {k} : queue'[m] = queue[m]
  BY DEF QueueTyped
<1>6. 1 \in DOMAIN queue'[k] /\ queue'[k][1] = job
  BY <1>2, <1>3, <1>4
<1>7. ASSUME NEW i \in DOMAIN queue'[k] \ {1}
      PROVE  i - 1 \in DOMAIN queue[k] /\ queue'[k][i] = queue[k][i - 1]
  BY <1>3, <1>4
<1>8. ASSUME NEW i \in DOMAIN queue[k]
      PROVE  i + 1 \in DOMAIN queue'[k] /\ queue'[k][i + 1] = queue[k][i]
  BY <1>3, <1>4
<1>. QED
  BY <1>5, <1>6, <1>7, <1>8 DEF Joins

LEMMA TailLeaves ==
    ASSUME NEW k \in Queues, QueueTyped, queue[k] # <<>>, queue' = [queue EXCEPT ![k] = Tail(queue[k])]
    PROVE  Leaves(k) /\ Head(queue[k]) = queue[k][1]
<1>1. queue[k] \in Seq(JobType) /\ queue'[k] = Tail(queue[k])
  BY DEF QueueTyped
<1>. DEFINE n == Len(queue[k])
<1>2. /\ n \in Nat /\ n # 0 /\ DOMAIN queue[k] = 1 .. n
      /\ Tail(queue[k]) \in Seq(JobType) /\ Len(Tail(queue[k])) = n - 1
      /\ \A i \in 1 .. n - 1 : Tail(queue[k])[i] = queue[k][i + 1]
      /\ Head(queue[k]) = queue[k][1]
  BY <1>1, HeadTailProperties, LenProperties, EmptySeq
<1>3. DOMAIN queue'[k] = 1 .. n - 1
  BY <1>1, <1>2, LenProperties
<1>. HIDE DEF n
<1>4. \A m \in Queues \ {k} : queue'[m] = queue[m]
  BY DEF QueueTyped
<1>5. \A i \in DOMAIN queue'[k] : i + 1 \in DOMAIN queue[k] /\ queue'[k][i] = queue[k][i + 1]
  BY <1>1, <1>2, <1>3
<1>6. \A i \in DOMAIN queue[k] \ {1} : i - 1 \in DOMAIN queue'[k] /\ queue'[k][i - 1] = queue[k][i]
  BY <1>1, <1>2, <1>3
<1>. QED
  BY <1>2, <1>4, <1>5, <1>6 DEF Leaves

(* What the step of worker w makes of its job. *)
Keeps(w) == Busy(w) /\ run'[w].at # "idle" /\ run'[w].job = run[w].job /\ UNCHANGED queue
Takes(w) == /\ ~Busy(w) /\ Leaves(QueueOf[w]) /\ run'[w].at = "start"
            /\ run'[w].job = queue[QueueOf[w]][1]
Drops(w) == Busy(w) /\ run'[w] = Idle /\ UNCHANGED queue
PutsBack(w, job) == /\ Busy(w) /\ run'[w] = Idle /\ Joins(QueueOf[w], job)
                    /\ job \in JobType /\ job.of = Of(w)
                    /\ \/ job.tries = run[w].job.tries + 1 /\ job.stalls = run[w].job.stalls
                       \/ /\ job.tries = run[w].job.tries /\ job.stalls = run[w].job.stalls + 1
                          /\ CrashWorker(w)

LEMMA ThrowJob ==
    ASSUME NEW w \in Workers, Typed, Busy(w), Throw(w)
    PROVE  Drops(w) \/ PutsBack(w, Retried(run[w].job))
<1>1. Fits(ask, QueueOf[w], run[w].job) /\ QueueOf[w] \in Queues /\ run'[w] = Idle
  BY Running, QueueOfType, ThrowOthers DEF Typed, Busy
<1>2. /\ Retried(run[w].job) \in JobType /\ Retried(run[w].job).of = run[w].job.of
      /\ Retried(run[w].job).tries = run[w].job.tries + 1 /\ Retried(run[w].job).stalls = run[w].job.stalls
  BY <1>1 DEF Fits, JobType, Retried
<1>3. UNCHANGED queue \/ queue' = [queue EXCEPT ![QueueOf[w]] = Append(queue[QueueOf[w]], Retried(run[w].job))]
  BY DEF Throw, Add
<1>. QED
  BY <1>1, <1>2, <1>3, AppendJoins DEF Drops, PutsBack, Typed, Of

LEMMA CrashJob ==
    ASSUME NEW w \in Workers, Typed, CrashWorker(w)
    PROVE  \/ Drops(w) /\ ~(run[w].job.stalls < MaxStalledCount)
           \/ PutsBack(w, [run[w].job EXCEPT !.stalls = run[w].job.stalls + 1])
<1>. DEFINE job == [run[w].job EXCEPT !.stalls = run[w].job.stalls + 1]
<1>1. Busy(w) /\ run'[w] = Idle
  BY GotoOthers DEF CrashWorker, Busy, Typed
<1>2. Fits(ask, QueueOf[w], run[w].job) /\ QueueOf[w] \in Queues
  BY <1>1, Running, QueueOfType DEF Typed, Busy
<1>3. job \in JobType /\ job.of = run[w].job.of /\ job.tries = run[w].job.tries /\ job.stalls = run[w].job.stalls + 1
  BY <1>2 DEF Fits, JobType
<1>4. CASE run[w].job.stalls < MaxStalledCount
  <2>1. queue' = [queue EXCEPT ![QueueOf[w]] = <<job>> \o queue[QueueOf[w]]]
    BY <1>4 DEF CrashWorker
  <2>. HIDE DEF job
  <2>2. Joins(QueueOf[w], job)
    BY <1>2, <1>3, <2>1, PushJoins DEF Typed
  <2>3. PutsBack(w, job)
    BY <1>1, <1>3, <2>2 DEF PutsBack, Of
  <2>. QED
    BY <2>3 DEF job
<1>5. CASE ~(run[w].job.stalls < MaxStalledCount)
  BY <1>1, <1>5 DEF CrashWorker, Drops
<1>. QED
  BY <1>4, <1>5

LEMMA SheetsJob ==
    ASSUME NEW w \in Workers, Typed, SheetsStep(w)
    PROVE  (Keeps(w) \/ Drops(w) \/ \E job \in JobType : PutsBack(w, job)) /\ UNCHANGED req
<1>1. Busy(w) /\ UNCHANGED req
  BY SheetsFrame DEF Busy, SheetsStep, ShStart, ShTabs, ShFetch, ShCompare, ShError, ShLookup, ShUpdate,
     ShInsert, ShStore, ShTabDone, ShFinish, ShStamp, Rest
<1>2. CASE ShStart(w) \/ ShTabs(w)
  BY <1>1, <1>2, StartOwn, TabsOwn DEF ShStart, ShTabs, Keeps
<1>3. CASE ShFetch(w) \/ ShError(w)
  BY <1>1, <1>3, FetchOwn, ErrorOwn DEF ShFetch, ShError, Keeps, NextLine, SameTab
<1>4. CASE ShCompare(w) \/ ShLookup(w) \/ ShTabDone(w) \/ ShFinish(w) \/ ShStamp(w)
  BY <1>1, <1>4, CompareOwn, LookupOwn, TabDoneOwn, LastOwn
     DEF ShCompare, ShLookup, ShTabDone, ShFinish, ShStamp, Keeps, SameRow, SameTab
<1>5. CASE ShUpdate(w) \/ ShInsert(w)
  BY <1>1, <1>5, PostOwn, ThrowJob DEF Keeps, SameRow, SameTab, PutsBack
<1>6. CASE ShStore(w)
  BY <1>1, <1>6, StoreOwn, ThrowJob DEF Keeps, SameTab, NextLine, PutsBack
<1>. QED
  BY <1>1, <1>2, <1>3, <1>4, <1>5, <1>6 DEF SheetsStep

LEMMA ExportsOwn ==
    ASSUME NEW w \in Workers, Typed, ExportStep(w)
    PROVE  /\ Keeps(w) /\ UNCHANGED Aside
           /\ RpMark(w) => QueueOf[w] = "report" /\ run[w].at = "start" /\ run'[w].at = "select"
           /\ RpSelect(w) => QueueOf[w] = "report" /\ run[w].at = "select" /\ run'[w].at = "file"
           /\ RpWrite(w) => /\ QueueOf[w] = "report" /\ run[w].at = "file" /\ run'[w].at = "complete"
                            /\ run'[w].picked = run[w].picked
           /\ RpComplete(w) => QueueOf[w] = "report" /\ run[w].at = "complete" /\ run'[w].at = "ack"
           /\ Dispatch(w) => QueueOf[w] = "outbox" /\ run[w].at = "start" /\ run'[w].at = "ack"
<1>0. UNCHANGED Aside /\ UNCHANGED queue
  BY DEF ExportStep, RpMark, RpSelect, RpWrite, RpComplete, Dispatch, Aside
<1>1. run[w] \in Begins \/ run[w] \in Filings \/ run[w].at \notin {"start", "select", "file", "complete"}
      \/ QueueOf[w] \in {"sheets", "sync"}
  BY DEF Typed, RunTyped, RunOK, Idle
<1>2. ASSUME RpMark(w) \/ Dispatch(w)
      PROVE  /\ run[w].at = "start" /\ run'[w].job = run[w].job
             /\ RpMark(w) => QueueOf[w] = "report" /\ run'[w].at = "select"
             /\ Dispatch(w) => QueueOf[w] = "outbox" /\ run'[w].at = "ack"
  <2>1. run[w].at = "start" /\ QueueOf[w] \in {"report", "outbox"}
    BY <1>2 DEF RpMark, Dispatch, At
  <2>2. run[w] \in Begins
    BY <1>1, <2>1 DEF Filings
  <2>3. /\ RpMark(w) => QueueOf[w] = "report" /\ run'[w] = [run[w] EXCEPT !.at = "select"]
        /\ Dispatch(w) => QueueOf[w] = "outbox" /\ run'[w] = [run[w] EXCEPT !.at = "ack"]
    BY GotoOthers DEF RpMark, Dispatch, Step, At, Typed
  <2>. QED
    BY <1>2, <2>1, <2>2, <2>3 DEF Begins
<1>3. ASSUME RpSelect(w)
      PROVE  QueueOf[w] = "report" /\ run[w].at = "select" /\ run'[w].at = "file" /\ run'[w].job = run[w].job
  BY <1>3, GotoOthers DEF RpSelect, At, Typed
<1>4. ASSUME RpWrite(w) \/ RpComplete(w)
      PROVE  /\ run'[w].job = run[w].job /\ QueueOf[w] = "report" /\ run[w].at \in {"file", "complete"}
             /\ RpWrite(w) => run[w].at = "file" /\ run'[w].at = "complete" /\ run'[w].picked = run[w].picked
             /\ RpComplete(w) => run[w].at = "complete" /\ run'[w].at = "ack"
  <2>1. /\ QueueOf[w] = "report" /\ run[w].at \in {"file", "complete"}
        /\ RpWrite(w) => run[w].at = "file" /\ run'[w] = [run[w] EXCEPT !.at = "complete"]
        /\ RpComplete(w) => run[w].at = "complete" /\ run'[w] = [run[w] EXCEPT !.at = "ack"]
    BY <1>4, GotoOthers DEF RpWrite, RpComplete, Step, At, Typed
  <2>2. run[w] \in Filings
    BY <2>1, FilingRun DEF Typed
  <2>. QED
    BY <1>4, <2>1, <2>2 DEF Filings
<1>5. Busy(w) /\ run'[w].at # "idle" /\ run'[w].job = run[w].job
  BY <1>2, <1>3, <1>4 DEF ExportStep, Busy
<1>. QED
  BY <1>0, <1>2, <1>3, <1>4, <1>5 DEF Keeps

LEMMA WorkerJob ==
    ASSUME NEW w \in Workers, Typed, Work(w) \/ Fault(w) \/ CrashWorker(w)
    PROVE  /\ Keeps(w) \/ Takes(w) \/ Drops(w) \/ \E job \in JobType : PutsBack(w, job)
           /\ UNCHANGED req
<1>1. CASE SourceStep(w)
  <2>1. Busy(w) /\ UNCHANGED req
    BY <1>1 DEF SourceStep, SyStart, SyError, SyInsert, SyFinish, At, Busy, Kept
  <2>2. CASE SyStart(w) \/ SyError(w) \/ SyFinish(w)
    <3>1. UNCHANGED queue
      BY <2>2 DEF SyStart, SyError, SyFinish
    <3>2. run'[w].at # "idle" /\ run'[w].job = run[w].job
      <4>1. ASSUME SyStart(w) PROVE run'[w].at = "row" /\ run'[w].job = run[w].job
        <5>1. run'[w] = [at |-> "row", job |-> run[w].job, calm |-> FALSE,
                         rows |-> feed[Source(w)], line |-> 1, valid |-> 0, invalid |-> 0]
          BY <1>1, <4>1, PostsOwn
        <5>. QED
          BY <5>1
      <4>2. ASSUME SyError(w) PROVE run'[w].at = "row" /\ run'[w].job = run[w].job
        BY <1>1, <4>2, PostsOwn
      <4>3. ASSUME SyFinish(w) PROVE run'[w].at = "ack" /\ run'[w].job = run[w].job
        BY <1>1, <4>3, PostsOwn
      <4>. QED
        BY <2>2, <4>1, <4>2, <4>3
    <3>. QED
      BY <2>1, <3>1, <3>2 DEF Keeps
  <2>3. CASE SyInsert(w)
    BY <1>1, <2>1, <2>3, PostsOwn, ThrowJob DEF Keeps, PutsBack
  <2>. QED
    BY <1>1, <2>1, <2>2, <2>3 DEF SourceStep
<1>2. CASE ExportStep(w)
  BY <1>2, ExportsOwn DEF Aside
<1>3. CASE Take(w)
  <2>1. /\ ~Busy(w) /\ queue[QueueOf[w]] # <<>> /\ UNCHANGED req
        /\ run'[w] = [at |-> "start", job |-> Head(queue[QueueOf[w]]), calm |-> TRUE]
        /\ queue' = [queue EXCEPT ![QueueOf[w]] = Tail(queue[QueueOf[w]])]
    BY <1>3, GotoOthers DEF Take, Busy, Typed
  <2>2. Leaves(QueueOf[w]) /\ Head(queue[QueueOf[w]]) = queue[QueueOf[w]][1]
    BY <2>1, QueueOfType, TailLeaves DEF Typed
  <2>. QED
    BY <2>1, <2>2 DEF Takes
<1>4. CASE Ack(w)
  BY <1>4, GotoOthers DEF Ack, Drops, Busy, Typed
<1>5. CASE Fault(w)
  BY <1>5, ThrowJob DEF Fault, Busy, PutsBack
<1>6. CASE CrashWorker(w)
  BY <1>6, CrashJob DEF CrashWorker, PutsBack
<1>. QED
  BY <1>1, <1>2, <1>3, <1>4, <1>5, <1>6, SheetsJob DEF Work

(* A request is far enough for its job to be in queue k. *)
Made(k, at) == at \notin {"waiting", "insert", "enqueue"} /\ (k = "outbox" => at \notin {"event", "eventJob"})

(* A request adds its job to queue k. *)
Adds(q, k, job) == /\ k \in Queues /\ job \in JobType /\ job.of = q /\ job.tries = 0 /\ job.stalls = 0
                   /\ ~Made(k, req[q].at) /\ Made(k, req'[q].at) /\ Joins(k, job) /\ UNCHANGED run
                   /\ Op(q) = "report" => k \in {"report", "outbox"}

LEMMA MovedReq ==
    ASSUME NEW q \in Requests, NEW step, ReqTyped, Move(q, step)
    PROVE  /\ \A p \in Requests \ {q} : req'[p] = req[p]
           /\ req'[q].at = step
<1>1. req' = [req EXCEPT ![q] = [req[q] EXCEPT !.at = step]]
  BY DEF Move
<1>2. req[q] \in ReqType
  BY DEF ReqTyped, ReqOK
<1>3. [req[q] EXCEPT !.at = step].at = step
  BY <1>2 DEF ReqType
<1>. QED
  BY <1>1, <1>3 DEF ReqTyped

LEMMA EnqueueAdds ==
    ASSUME NEW q \in Requests, Typed, Enqueue(q)
    PROVE  /\ \E k \in Queues \ {"outbox"}, job \in JobType :
                Adds(q, k, job) /\ (k = "report" <=> Op(q) = "report")
           /\ req[q].at = "enqueue"
           /\ req'[q].at = IF Op(q) \in {"sync", "report"} THEN "event" ELSE "ok"
<1>1. PICK k : k = CASE Op(q) = "report" -> "report"
                     [] Op(q) # "report" /\ ask[q].source \in Sheets -> "sheets"
                     [] OTHER -> "sync"
  OBVIOUS
<1>2. PICK actor \in {"admin", "system"} : actor = IF Op(q) \in {"sync", "report"} THEN "admin" ELSE "system"
  OBVIOUS
<1>3. PICK step : step = IF Op(q) \in {"sync", "report"} THEN "event" ELSE "ok"
  OBVIOUS
<1>4. /\ req[q].at = "enqueue" /\ UNCHANGED run /\ Add(k, Job(q, actor)) /\ Move(q, step)
  BY <1>1, <1>2, <1>3 DEF Enqueue, Waits
<1>5. k \in Queues \ {"outbox"} /\ (k = "report" <=> Op(q) = "report")
  BY <1>1 DEF Queues
<1>6. Job(q, actor) \in JobType /\ Job(q, actor).of = q /\ Job(q, actor).tries = 0 /\ Job(q, actor).stalls = 0
  BY <1>2 DEF Job, JobType
<1>7. Joins(k, Job(q, actor))
  BY <1>4, <1>5, <1>6, AppendJoins DEF Add, Typed
<1>8. req'[q].at = step
  BY <1>4, MovedReq DEF Typed
<1>9. Adds(q, k, Job(q, actor))
  BY <1>3, <1>4, <1>5, <1>6, <1>7, <1>8 DEF Adds, Made
<1>. QED
  BY <1>3, <1>4, <1>5, <1>6, <1>8, <1>9

LEMMA EventAdds ==
    ASSUME NEW q \in Requests, Typed, EnqueueEvent(q)
    PROVE  /\ \E job \in JobType : Adds(q, "outbox", job)
           /\ req[q].at = "eventJob" /\ req'[q].at = "ok"
<1>1. req[q].at = "eventJob" /\ UNCHANGED run /\ Add("outbox", Job(q, "admin")) /\ Move(q, "ok")
  BY DEF EnqueueEvent, Waits
<1>2. /\ Job(q, "admin") \in JobType /\ Job(q, "admin").of = q /\ "outbox" \in Queues
      /\ Job(q, "admin").tries = 0 /\ Job(q, "admin").stalls = 0
  BY DEF Job, JobType, Queues
<1>3. Joins("outbox", Job(q, "admin"))
  BY <1>1, <1>2, AppendJoins DEF Add, Typed
<1>4. req'[q].at = "ok"
  BY <1>1, MovedReq DEF Typed
<1>. QED
  BY <1>1, <1>2, <1>3, <1>4 DEF Adds, Made

(* What a request's step makes of requests: nobody gets behind. *)
LEMMA RequestOn ==
    ASSUME NEW q \in Requests, Typed, Ask(q) \/ Proceed(q) \/ Discover(q)
    PROVE  /\ \A p \in Requests \ {q} : req'[p] = req[p]
           /\ \A k \in Queues : Made(k, req[q].at) => Made(k, req'[q].at)
           /\ UNCHANGED queue \/ Enqueue(q) \/ EnqueueEvent(q)
<1>0. ReqTyped
  BY DEF Typed
<1>1. CASE Accept(q)
  <2>1. PICK step \in {"insert", "refused"} : step = IF Wanted(q) THEN "insert" ELSE "refused"
    BY Zenon
  <2>2. Move(q, step) /\ req[q].at = "waiting" /\ UNCHANGED queue
    BY <1>1, <2>1 DEF Accept, Waits
  <2>. QED
    BY <1>0, <2>2, MovedReq DEF Made
<1>2. CASE FindSource(q)
  <2>1. req[q].at = "waiting" /\ UNCHANGED queue
        /\ req' = [req EXCEPT ![q] = [at |-> "write", row |-> sources[ask[q].source]]]
    BY <1>2 DEF FindSource, Waits
  <2>. QED
    BY <1>0, <2>1 DEF Made, ReqTyped
<1>3. CASE SetTab(q) \/ DeleteInvestment(q)
  BY <1>0, <1>3, MovedReq DEF SetTab, DeleteInvestment, Made
<1>4. CASE InsertRow(q)
  BY <1>0, <1>4, MovedReq DEF InsertRow, Waits, Made
<1>5. CASE Enqueue(q)
  <2>1. \E step : Move(q, step)
    BY <1>5 DEF Enqueue
  <2>. QED
    BY <1>0, <1>5, <2>1, EnqueueAdds, MovedReq DEF Made
<1>6. CASE InsertEvent(q)
  BY <1>0, <1>6, MovedReq DEF InsertEvent, Waits, Made
<1>7. CASE EnqueueEvent(q)
  BY <1>0, <1>7, MovedReq DEF EnqueueEvent, Waits, Made
<1>8. CASE WriteSource(q)
  BY <1>0, <1>8, MovedReq DEF WriteSource, Made
<1>9. CASE Discover(q)
  <2>1. \E step \in {"ok", "tabs"} : \E tabs : req' = [req EXCEPT ![q] = [at |-> step, tabs |-> tabs]]
    <3>1. PICK t : \E left : req' = [req EXCEPT ![q] = [at |-> IF left = {t} THEN "ok" ELSE "tabs", tabs |-> left \ {t}]]
      BY <1>9 DEF Discover
    <3>2. PICK left : req' = [req EXCEPT ![q] = [at |-> IF left = {t} THEN "ok" ELSE "tabs", tabs |-> left \ {t}]]
      BY <3>1
    <3>3. PICK step \in {"ok", "tabs"} : step = IF left = {t} THEN "ok" ELSE "tabs"
      OBVIOUS
    <3>. QED
      BY <3>2, <3>3
  <2>2. UNCHANGED queue
    BY <1>9 DEF Discover
  <2>. QED
    BY <1>0, <2>1, <2>2 DEF Made, ReqTyped
<1>. QED
  BY <1>1, <1>2, <1>3, <1>4, <1>5, <1>6, <1>7, <1>8, <1>9 DEF Ask, Proceed

LEMMA RequestedJobs ==
    ASSUME Typed, Requested
    PROVE  /\ \A k \in Queues, p \in Requests : Made(k, req[p].at) => Made(k, req'[p].at)
           /\ UNCHANGED queue \/ \E q \in Requests, k \in Queues, job \in JobType : Adds(q, k, job)
<1>1. ASSUME NEW q \in Requests, Ask(q) \/ Proceed(q) \/ Discover(q)
      PROVE  /\ \A k \in Queues, p \in Requests : Made(k, req[p].at) => Made(k, req'[p].at)
             /\ UNCHANGED queue \/ \E p \in Requests, k \in Queues, job \in JobType : Adds(p, k, job)
  <2>1. /\ \A p \in Requests \ {q} : req'[p] = req[p]
        /\ \A k \in Queues : Made(k, req[q].at) => Made(k, req'[q].at)
        /\ UNCHANGED queue \/ Enqueue(q) \/ EnqueueEvent(q)
    BY <1>1, RequestOn
  <2>2. \A k \in Queues, p \in Requests : Made(k, req[p].at) => Made(k, req'[p].at)
    BY <2>1
  <2>3. "outbox" \in Queues
    BY DEF Queues
  <2>. QED
    BY <2>1, <2>2, <2>3, EnqueueAdds, EventAdds
<1>2. CASE \E t \in Tabs : Edit(t)
  BY <1>2 DEF Edit
<1>3. CASE \E s \in Sources : Elapse(s)
  BY <1>3 DEF Elapse
<1>4. CASE CrashApi
  <2>1. PICK lost : req' = [q \in Requests |-> IF q \in lost THEN [at |-> "lost"] ELSE req[q]]
    BY <1>4 DEF CrashApi
  <2>2. UNCHANGED queue
    BY <1>4 DEF CrashApi
  <2>. QED
    BY <2>1, <2>2 DEF Made
<1>. QED
  BY <1>1, <1>2, <1>3, <1>4 DEF Requested

-----------------------------------------------------------------------------
(* A request has at most one job in a queue, waiting or with a worker.     *)

WaitingApart == \A k \in Queues : \A i, j \in DOMAIN queue[k] : queue[k][i].of = queue[k][j].of => i = j
WaitingOrServed == \A w \in Workers : Busy(w) =>
                     \A i \in DOMAIN queue[QueueOf[w]] : queue[QueueOf[w]][i].of # Of(w)
ServedApart == \A w, v \in Workers :
    Busy(w) /\ Busy(v) /\ QueueOf[w] = QueueOf[v] /\ Of(w) = Of(v) => w = v
WaitingMade == \A k \in Queues : \A i \in DOMAIN queue[k] : Made(k, req[queue[k][i].of].at)
ServedMade == \A w \in Workers : Busy(w) => Made(QueueOf[w], req[Of(w)].at)
JobsApart == WaitingApart /\ WaitingOrServed /\ ServedApart /\ WaitingMade /\ ServedMade

(* Jobs belong to requests. *)
LEMMA JobOwners ==
    ASSUME Typed
    PROVE  /\ \A k \in Queues : queue[k] \in Seq(JobType) /\ \A i \in DOMAIN queue[k] :
                queue[k][i] \in JobType /\ queue[k][i].of \in Requests /\ Fits(ask, k, queue[k][i])
           /\ \A w \in Workers : Busy(w) => /\ run[w].job \in JobType /\ Of(w) \in Requests
                                            /\ Fits(ask, QueueOf[w], run[w].job)
           /\ \A w \in Workers : QueueOf[w] \in Queues
<1>1. ASSUME NEW k \in Queues, NEW i \in DOMAIN queue[k]
      PROVE  queue[k][i] \in JobType /\ queue[k][i].of \in Requests /\ Fits(ask, k, queue[k][i])
  BY <1>1 DEF Typed, QueueTyped, Fits, JobType
<1>2. \A k \in Queues : queue[k] \in Seq(JobType)
  BY DEF Typed, QueueTyped
<1>3. ASSUME NEW w \in Workers, Busy(w)
      PROVE  run[w].job \in JobType /\ Of(w) \in Requests /\ Fits(ask, QueueOf[w], run[w].job)
  BY <1>3, Running DEF Typed, Busy, Of, Fits, JobType
<1>. QED
  BY <1>1, <1>2, <1>3, QueueOfType

(* Where a queue holds a job of a request after job has joined it. *)
LEMMA JoinedWaiting ==
    ASSUME NEW k \in Queues, NEW job \in JobType, Typed', Joins(k, job), WaitingApart,
           \A i \in DOMAIN queue[k] : queue[k][i].of # job.of
    PROVE  WaitingApart'
<1>1. PICK p \in DOMAIN queue'[k], d \in {0, 1} :
        /\ queue'[k][p] = job
        /\ \A i \in DOMAIN queue'[k] \ {p} : i - d \in DOMAIN queue[k] /\ queue'[k][i] = queue[k][i - d]
  BY DEF Joins
<1>2. queue'[k] = queue'[k] /\ \A m \in Queues \ {k} : queue'[m] = queue[m]
  BY DEF Joins
<1>3. ASSUME NEW i \in DOMAIN queue'[k], NEW j \in DOMAIN queue'[k], queue'[k][i].of = queue'[k][j].of,
             i \in Int, j \in Int
      PROVE  i = j
  <2>1. CASE i = p \/ j = p
    BY <1>1, <1>3, <2>1
  <2>2. CASE i # p /\ j # p
    <3>1. i - d = j - d
      BY <1>1, <1>3, <2>2 DEF WaitingApart
    <3>. QED
      BY <1>3, <3>1
  <2>. QED
    BY <2>1, <2>2
<1>4. \A i \in DOMAIN queue'[k] : i \in Int
  <2>1. queue'[k] \in Seq(JobType)
    BY DEF Typed, QueueTyped
  <2>. QED
    BY <2>1, LenProperties
<1>. QED
  BY <1>2, <1>3, <1>4 DEF WaitingApart

(* Jobs that stay where they are, or leave. *)
LEMMA StayApart ==
    ASSUME Typed, JobsApart, UNCHANGED queue,
           \A v \in Workers : Busy(v)' => Busy(v) /\ Of(v)' = Of(v),
           \A k \in Queues, p \in Requests : Made(k, req[p].at) => Made(k, req'[p].at)
    PROVE  JobsApart'
<1>1. WaitingApart' /\ WaitingOrServed' /\ ServedApart'
  BY DEF JobsApart, WaitingApart, WaitingOrServed, ServedApart
<1>2. WaitingMade'
  BY JobOwners DEF JobsApart, WaitingMade
<1>3. ServedMade'
  BY JobOwners DEF JobsApart, ServedMade
<1>. QED
  BY <1>1, <1>2, <1>3 DEF JobsApart

(* The first job of a queue goes to a worker. *)
LEMMA TakenApart ==
    ASSUME NEW w \in Workers, Typed, Typed', JobsApart, Takes(w), UNCHANGED req,
           \A v \in Workers \ {w} : Busy(v)' => Busy(v) /\ Of(v)' = Of(v)
    PROVE  JobsApart'
<1>. DEFINE k == QueueOf[w]
<1>0. k \in Queues /\ \A v \in Workers : QueueOf[v] \in Queues
  BY QueueOfType
<1>1. /\ \A m \in Queues \ {k} : queue'[m] = queue[m]
      /\ 1 \in DOMAIN queue[k]
      /\ \A i \in DOMAIN queue'[k] : i + 1 \in DOMAIN queue[k] /\ queue'[k][i] = queue[k][i + 1]
  BY DEF Takes, Leaves
<1>2. Of(w)' = queue[k][1].of /\ ~Busy(w)
  BY DEF Takes, Of
<1>3. \A i \in DOMAIN queue'[k] : i \in Nat /\ i # 0
  <2>1. queue'[k] \in Seq(JobType)
    BY <1>0 DEF Typed, QueueTyped
  <2>. QED
    BY <2>1, LenProperties
<1>. HIDE DEF k
<1>4. WaitingApart'
  <2>1. ASSUME NEW i \in DOMAIN queue'[k], NEW j \in DOMAIN queue'[k], queue'[k][i].of = queue'[k][j].of
        PROVE  i = j
    <3>1. i + 1 = j + 1
      BY <1>0, <1>1, <2>1 DEF JobsApart, WaitingApart
    <3>. QED
      BY <1>3, <3>1
  <2>. QED
    BY <1>1, <2>1 DEF JobsApart, WaitingApart
<1>5. WaitingOrServed'
  <2>1. ASSUME NEW v \in Workers, Busy(v)', NEW i \in DOMAIN queue'[QueueOf[v]]
        PROVE  queue'[QueueOf[v]][i].of # Of(v)'
    <3>1. CASE v = w
      <4>1. i \in DOMAIN queue'[k]
        BY <2>1, <3>1 DEF k
      <4>2. i + 1 # 1 /\ i + 1 \in DOMAIN queue[k] /\ queue'[k][i] = queue[k][i + 1]
        BY <1>1, <1>3, <4>1
      <4>3. queue[k][i + 1].of # queue[k][1].of
        BY <1>0, <1>1, <4>2 DEF JobsApart, WaitingApart
      <4>. QED
        BY <1>2, <3>1, <4>2, <4>3 DEF k
    <3>2. CASE v # w /\ QueueOf[v] = k
      BY <1>1, <2>1, <3>2 DEF JobsApart, WaitingOrServed
    <3>3. CASE v # w /\ QueueOf[v] # k
      BY <1>0, <1>1, <2>1, <3>3 DEF JobsApart, WaitingOrServed
    <3>. QED
      BY <3>1, <3>2, <3>3
  <2>. QED
    BY <2>1 DEF WaitingOrServed
<1>6. \A v \in Workers \ {w} : Busy(v)' /\ QueueOf[v] = k => Of(v)' # Of(w)'
  BY <1>1, <1>2 DEF JobsApart, WaitingOrServed
<1>7. ServedApart'
  <2>1. ASSUME NEW v \in Workers, NEW u \in Workers, Busy(v)', Busy(u)', QueueOf[v] = QueueOf[u], Of(v)' = Of(u)'
        PROVE  v = u
    BY <1>6, <2>1 DEF JobsApart, ServedApart, k
  <2>. QED
    BY <2>1 DEF ServedApart
<1>8. WaitingMade'
  BY <1>1 DEF JobsApart, WaitingMade
<1>9. ServedMade'
  <2>1. Made(QueueOf[w], req'[Of(w)'].at)
    BY <1>0, <1>1, <1>2 DEF JobsApart, WaitingMade, k
  <2>. QED
    BY <2>1 DEF JobsApart, ServedMade
<1>. QED
  BY <1>4, <1>5, <1>7, <1>8, <1>9 DEF JobsApart

(* A job joins a queue that knows of no other job of its request. *)
LEMMA JoinedApart ==
    ASSUME NEW k \in Queues, NEW job \in JobType, Typed, Typed', JobsApart, Joins(k, job),
           \A i \in DOMAIN queue[k] : queue[k][i].of # job.of,
           \A v \in Workers : Busy(v)' => Busy(v) /\ Of(v)' = Of(v) /\ (QueueOf[v] = k => Of(v) # job.of),
           \A m \in Queues, p \in Requests : Made(m, req[p].at) => Made(m, req'[p].at),
           Made(k, req'[job.of].at)
    PROVE  JobsApart'
<1>1. PICK p \in DOMAIN queue'[k], d \in {0, 1} :
        /\ queue'[k][p] = job
        /\ \A i \in DOMAIN queue'[k] \ {p} : i - d \in DOMAIN queue[k] /\ queue'[k][i] = queue[k][i - d]
  BY DEF Joins
<1>2. \A m \in Queues \ {k} : queue'[m] = queue[m]
  BY DEF Joins
<1>3. \A i \in DOMAIN queue'[k] : queue'[k][i] = job \/ \E j \in DOMAIN queue[k] : queue'[k][i] = queue[k][j]
  BY <1>1
<1>4. WaitingApart'
  BY JoinedWaiting DEF JobsApart
<1>5. WaitingOrServed'
  <2>1. ASSUME NEW v \in Workers, Busy(v)', NEW i \in DOMAIN queue'[QueueOf[v]]
        PROVE  queue'[QueueOf[v]][i].of # Of(v)'
    <3>1. Busy(v) /\ Of(v)' = Of(v) /\ (QueueOf[v] = k => Of(v) # job.of)
      BY <2>1
    <3>2. CASE QueueOf[v] = k
      <4>1. i \in DOMAIN queue'[k]
        BY <2>1, <3>2
      <4>2. CASE queue'[k][i] = job
        BY <3>1, <3>2, <4>2
      <4>3. CASE \E j \in DOMAIN queue[k] : queue'[k][i] = queue[k][j]
        BY <3>1, <3>2, <4>3 DEF JobsApart, WaitingOrServed
      <4>. QED
        BY <1>3, <4>1, <4>2, <4>3
    <3>3. CASE QueueOf[v] # k
      <4>1. queue'[QueueOf[v]] = queue[QueueOf[v]]
        BY <1>2, <3>3, QueueOfType
      <4>. QED
        BY <2>1, <3>1, <4>1 DEF JobsApart, WaitingOrServed
    <3>. QED
      BY <3>2, <3>3
  <2>. QED
    BY <2>1 DEF WaitingOrServed
<1>6. ServedApart'
  BY DEF JobsApart, ServedApart
<1>7. WaitingMade'
  <2>1. ASSUME NEW m \in Queues, NEW i \in DOMAIN queue'[m]
        PROVE  Made(m, req'[queue'[m][i].of].at)
    <3>1. CASE m = k
      BY <1>3, <2>1, <3>1, JobOwners DEF JobsApart, WaitingMade
    <3>2. CASE m # k
      BY <1>2, <2>1, <3>2, JobOwners DEF JobsApart, WaitingMade
    <3>. QED
      BY <3>1, <3>2
  <2>. QED
    BY <2>1 DEF WaitingMade
<1>8. ServedMade'
  BY JobOwners DEF JobsApart, ServedMade
<1>. QED
  BY <1>4, <1>5, <1>6, <1>7, <1>8 DEF JobsApart

(* Other workers have the jobs they had. *)
LEMMA OthersBusy ==
    ASSUME NEW v \in Workers, Typed, Same(run'[v], run[v])
    PROVE  /\ Busy(v)' <=> Busy(v)
           /\ Busy(v) => run'[v].job = run[v].job /\ Of(v)' = Of(v)
<1>1. RunOK(ask, v, run[v])
  BY DEF Typed, RunTyped
<1>. QED
  BY <1>1, SameRun DEF Busy, Of

LEMMA JobsStep == Typed /\ Typed' /\ JobsApart /\ [Next]_vars => JobsApart'
<1>. SUFFICES ASSUME Typed, Typed', JobsApart, [Next]_vars PROVE JobsApart'
  OBVIOUS
<1>1. ASSUME NEW w \in Workers, Work(w) \/ Fault(w) \/ CrashWorker(w)
      PROVE  JobsApart'
  <2>1. \A v \in Workers \ {w} : Busy(v)' => Busy(v) /\ Of(v)' = Of(v)
    BY <1>1, WorkerOthers, OthersBusy DEF Others
  <2>2. UNCHANGED req
    BY <1>1, WorkerJob
  <2>3. CASE Keeps(w)
    <3>1. Busy(w) /\ Of(w)' = Of(w) /\ UNCHANGED queue
      BY <2>3 DEF Keeps, Of
    <3>. QED
      BY <2>1, <2>2, <3>1, StayApart
  <2>4. CASE Drops(w)
    <3>1. ~Busy(w)' /\ UNCHANGED queue
      BY <2>4 DEF Drops, Busy, Idle
    <3>. QED
      BY <2>1, <2>2, <3>1, StayApart
  <2>5. CASE Takes(w)
    BY <2>1, <2>2, <2>5, TakenApart
  <2>6. ASSUME NEW job \in JobType, PutsBack(w, job)
        PROVE  JobsApart'
    <3>1. Busy(w) /\ ~Busy(w)' /\ Joins(QueueOf[w], job) /\ job.of = Of(w) /\ QueueOf[w] \in Queues
      BY <2>6, QueueOfType DEF PutsBack, Busy, Idle
    <3>2. \A i \in DOMAIN queue[QueueOf[w]] : queue[QueueOf[w]][i].of # job.of
      BY <3>1 DEF JobsApart, WaitingOrServed
    <3>3. \A v \in Workers : Busy(v)' => /\ Busy(v) /\ Of(v)' = Of(v)
                                         /\ QueueOf[v] = QueueOf[w] => Of(v) # job.of
      BY <2>1, <3>1 DEF JobsApart, ServedApart
    <3>4. Made(QueueOf[w], req'[job.of].at)
      BY <2>2, <3>1 DEF JobsApart, ServedMade
    <3>. QED
      BY <2>2, <3>1, <3>2, <3>3, <3>4, JoinedApart
  <2>. QED
    BY <1>1, <2>3, <2>4, <2>5, <2>6, WorkerJob
<1>2. CASE Requested
  <2>1. \A v \in Workers : Busy(v)' => Busy(v) /\ Of(v)' = Of(v)
    BY <1>2, RequestedOthers, OthersBusy
  <2>2. \A k \in Queues, p \in Requests : Made(k, req[p].at) => Made(k, req'[p].at)
    BY <1>2, RequestedJobs
  <2>3. CASE UNCHANGED queue
    BY <2>1, <2>2, <2>3, StayApart
  <2>4. ASSUME NEW q \in Requests, NEW k \in Queues, NEW job \in JobType, Adds(q, k, job)
        PROVE  JobsApart'
    <3>1. job.of = q /\ ~Made(k, req[q].at) /\ Made(k, req'[q].at) /\ Joins(k, job)
      BY <2>4 DEF Adds
    <3>2. \A i \in DOMAIN queue[k] : queue[k][i].of # job.of
      BY <3>1 DEF JobsApart, WaitingMade
    <3>3. \A v \in Workers : Busy(v)' => Busy(v) /\ Of(v)' = Of(v) /\ (QueueOf[v] = k => Of(v) # job.of)
      BY <2>1, <3>1 DEF JobsApart, ServedMade
    <3>. QED
      BY <2>2, <3>1, <3>2, <3>3, JoinedApart
  <2>. QED
    BY <1>2, <2>3, <2>4, RequestedJobs
<1>3. CASE UNCHANGED vars
  BY <1>3, StayApart DEF vars, Busy, Of
<1>. QED
  BY <1>1, <1>2, <1>3, NextSteps

(* The jobs that wait at first belong to different requests. *)
LEMMA JobsInit == Init => JobsApart
<1>. SUFFICES ASSUME Init PROVE JobsApart
  OBVIOUS
<1>1. PICK s \in Scenarios :
        /\ queue = [k \in Queues |-> IF k = "sheets" THEN Jobs(s.begun) ELSE <<>>]
        /\ req = [q \in Requests |-> [at |-> IF q \in s.begun THEN "ok" ELSE "waiting"]]
  BY DEF Init
<1>2. IsFiniteSet(s.begun) /\ s.begun \subseteq Requests
  BY ScenarioAssumption
<1>. DEFINE J == {Job(q, "admin") : q \in s.begun}
<1>3. IsFiniteSet(J)
  <2>. DEFINE f == [q \in s.begun |-> Job(q, "admin")]
  <2>1. f \in Surjection(s.begun, J)
    BY DEF Surjection
  <2>. HIDE DEF f, J
  <2>. QED
    BY <1>2, <2>1, FS_Surjection
<1>4. \A job \in J : \E q \in s.begun : job = Job(q, "admin")
  OBVIOUS
<1>. HIDE DEF J
<1>5. \A x, y \in J : x.of = y.of => x = y
  BY <1>4 DEF Job
<1>6. \A x \in J : x.of \in s.begun
  BY <1>4 DEF Job
<1>7. PICK n \in Nat : n = Cardinality(J)
  BY <1>3, FS_CardinalityType
<1>8. /\ SetToSeq(J) \in [1 .. n -> J]
      /\ \A i, j \in 1 .. n : SetToSeq(J)[i] = SetToSeq(J)[j] => i = j
  BY <1>3, <1>7, Listed
<1>9. queue["sheets"] = SetToSeq(J) /\ \A k \in Queues \ {"sheets"} : queue[k] = <<>>
  BY <1>1 DEF Jobs, Queues, J
<1>10. DOMAIN queue["sheets"] = 1 .. n /\ \A k \in Queues \ {"sheets"} : DOMAIN queue[k] = {}
  <2>1. DOMAIN <<>> = {}
    BY EmptySeq, LenProperties
  <2>. QED
    BY <1>8, <1>9, <2>1
<1>11. WaitingApart
  <2>1. ASSUME NEW k \in Queues, NEW i \in DOMAIN queue[k], NEW j \in DOMAIN queue[k],
               queue[k][i].of = queue[k][j].of
        PROVE  i = j
    <3>1. k = "sheets" /\ i \in 1 .. n /\ j \in 1 .. n
      BY <1>10, <2>1
    <3>2. SetToSeq(J)[i] \in J /\ SetToSeq(J)[j] \in J /\ SetToSeq(J)[i].of = SetToSeq(J)[j].of
      BY <1>8, <1>9, <2>1, <3>1
    <3>3. SetToSeq(J)[i] = SetToSeq(J)[j]
      BY <1>5, <3>2
    <3>. QED
      BY <1>8, <3>1, <3>3
  <2>. QED
    BY <2>1 DEF WaitingApart
<1>12. \A w \in Workers : ~Busy(w)
  BY DEF Init, Busy, Idle
<1>13. WaitingMade
  <2>1. ASSUME NEW k \in Queues, NEW i \in DOMAIN queue[k]
        PROVE  Made(k, req[queue[k][i].of].at)
    <3>1. k = "sheets" /\ i \in 1 .. n
      BY <1>10, <2>1
    <3>2. queue[k][i].of \in s.begun
      BY <1>6, <1>8, <1>9, <3>1
    <3>. QED
      BY <1>1, <1>2, <3>1, <3>2 DEF Made
  <2>. QED
    BY <2>1 DEF WaitingMade
<1>. QED
  BY <1>11, <1>12, <1>13 DEF JobsApart, WaitingOrServed, ServedApart, ServedMade

(* No request ever has two jobs in a queue, or one that another is at work *)
(* on, although jobs are tried and delivered again.                        *)
LEMMA JobsStayApart == Spec => []JobsApart
  BY JobsInit, JobsStep, SyncIsTyped, PTL DEF Spec

-----------------------------------------------------------------------------
(* A report that is being made is not complete, and its file holds what    *)
(* its run picked.                                                         *)

RunsFile(w) == QueueOf[w] = "report" =>
    /\ run[w].at \in {"select", "file", "complete"} => reports[Of(w)].status = "processing"
    /\ run[w].at = "complete" => files[Of(w)] = run[w].picked
Filed == CompletedReportMatchesFile /\ \A w \in Workers : RunsFile(w)

(* A run whose report others leave alone. *)
LEMMA FiledKept ==
    ASSUME NEW v \in Workers, Typed, RunsFile(v), Same(run'[v], run[v]),
           QueueOf[v] = "report" /\ Busy(v) =>
             reports'[Of(v)].status = reports[Of(v)].status /\ files'[Of(v)] = files[Of(v)]
    PROVE  RunsFile(v)'
<1>1. RunOK(ask, v, run[v])
  BY DEF Typed, RunTyped
<1>2. run'[v].at = run[v].at
  BY <1>1, SameRun
<1>3. Busy(v) => Of(v)' = Of(v)
  BY OthersBusy
<1>4. QueueOf[v] = "report" /\ run[v].at = "complete" => run'[v].picked = run[v].picked
  BY <1>1, SameRun
<1>. QED
  BY <1>2, <1>3, <1>4 DEF RunsFile, Busy

LEMMA ExportFiled ==
    ASSUME NEW w \in Workers, Typed, JobsApart, Filed, ExportStep(w)
    PROVE  Filed'
<1>0. /\ Of(w) \in Requests /\ Of(w)' = Of(w) /\ Busy(w)
      /\ reports \in [Requests -> ReportRow] /\ files \in [Requests -> SUBSET RecordType]
  BY ExportsOwn, JobOwners DEF Keeps, Of, Typed, ReportsTyped
<1>1. \A v \in Workers \ {w} : Same(run'[v], run[v])
  BY WorkerOthers DEF Work, Others
<1>2. \A v \in Workers \ {w} : QueueOf[v] = "report" /\ QueueOf[w] = "report" /\ Busy(v) => Of(v) # Of(w)
  BY <1>0 DEF JobsApart, ServedApart
<1>3. ASSUME \A q \in Requests \ {Of(w)} : reports'[q] = reports[q] /\ files'[q] = files[q],
             QueueOf[w] = "report", RunsFile(w)',
             reports'[Of(w)].status = "completed" => reports'[Of(w)].size = files'[Of(w)]
      PROVE  Filed'
  <2>1. ASSUME NEW v \in Workers \ {w}
        PROVE  RunsFile(v)'
    <3>1. RunsFile(v) /\ Same(run'[v], run[v]) /\ (Busy(v) => Of(v) \in Requests)
      BY <1>1, JobOwners DEF Filed
    <3>. QED
      BY <1>2, <1>3, <3>1, FiledKept
  <2>2. CompletedReportMatchesFile'
    BY <1>3 DEF Filed, CompletedReportMatchesFile
  <2>. QED
    BY <1>3, <2>1, <2>2 DEF Filed
<1>4. CASE RpMark(w)
  <2>1. /\ QueueOf[w] = "report" /\ run'[w].at = "select" /\ UNCHANGED files
        /\ reports' = [reports EXCEPT ![Of(w)] = Marked(reports[Of(w)])]
    BY <1>4, ExportsOwn DEF RpMark
  <2>2. reports'[Of(w)].status = "processing" /\ \A q \in Requests \ {Of(w)} : reports'[q] = reports[q]
    BY <1>0, <2>1 DEF ReportRow, Marked
  <2>3. RunsFile(w)'
    BY <1>0, <2>1, <2>2 DEF RunsFile
  <2>. QED
    BY <1>3, <2>1, <2>2, <2>3
<1>5. CASE RpSelect(w)
  <2>1. QueueOf[w] = "report" /\ run[w].at = "select" /\ run'[w].at = "file" /\ UNCHANGED <<files, reports>>
    BY <1>5, ExportsOwn DEF RpSelect
  <2>2. RunsFile(w)'
    BY <1>0, <2>1 DEF RunsFile, Filed
  <2>3. reports'[Of(w)].status = "completed" => reports'[Of(w)].size = files'[Of(w)]
    BY <1>0, <2>1 DEF Filed, CompletedReportMatchesFile
  <2>. QED
    BY <1>3, <2>1, <2>2, <2>3
<1>6. CASE RpWrite(w)
  <2>1. /\ QueueOf[w] = "report" /\ run[w].at = "file" /\ run'[w].at = "complete" /\ UNCHANGED reports
        /\ run'[w].picked = run[w].picked /\ files' = [files EXCEPT ![Of(w)] = run[w].picked]
    BY <1>6, ExportsOwn DEF RpWrite
  <2>2. reports[Of(w)].status = "processing"
    BY <2>1 DEF Filed, RunsFile
  <2>3. RunsFile(w)'
    BY <1>0, <2>1, <2>2 DEF RunsFile
  <2>4. \A q \in Requests \ {Of(w)} : files'[q] = files[q]
    BY <1>0, <2>1
  <2>. QED
    BY <1>3, <2>1, <2>2, <2>3, <2>4
<1>7. CASE RpComplete(w)
  <2>1. /\ QueueOf[w] = "report" /\ run[w].at = "complete" /\ run'[w].at = "ack" /\ UNCHANGED files
        /\ reports' = [reports EXCEPT ![Of(w)] = [status |-> "completed", size |-> run[w].picked]]
    BY <1>7, ExportsOwn DEF RpComplete
  <2>2. files[Of(w)] = run[w].picked
    BY <2>1 DEF Filed, RunsFile
  <2>3. /\ reports'[Of(w)].size = run[w].picked
        /\ \A q \in Requests \ {Of(w)} : reports'[q] = reports[q]
    BY <1>0, <2>1
  <2>4. RunsFile(w)'
    BY <2>1 DEF RunsFile
  <2>. QED
    BY <1>3, <2>1, <2>2, <2>3, <2>4
<1>8. CASE Dispatch(w)
  <2>1. QueueOf[w] = "outbox" /\ UNCHANGED <<reports, files>>
    BY <1>8, ExportsOwn DEF Dispatch
  <2>2. ASSUME NEW v \in Workers
        PROVE  RunsFile(v)'
    <3>1. CASE v = w
      BY <2>1, <3>1 DEF RunsFile
    <3>2. CASE v # w
      BY <1>1, <2>1, <3>2, FiledKept DEF Filed
    <3>. QED
      BY <3>1, <3>2
  <2>. QED
    BY <2>1, <2>2 DEF Filed, CompletedReportMatchesFile
<1>. QED
  BY <1>4, <1>5, <1>6, <1>7, <1>8 DEF ExportStep

LEMMA FiledStep == Typed /\ JobsApart /\ Filed /\ [Next]_vars => Filed'
<1>. SUFFICES ASSUME Typed, JobsApart, Filed, [Next]_vars PROVE Filed'
  OBVIOUS
<1>1. ASSUME NEW w \in Workers, Work(w) \/ Fault(w) \/ CrashWorker(w)
      PROVE  Filed'
  <2>1. CASE ExportStep(w)
    BY <2>1, ExportFiled
  <2>2. CASE ~ExportStep(w)
    <3>1. UNCHANGED <<reports, files>> /\ (QueueOf[w] = "report" => run'[w].at \in {"idle", "start"})
      <4>1. CASE SheetsStep(w)
        BY <4>1, SheetsFrame DEF SheetsStep, ShStart, ShTabs, ShFetch, ShCompare, ShError, ShLookup,
           ShUpdate, ShInsert, ShStore, ShTabDone, ShFinish, ShStamp, Rest
      <4>2. CASE SourceStep(w)
        BY <4>2 DEF SourceStep, SyStart, SyError, SyInsert, SyFinish, Kept, At
      <4>3. CASE Take(w) \/ Ack(w) \/ Fault(w) \/ CrashWorker(w)
        BY <4>3, GotoOthers, ThrowOthers DEF Take, Ack, Fault, CrashWorker, Typed, Idle
      <4>. QED
        BY <1>1, <2>2, <4>1, <4>2, <4>3 DEF Work
    <3>2. \A v \in Workers \ {w} : Same(run'[v], run[v])
      BY <1>1, WorkerOthers DEF Others
    <3>3. ASSUME NEW v \in Workers
          PROVE  RunsFile(v)'
      <4>1. CASE v = w
        BY <3>1, <4>1 DEF RunsFile
      <4>2. CASE v # w
        BY <3>1, <3>2, <4>2, FiledKept DEF Filed
      <4>. QED
        BY <4>1, <4>2
    <3>. QED
      BY <3>1, <3>3 DEF Filed, CompletedReportMatchesFile
  <2>. QED
    BY <2>1, <2>2
<1>2. CASE Requested
  <2>1. UNCHANGED files /\ \A v \in Workers : Same(run'[v], run[v])
    BY <1>2, RequestedOthers
  <2>2. UNCHANGED reports \/ \E q \in Requests : InsertRow(q)
    BY <1>2 DEF Requested, Ask, Proceed, Accept, FindSource, SetTab, DeleteInvestment, Enqueue,
       InsertEvent, EnqueueEvent, WriteSource, Discover, Edit, Elapse, CrashApi
  <2>3. CASE UNCHANGED reports
    BY <2>1, <2>3, FiledKept DEF Filed, CompletedReportMatchesFile
  <2>4. ASSUME NEW q \in Requests, InsertRow(q)
        PROVE  Filed'
    <3>1. /\ req[q].at = "insert"
          /\ UNCHANGED reports \/ reports' = [reports EXCEPT ![q].status = "pending"]
      BY <2>4 DEF InsertRow, Waits
    <3>2. /\ \A p \in Requests \ {q} : reports'[p] = reports[p]
          /\ reports'[q] = reports[q] \/ reports'[q].status = "pending"
      BY <3>1 DEF Typed, ReportsTyped, ReportRow
    <3>3. \A v \in Workers : QueueOf[v] = "report" /\ Busy(v) => Of(v) # q /\ Of(v) \in Requests
      BY <3>1, JobOwners DEF JobsApart, ServedMade, Made
    <3>4. ASSUME NEW v \in Workers
          PROVE  RunsFile(v)'
      BY <2>1, <3>2, <3>3, FiledKept DEF Filed
    <3>. QED
      BY <2>1, <3>2, <3>4 DEF Filed, CompletedReportMatchesFile
  <2>. QED
    BY <2>2, <2>3, <2>4
<1>3. CASE UNCHANGED vars
  BY <1>3 DEF vars, Filed, CompletedReportMatchesFile, RunsFile, Of
<1>. QED
  BY <1>1, <1>2, <1>3, NextSteps

(* A report that reads completed has the file that its last run wrote,     *)
(* however often its job was delivered: a run marks its report before it   *)
(* writes, no other run works on it meanwhile, and what it writes is what  *)
(* it then reports.                                                        *)
THEOREM CompletedReportsMatch == Spec => []CompletedReportMatchesFile
<1>1. Init => Filed
  BY DEF Init, Filed, CompletedReportMatchesFile, RunsFile, Idle
<1>2. Typed /\ JobsApart /\ Filed /\ [Next]_vars => Filed'
  BY FiledStep
<1>3. Filed => CompletedReportMatchesFile
  BY DEF Filed
<1>. QED
  BY <1>1, <1>2, <1>3, SyncIsTyped, JobsStayApart, PTL DEF Spec
-----------------------------------------------------------------------------
(* A job that crashes may still interrupt is put back, so that what a user *)
(* was told has started is done, or its job is there.                      *)

Pending(k, q) == \/ \E i \in DOMAIN queue[k] : queue[k][i].of = q
                 \/ \E w \in Workers : QueueOf[w] = k /\ Busy(w) /\ Of(w) = q
Spared(job) == job.stalls + may.crashes <= MaxStalledCount
Survives == /\ may.crashes <= MaxStalledCount
            /\ \A k \in Queues : \A i \in DOMAIN queue[k] : Spared(queue[k][i])
            /\ \A w \in Workers : Busy(w) => Spared(run[w].job)
EventPromised == \A q \in DOMAIN ask : Op(q) \in {"sync", "report"} /\ req[q].at = "ok" =>
                    events[q] = "dispatched" \/ Pending("outbox", q)
ReportPromised == \A q \in DOMAIN ask : Op(q) = "report" /\ req[q].at \in {"event", "eventJob", "ok"} =>
                    reports[q].status = "completed" \/ Pending("report", q)
AckKept(w) == run[w].at = "ack" =>
    /\ QueueOf[w] = "outbox" => events[Of(w)] = "dispatched"
    /\ QueueOf[w] = "report" => reports[Of(w)].status = "completed"
Promised == Survives /\ (may.failed \/ (EventPromised /\ ReportPromised /\ \A w \in Workers : AckKept(w)))

(* A job in a queue is there after a job joined it, and a job that leaves  *)
(* is the first.                                                           *)
LEMMA JoinedStay ==
    ASSUME NEW k \in Queues, NEW m \in Queues, NEW job, Joins(k, job), NEW i \in DOMAIN queue[m]
    PROVE  \E j \in DOMAIN queue'[m] : queue'[m][j] = queue[m][i]
<1>1. PICK p \in DOMAIN queue'[k], d \in {0, 1} :
        \A j \in DOMAIN queue[k] : j + d \in DOMAIN queue'[k] /\ queue'[k][j + d] = queue[k][j]
  BY DEF Joins
<1>2. CASE m = k
  <2>1. i + d \in DOMAIN queue'[m] /\ queue'[m][i + d] = queue[m][i]
    BY <1>1, <1>2
  <2>. QED
    BY <2>1
<1>3. CASE m # k
  BY <1>3 DEF Joins
<1>. QED
  BY <1>2, <1>3

(* A job stays, or is the one that the worker drops. *)
LEMMA PendingKept ==
    ASSUME NEW w \in Workers, NEW k \in Queues, NEW q, Typed, Work(w) \/ Fault(w) \/ CrashWorker(w),
           Pending(k, q), ~(Drops(w) /\ QueueOf[w] = k /\ Of(w) = q)
    PROVE  Pending(k, q)'
<1>0. \A v \in Workers \ {w} : Same(run'[v], run[v])
  BY WorkerOthers DEF Others
<1>1. QueueOf[w] \in Queues
  BY QueueOfType
<1>2. ASSUME NEW v \in Workers \ {w}, QueueOf[v] = k, Busy(v), Of(v) = q
      PROVE  Pending(k, q)'
  <2>1. Busy(v)' /\ Of(v)' = q
    BY <1>0, <1>2, OthersBusy
  <2>. QED
    BY <1>2, <2>1 DEF Pending
<1>3. CASE Keeps(w)
  <2>1. Busy(w)' /\ Of(w)' = Of(w) /\ Busy(w) /\ UNCHANGED queue
    BY <1>3 DEF Keeps, Busy, Of
  <2>. QED
    BY <1>2, <2>1 DEF Pending
<1>4. CASE Drops(w)
  <2>1. UNCHANGED queue
    BY <1>4 DEF Drops
  <2>. QED
    BY <1>2, <1>4, <2>1 DEF Pending
<1>5. CASE Takes(w)
  <2>1. /\ ~Busy(w) /\ Busy(w)' /\ Of(w)' = queue[QueueOf[w]][1].of
        /\ \A m \in Queues \ {QueueOf[w]} : queue'[m] = queue[m]
        /\ \A i \in DOMAIN queue[QueueOf[w]] \ {1} :
             i - 1 \in DOMAIN queue'[QueueOf[w]] /\ queue'[QueueOf[w]][i - 1] = queue[QueueOf[w]][i]
    BY <1>5 DEF Takes, Leaves, Busy, Of
  <2>2. ASSUME NEW i \in DOMAIN queue[k], queue[k][i].of = q
        PROVE  Pending(k, q)'
    <3>1. CASE k # QueueOf[w]
      BY <2>1, <2>2, <3>1 DEF Pending
    <3>2. CASE k = QueueOf[w] /\ i = 1
      BY <2>1, <2>2, <3>2 DEF Pending
    <3>3. CASE k = QueueOf[w] /\ i # 1
      <4>1. i - 1 \in DOMAIN queue'[k] /\ queue'[k][i - 1].of = q
        BY <2>1, <2>2, <3>3
      <4>. QED
        BY <4>1 DEF Pending
    <3>. QED
      BY <3>1, <3>2, <3>3
  <2>. QED
    BY <1>2, <2>1, <2>2 DEF Pending
<1>6. ASSUME NEW job \in JobType, PutsBack(w, job)
      PROVE  Pending(k, q)'
  <2>1. Joins(QueueOf[w], job) /\ job.of = Of(w)
    BY <1>6 DEF PutsBack
  <2>2. ASSUME NEW i \in DOMAIN queue[k], queue[k][i].of = q
        PROVE  Pending(k, q)'
    BY <1>1, <2>1, <2>2, JoinedStay DEF Pending
  <2>3. ASSUME QueueOf[w] = k, Of(w) = q
        PROVE  Pending(k, q)'
    BY <2>1, <2>3 DEF Pending, Joins
  <2>. QED
    BY <1>2, <2>2, <2>3 DEF Pending
<1>. QED
  BY <1>3, <1>4, <1>5, <1>6, WorkerJob

(* A request's step takes no job away. *)
LEMMA PendingStays ==
    ASSUME NEW k \in Queues, NEW q, Typed, Requested, Pending(k, q)
    PROVE  Pending(k, q)'
<1>1. ASSUME NEW v \in Workers, QueueOf[v] = k, Busy(v), Of(v) = q
      PROVE  Pending(k, q)'
  <2>1. Busy(v)' /\ Of(v)' = q
    BY <1>1, RequestedOthers, OthersBusy
  <2>. QED
    BY <1>1, <2>1 DEF Pending
<1>2. ASSUME NEW i \in DOMAIN queue[k], queue[k][i].of = q
      PROVE  Pending(k, q)'
  <2>1. CASE UNCHANGED queue
    BY <1>2, <2>1 DEF Pending
  <2>2. ASSUME NEW p \in Requests, NEW m \in Queues, NEW job \in JobType, Adds(p, m, job)
        PROVE  Pending(k, q)'
    BY <1>2, <2>2, JoinedStay DEF Pending, Adds
  <2>. QED
    BY <2>1, <2>2, RequestedJobs
<1>. QED
  BY <1>1, <1>2 DEF Pending
(* Crashes and faults only get fewer. *)
LEMMA MaySteps ==
    ASSUME Typed, [Next]_vars
    PROVE  /\ may.crashes \in Nat /\ may'.crashes \in Nat /\ may'.crashes <= may.crashes
           /\ may.failed => may'.failed
           /\ \A w \in Workers : CrashWorker(w) => may.crashes > 0 /\ may'.crashes = may.crashes - 1
           /\ \A w \in Workers : Fault(w) => may'.failed
<1>0. may \in [edits : Nat, crashes : Nat, faults : Nat, failed : BOOLEAN]
  BY DEF Typed, MayTyped
<1>1. \A w \in Workers : Fault(w) => may'.failed /\ may'.crashes = may.crashes
  BY <1>0 DEF Fault
<1>2. \A w \in Workers : CrashWorker(w) =>
        may.crashes > 0 /\ may'.crashes = may.crashes - 1 /\ may'.failed = may.failed
  BY <1>0 DEF CrashWorker
<1>3. ASSUME NEW w \in Workers, Work(w)
      PROVE  UNCHANGED may
  BY <1>3 DEF Work, Take, SheetsStep, ShStart, ShTabs, ShFetch, ShCompare, ShError, ShLookup, ShUpdate, ShInsert,
     ShStore, ShTabDone, ShFinish, ShStamp, Rest, SourceStep, SyStart, SyError, SyInsert, SyFinish, Kept,
     ExportStep, RpMark, RpSelect, RpWrite, RpComplete, Dispatch, Aside, Ack
<1>4. ASSUME NEW t \in Tabs, Edit(t)
      PROVE  may'.crashes = may.crashes /\ may'.failed = may.failed
  BY <1>0, <1>4 DEF Edit
<1>5. CrashApi => may.crashes > 0 /\ may'.crashes = may.crashes - 1 /\ may'.failed = may.failed
  BY <1>0 DEF CrashApi
<1>6. ASSUME (\E q \in Requests : Ask(q) \/ Proceed(q) \/ Discover(q)) \/ (\E s \in Sources : Elapse(s))
      PROVE  UNCHANGED may
  BY <1>6 DEF Ask, Proceed, Accept, FindSource, SetTab, DeleteInvestment, InsertRow, Enqueue, InsertEvent,
     EnqueueEvent, WriteSource, Discover, Elapse
<1>7. UNCHANGED vars => UNCHANGED may
  BY DEF vars
<1>8. /\ may.crashes \in Nat /\ may.failed \in BOOLEAN
      /\ \/ may'.crashes = may.crashes
         \/ may.crashes > 0 /\ may'.crashes = may.crashes - 1
      /\ may.failed => may'.failed
  BY <1>0, <1>1, <1>2, <1>3, <1>4, <1>5, <1>6, <1>7 DEF Next
<1>9. may'.crashes \in Nat /\ may'.crashes <= may.crashes
  BY <1>8
<1>. QED
  BY <1>1, <1>2, <1>8, <1>9

LEMMA SurvivesStep == Typed /\ Typed' /\ Survives /\ [Next]_vars => Survives'
<1>. SUFFICES ASSUME Typed, Typed', Survives, [Next]_vars PROVE Survives'
  OBVIOUS
<1>. DEFINE n == may.crashes
            m == may'.crashes
<1>1. n \in Nat /\ m \in Nat /\ m <= n /\ MaxStalledCount \in Nat /\ n <= MaxStalledCount
  BY MaySteps DEF Survives, MaxStalledCount
<1>. DEFINE Less(job) == job.stalls \in Nat /\ job.stalls + m <= MaxStalledCount
<1>2. \A job \in JobType : Spared(job) => Less(job)
  BY <1>1 DEF Spared, JobType
<1>4. /\ \A k \in Queues : \A i \in DOMAIN queue[k] : Less(queue[k][i])
      /\ \A w \in Workers : Busy(w) => Less(run[w].job)
  BY <1>2, JobOwners DEF Survives
<1>5. SUFFICES /\ \A k \in Queues : \A i \in DOMAIN queue'[k] : Less(queue'[k][i])
               /\ \A w \in Workers : Busy(w)' => Less(run'[w].job)
  <2>1. may'.crashes <= MaxStalledCount
    BY <1>1
  <2>2. /\ \A k \in Queues : \A i \in DOMAIN queue'[k] : Less(queue'[k][i])
        /\ \A w \in Workers : Busy(w)' => Less(run'[w].job)
    BY <1>5
  <2>. QED
    BY <2>1, <2>2 DEF Survives, Spared
<1>. DEFINE Fine == /\ \A k \in Queues : \A i \in DOMAIN queue'[k] : Less(queue'[k][i])
                    /\ \A w \in Workers : Busy(w)' => Less(run'[w].job)
<1>6. ASSUME NEW k \in Queues, NEW job, Joins(k, job), Less(job)
      PROVE  \A l \in Queues : \A i \in DOMAIN queue'[l] : Less(queue'[l][i])
  <2>1. \A i \in DOMAIN queue'[k] : queue'[k][i] = job \/ \E j \in DOMAIN queue[k] : queue'[k][i] = queue[k][j]
    BY <1>6 DEF Joins
  <2>2. \A l \in Queues \ {k} : queue'[l] = queue[l]
    BY <1>6 DEF Joins
  <2>. HIDE DEF Less
  <2>. QED
    BY <1>4, <1>6, <2>1, <2>2
<1>7. ASSUME NEW w \in Workers, Work(w) \/ Fault(w) \/ CrashWorker(w)
      PROVE  Fine
  <2>0. QueueOf[w] \in Queues
    BY QueueOfType
  <2>1. \A v \in Workers \ {w} : Busy(v)' => Less(run'[v].job)
    <3>1. \A v \in Workers \ {w} : Same(run'[v], run[v])
      BY <1>7, WorkerOthers DEF Others
    <3>2. \A v \in Workers \ {w} : Busy(v)' => Busy(v) /\ run'[v].job = run[v].job
      BY <3>1, OthersBusy
    <3>. HIDE DEF Less
    <3>. QED
      BY <1>4, <3>2
  <2>2. CASE Keeps(w)
    <3>. HIDE DEF Less
    <3>. QED
      BY <1>4, <2>1, <2>2 DEF Keeps
  <2>3. CASE Drops(w)
    <3>1. ~Busy(w)' /\ UNCHANGED queue
      BY <2>3 DEF Drops, Busy, Idle
    <3>. HIDE DEF Less
    <3>. QED
      BY <1>4, <2>1, <3>1
  <2>4. CASE Takes(w)
    <3>. HIDE DEF Less
    <3>. QED
      BY <1>4, <2>0, <2>1, <2>4 DEF Takes, Leaves
  <2>5. ASSUME NEW job \in JobType, PutsBack(w, job)
        PROVE  Fine
    <3>1. Busy(w) /\ ~Busy(w)' /\ Joins(QueueOf[w], job)
      BY <2>5 DEF PutsBack, Busy, Idle
    <3>2. Less(job)
      <4>1. CASE job.stalls = run[w].job.stalls
        BY <1>4, <3>1, <4>1
      <4>2. CASE job.stalls = run[w].job.stalls + 1 /\ CrashWorker(w)
        <5>1. n > 0 /\ m = n - 1
          BY <4>2, MaySteps
        <5>2. run[w].job \in JobType /\ run[w].job.stalls + n <= MaxStalledCount
          BY <3>1, JobOwners DEF Survives, Spared
        <5>3. run[w].job.stalls \in Nat
          BY <5>2 DEF JobType
        <5>. QED
          BY <1>1, <4>2, <5>1, <5>2, <5>3
      <4>. QED
        BY <2>5, <4>1, <4>2 DEF PutsBack
    <3>. HIDE DEF Less
    <3>. QED
      BY <1>6, <2>0, <2>1, <3>1, <3>2
  <2>. QED
    BY <1>7, <2>2, <2>3, <2>4, <2>5, WorkerJob
<1>8. CASE Requested
  <2>1. \A v \in Workers : Busy(v)' => Busy(v) /\ run'[v].job = run[v].job
    BY <1>8, RequestedOthers, OthersBusy
  <2>2. ASSUME NEW q \in Requests, NEW k \in Queues, NEW job \in JobType, Adds(q, k, job)
        PROVE  Joins(k, job) /\ Less(job)
    BY <1>1, <2>2 DEF Adds
  <2>. HIDE DEF Less
  <2>. QED
    BY <1>4, <1>6, <1>8, <2>1, <2>2, RequestedJobs
<1>9. CASE UNCHANGED vars
  <2>1. UNCHANGED <<queue, run>>
    BY <1>9 DEF vars
  <2>. HIDE DEF Less
  <2>. QED
    BY <1>4, <2>1 DEF Busy
<1>. QED
  BY <1>7, <1>8, <1>9, NextSteps

(* A worker of the reports or of the outbox gives a job up only when it is *)
(* done with it, or a statement failed.                                    *)
LEMMA GivenUp ==
    ASSUME NEW w \in Workers, Typed, Typed', Survives, Work(w) \/ Fault(w) \/ CrashWorker(w), Drops(w),
           QueueOf[w] \in {"report", "outbox"}
    PROVE  run[w].at = "ack" \/ may'.failed
<1>1. ~SheetsStep(w) /\ ~SourceStep(w)
  BY SheetsFrame DEF SourceStep, SyStart, SyError, SyInsert, SyFinish, At
<1>2. ~ExportStep(w) /\ ~Take(w)
  BY ExportsOwn DEF Keeps, Drops, Idle, Take, Busy
<1>3. CASE Ack(w)
  BY <1>3 DEF Ack
<1>4. CASE Fault(w)
  <2>1. [Next]_vars
    BY <1>4 DEF Next
  <2>. QED
    BY <1>4, <2>1, MaySteps
<1>5. CASE CrashWorker(w)
  <2>1. Busy(w) /\ UNCHANGED queue
    BY DEF Drops
  <2>2. run[w].job \in JobType /\ Spared(run[w].job)
    BY <2>1, JobOwners DEF Survives
  <2>3. may.crashes > 0 /\ may.crashes \in Nat
    BY <1>5 DEF CrashWorker, Typed, MayTyped
  <2>4. run[w].job.stalls < MaxStalledCount
    BY <2>2, <2>3 DEF Spared, JobType, MaxStalledCount
  <2>5. PICK job : job = [run[w].job EXCEPT !.stalls = run[w].job.stalls + 1]
    OBVIOUS
  <2>6. queue[QueueOf[w]] \in Seq(JobType) /\ queue'[QueueOf[w]] = <<job>> \o queue[QueueOf[w]]
    BY <1>5, <2>4, <2>5, QueueOfType DEF CrashWorker, Typed, QueueTyped
  <2>7. queue[QueueOf[w]] = <<job>> \o queue[QueueOf[w]] /\ job \in JobType
    BY <2>1, <2>2, <2>5, <2>6 DEF JobType
  <2>8. <<job>> \in Seq(JobType) /\ Len(<<job>>) = 1
    BY <2>7
  <2>9. Len(queue[QueueOf[w]]) = 1 + Len(queue[QueueOf[w]]) /\ Len(queue[QueueOf[w]]) \in Nat
    BY <2>6, <2>7, <2>8, ConcatProperties, LenProperties
  <2>. QED
    BY <2>9
<1>. QED
  BY <1>1, <1>2, <1>3, <1>4, <1>5 DEF Work
(* What a worker's step makes of events and reports. *)
LEMMA AnswersWritten ==
    ASSUME NEW w \in Workers, Typed, Work(w) \/ Fault(w) \/ CrashWorker(w)
    PROVE  /\ \A q \in Requests : events[q] = "dispatched" => events'[q] = "dispatched"
           /\ \A q \in Requests : reports'[q].status = reports[q].status
                                  \/ (q = Of(w) /\ QueueOf[w] = "report" /\ Busy(w) /\ Keeps(w))
           /\ QueueOf[w] = "outbox" /\ run'[w].at = "ack" => events'[Of(w)] = "dispatched"
           /\ QueueOf[w] = "report" /\ run'[w].at = "ack" => reports'[Of(w)].status = "completed"
<1>0. /\ events \in [Requests -> {"none", "pending", "dispatched"}] /\ reports \in [Requests -> ReportRow]
      /\ Busy(w) => Of(w) \in Requests
  BY JobOwners DEF Typed, ReportsTyped
<1>1. CASE ExportStep(w)
  <2>1. Keeps(w) /\ Busy(w)
    BY <1>1, ExportsOwn DEF Keeps
  <2>2. CASE RpMark(w)
    <3>1. /\ QueueOf[w] = "report" /\ run'[w].at = "select" /\ UNCHANGED events
          /\ reports' = [reports EXCEPT ![Of(w)] = Marked(reports[Of(w)])]
      BY <1>1, <2>2, ExportsOwn DEF RpMark
    <3>. QED
      BY <1>0, <2>1, <3>1
  <2>3. CASE RpSelect(w) \/ RpWrite(w)
    BY <1>1, <2>3, ExportsOwn DEF RpSelect, RpWrite
  <2>4. CASE RpComplete(w)
    <3>1. /\ QueueOf[w] = "report" /\ UNCHANGED events
          /\ reports' = [reports EXCEPT ![Of(w)] = [status |-> "completed", size |-> run[w].picked]]
      BY <1>1, <2>4, ExportsOwn DEF RpComplete
    <3>. QED
      BY <1>0, <2>1, <3>1
  <2>5. CASE Dispatch(w)
    <3>1. QueueOf[w] = "outbox" /\ UNCHANGED reports /\ events' = [events EXCEPT ![Of(w)] = "dispatched"]
      BY <1>1, <2>5, ExportsOwn DEF Dispatch
    <3>. QED
      BY <1>0, <2>1, <3>1
  <2>. QED
    BY <1>1, <2>2, <2>3, <2>4, <2>5 DEF ExportStep
<1>2. CASE SheetsStep(w)
  BY <1>2, SheetsFrame DEF SheetsStep, ShStart, ShTabs, ShFetch, ShCompare, ShError, ShLookup,
     ShUpdate, ShInsert, ShStore, ShTabDone, ShFinish, ShStamp, Rest
<1>3. CASE SourceStep(w)
  BY <1>3 DEF SourceStep, SyStart, SyError, SyInsert, SyFinish, Kept, At
<1>4. CASE Take(w) \/ Ack(w) \/ Fault(w) \/ CrashWorker(w)
  <2>1. UNCHANGED <<events, reports>> /\ run'[w].at \in {"idle", "start"}
    BY <1>4, GotoOthers, ThrowOthers DEF Take, Ack, Fault, CrashWorker, Typed, Idle
  <2>. QED
    BY <2>1
<1>. QED
  BY <1>1, <1>2, <1>3, <1>4 DEF Work

LEMMA WorkerPromises ==
    ASSUME NEW w \in Workers, Typed, Typed', JobsApart, Promised, Work(w) \/ Fault(w) \/ CrashWorker(w)
    PROVE  Promised'
<1>0. Survives' /\ (may.failed => may'.failed)
  <2>1. [Next]_vars
    BY DEF Next
  <2>. QED
    BY <2>1, SurvivesStep, MaySteps DEF Promised
<1>1. CASE may'.failed
  BY <1>0, <1>1 DEF Promised
<1>2. CASE ~may'.failed
  <2>0. /\ EventPromised /\ ReportPromised /\ \A v \in Workers : AckKept(v)
        /\ UNCHANGED req /\ ask' = ask /\ \A v \in Workers \ {w} : Same(run'[v], run[v])
        /\ DOMAIN ask \subseteq Requests
    BY <1>0, <1>2, WorkerJob, WorkerOthers DEF Promised, Others, Typed, AskTyped
  <2>1. Drops(w) /\ QueueOf[w] \in {"report", "outbox"} => run[w].at = "ack"
    BY <1>2, GivenUp DEF Promised
  <2>2. "outbox" \in Queues /\ "report" \in Queues
    BY DEF Queues
  <2>3. ASSUME NEW q \in DOMAIN ask, Op(q) \in {"sync", "report"}, req[q].at = "ok"
        PROVE  events'[q] = "dispatched" \/ Pending("outbox", q)'
    <3>1. CASE events[q] = "dispatched"
      BY <2>0, <3>1, AnswersWritten
    <3>2. CASE Pending("outbox", q) /\ Drops(w) /\ QueueOf[w] = "outbox" /\ Of(w) = q
      <4>1. events[q] = "dispatched"
        BY <2>0, <2>1, <3>2 DEF AckKept
      <4>. QED
        BY <2>0, <4>1, AnswersWritten
    <3>3. CASE Pending("outbox", q) /\ ~(Drops(w) /\ QueueOf[w] = "outbox" /\ Of(w) = q)
      BY <2>2, <3>3, PendingKept
    <3>. QED
      BY <2>0, <2>3, <3>1, <3>2, <3>3 DEF EventPromised
  <2>4. ASSUME NEW q \in DOMAIN ask, Op(q) = "report", req[q].at \in {"event", "eventJob", "ok"}
        PROVE  reports'[q].status = "completed" \/ Pending("report", q)'
    <3>1. CASE q = Of(w) /\ QueueOf[w] = "report" /\ Busy(w) /\ Keeps(w)
      <4>1. Busy(w)' /\ Of(w)' = q
        BY <3>1 DEF Keeps, Busy, Of
      <4>. QED
        BY <3>1, <4>1 DEF Pending
    <3>2. CASE ~(q = Of(w) /\ QueueOf[w] = "report" /\ Busy(w) /\ Keeps(w))
      <4>0. reports'[q].status = reports[q].status
        BY <2>0, <3>2, AnswersWritten
      <4>1. CASE reports[q].status = "completed"
        BY <4>0, <4>1
      <4>2. CASE Pending("report", q) /\ Drops(w) /\ QueueOf[w] = "report" /\ Of(w) = q
        BY <2>0, <2>1, <4>0, <4>2 DEF AckKept
      <4>3. CASE Pending("report", q) /\ ~(Drops(w) /\ QueueOf[w] = "report" /\ Of(w) = q)
        BY <2>2, <4>3, PendingKept
      <4>. QED
        BY <2>0, <2>4, <4>1, <4>2, <4>3 DEF ReportPromised
    <3>. QED
      BY <3>1, <3>2
  <2>5. EventPromised'
    BY <2>0, <2>3 DEF EventPromised, Op
  <2>6. ReportPromised'
    BY <2>0, <2>4 DEF ReportPromised, Op
  <2>7. AckKept(w)'
    <3>1. CASE Keeps(w)
      <4>1. Of(w)' = Of(w)
        BY <3>1 DEF Keeps, Of
      <4>. QED
        BY <4>1, AnswersWritten DEF AckKept
    <3>2. CASE ~Keeps(w)
      <4>1. run'[w].at # "ack"
        BY <3>2, WorkerJob DEF Takes, Drops, PutsBack, Idle
      <4>. QED
        BY <4>1 DEF AckKept
    <3>. QED
      BY <3>1, <3>2
  <2>8. ASSUME NEW v \in Workers \ {w}
        PROVE  AckKept(v)'
    <3>1. RunOK(ask, v, run[v]) /\ Same(run'[v], run[v])
      BY <2>0 DEF Typed, RunTyped
    <3>2. run'[v].at = run[v].at
      BY <3>1, SameRun
    <3>3. CASE run[v].at = "ack"
      <4>1. Busy(v) /\ Of(v) \in Requests /\ Of(v)' = Of(v)
        BY <3>1, <3>3, OthersBusy, JobOwners DEF Busy
      <4>2. QueueOf[v] = "report" /\ QueueOf[w] = "report" /\ Busy(w) => Of(v) # Of(w)
        BY <4>1 DEF JobsApart, ServedApart
      <4>3. AckKept(v)
        BY <2>0
      <4>. QED
        BY <3>2, <3>3, <4>1, <4>2, <4>3, AnswersWritten DEF AckKept
    <3>4. CASE run[v].at # "ack"
      BY <3>2, <3>4 DEF AckKept
    <3>. QED
      BY <3>3, <3>4
  <2>. QED
    BY <1>0, <2>5, <2>6, <2>7, <2>8 DEF Promised
<1>. QED
  BY <1>1, <1>2

(* What a request's step makes of events, reports and its own progress. *)
LEMMA AnswersAsked ==
    ASSUME Typed, Requested
    PROVE  /\ \A q \in Requests : events'[q] = events[q] \/ req[q].at = "event"
           /\ \A q \in Requests : reports'[q].status = reports[q].status \/ req[q].at = "insert"
           /\ \A q \in Requests : Op(q) \in {"sync", "report"} /\ req'[q].at = "ok" =>
                req[q].at = "ok" \/ EnqueueEvent(q)
           /\ \A q \in Requests : Op(q) = "report" /\ req'[q].at \in {"event", "eventJob", "ok"} =>
                req[q].at \in {"event", "eventJob", "ok"} \/ Enqueue(q)
<1>0. /\ events \in [Requests -> {"none", "pending", "dispatched"}] /\ reports \in [Requests -> ReportRow]
      /\ ReqTyped
  BY DEF Typed, ReportsTyped
<1>. DEFINE Told(q) == Op(q) \in {"sync", "report"} /\ req'[q].at = "ok" => req[q].at = "ok" \/ EnqueueEvent(q)
            Filing(q) == Op(q) = "report" /\ req'[q].at \in {"event", "eventJob", "ok"} =>
                           req[q].at \in {"event", "eventJob", "ok"} \/ Enqueue(q)
<1>1. ASSUME NEW q \in Requests, Ask(q) \/ Proceed(q) \/ Discover(q)
      PROVE  Told(q) /\ Filing(q)
  <2>1. CASE Accept(q)
    <3>1. PICK step \in {"insert", "refused"} : step = IF Wanted(q) THEN "insert" ELSE "refused"
      BY Zenon
    <3>2. Move(q, step)
      BY <2>1, <3>1 DEF Accept
    <3>. QED
      BY <1>0, <3>2, MovedReq
  <2>2. CASE FindSource(q)
    <3>1. req' = [req EXCEPT ![q] = [at |-> "write", row |-> sources[ask[q].source]]]
      BY <2>2 DEF FindSource
    <3>. QED
      BY <1>0, <3>1 DEF ReqTyped
  <2>3. CASE SetTab(q) \/ DeleteInvestment(q) \/ Discover(q)
    BY <2>3 DEF SetTab, DeleteInvestment, Discover
  <2>4. CASE InsertRow(q)
    BY <1>0, <2>4, MovedReq DEF InsertRow
  <2>5. CASE Enqueue(q)
    BY <2>5, EnqueueAdds
  <2>6. CASE InsertEvent(q)
    BY <1>0, <2>6, MovedReq DEF InsertEvent, Waits
  <2>7. CASE EnqueueEvent(q)
    BY <2>7, EventAdds
  <2>8. CASE WriteSource(q)
    BY <1>0, <2>8 DEF WriteSource, Waits, ReqTyped, ReqOK, Op
  <2>. QED
    BY <1>1, <2>1, <2>2, <2>3, <2>4, <2>5, <2>6, <2>7, <2>8 DEF Ask, Proceed
<1>2. ASSUME NEW p \in Requests, Ask(p) \/ Proceed(p) \/ Discover(p)
      PROVE  \A q \in Requests : Told(q) /\ Filing(q)
  BY <1>1, <1>2, RequestOn
<1>3. ASSUME CrashApi
      PROVE  \A q \in Requests : Told(q) /\ Filing(q)
  <2>1. PICK lost : req' = [q \in Requests |-> IF q \in lost THEN [at |-> "lost"] ELSE req[q]]
    BY <1>3 DEF CrashApi
  <2>. QED
    BY <2>1
<1>4. ASSUME (\E t \in Tabs : Edit(t)) \/ (\E s \in Sources : Elapse(s))
      PROVE  \A q \in Requests : Told(q) /\ Filing(q)
  BY <1>4 DEF Edit, Elapse
<1>5. \A q \in Requests : events'[q] = events[q] \/ req[q].at = "event"
  <2>1. UNCHANGED events \/ \E q \in Requests : InsertEvent(q)
    BY DEF Requested, Ask, Proceed, Accept, FindSource, SetTab, DeleteInvestment, Enqueue, InsertRow,
       EnqueueEvent, WriteSource, Discover, Edit, Elapse, CrashApi
  <2>2. ASSUME NEW q \in Requests, InsertEvent(q)
        PROVE  req[q].at = "event" /\ events' = [events EXCEPT ![q] = "pending"]
    BY <2>2 DEF InsertEvent, Waits
  <2>. QED
    BY <1>0, <2>1, <2>2
<1>6. \A q \in Requests : reports'[q].status = reports[q].status \/ req[q].at = "insert"
  <2>1. UNCHANGED reports \/ \E q \in Requests : InsertRow(q)
    BY DEF Requested, Ask, Proceed, Accept, FindSource, SetTab, DeleteInvestment, Enqueue,
       InsertEvent, EnqueueEvent, WriteSource, Discover, Edit, Elapse, CrashApi
  <2>2. ASSUME NEW q \in Requests, InsertRow(q)
        PROVE  /\ req[q].at = "insert"
               /\ UNCHANGED reports \/ reports' = [reports EXCEPT ![q].status = "pending"]
    BY <2>2 DEF InsertRow, Waits
  <2>. QED
    BY <1>0, <2>1, <2>2
<1>. QED
  BY <1>2, <1>3, <1>4, <1>5, <1>6 DEF Requested

LEMMA RequestPromises ==
    ASSUME Typed, Typed', JobsApart, Promised, Requested
    PROVE  Promised'
<1>0. Survives' /\ (may.failed => may'.failed)
  <2>1. [Next]_vars
    BY NextSteps
  <2>. QED
    BY <2>1, SurvivesStep, MaySteps DEF Promised
<1>1. CASE may'.failed
  BY <1>0, <1>1 DEF Promised
<1>2. CASE ~may'.failed
  <2>0. /\ EventPromised /\ ReportPromised /\ \A v \in Workers : AckKept(v)
        /\ ask' = ask /\ \A v \in Workers : Same(run'[v], run[v])
        /\ DOMAIN ask \subseteq Requests
    BY <1>0, <1>2, RequestedOthers DEF Promised, Typed, AskTyped
  <2>1. "outbox" \in Queues /\ "report" \in Queues
    BY DEF Queues
  <2>2. ASSUME NEW q \in Requests, NEW k \in Queues, NEW job \in JobType, Adds(q, k, job)
        PROVE  Pending(k, q)'
    BY <2>2 DEF Adds, Joins, Pending
  <2>3. ASSUME NEW q \in DOMAIN ask, Op(q) \in {"sync", "report"}, req'[q].at = "ok"
        PROVE  events'[q] = "dispatched" \/ Pending("outbox", q)'
    <3>1. CASE EnqueueEvent(q)
      BY <2>0, <2>1, <2>2, <3>1, EventAdds
    <3>2. CASE req[q].at = "ok" /\ events[q] = "dispatched"
      BY <2>0, <3>2, AnswersAsked
    <3>3. CASE req[q].at = "ok" /\ Pending("outbox", q)
      BY <2>1, <3>3, PendingStays
    <3>. QED
      BY <2>0, <2>3, <3>1, <3>2, <3>3, AnswersAsked DEF EventPromised
  <2>4. ASSUME NEW q \in DOMAIN ask, Op(q) = "report", req'[q].at \in {"event", "eventJob", "ok"}
        PROVE  reports'[q].status = "completed" \/ Pending("report", q)'
    <3>1. CASE Enqueue(q)
      <4>1. \E job \in JobType : Adds(q, "report", job)
        BY <2>0, <2>4, <3>1, EnqueueAdds
      <4>. QED
        BY <2>0, <2>1, <2>2, <4>1
    <3>2. CASE req[q].at \in {"event", "eventJob", "ok"} /\ reports[q].status = "completed"
      BY <2>0, <3>2, AnswersAsked
    <3>3. CASE req[q].at \in {"event", "eventJob", "ok"} /\ Pending("report", q)
      BY <2>1, <3>3, PendingStays
    <3>. QED
      BY <2>0, <2>4, <3>1, <3>2, <3>3, AnswersAsked DEF ReportPromised
  <2>5. EventPromised'
    BY <2>0, <2>3 DEF EventPromised, Op
  <2>6. ReportPromised'
    BY <2>0, <2>4 DEF ReportPromised, Op
  <2>7. ASSUME NEW v \in Workers
        PROVE  AckKept(v)'
    <3>1. RunOK(ask, v, run[v]) /\ Same(run'[v], run[v])
      BY <2>0 DEF Typed, RunTyped
    <3>2. run'[v].at = run[v].at
      BY <3>1, SameRun
    <3>3. CASE run[v].at = "ack"
      <4>1. Busy(v) /\ Of(v) \in Requests /\ Of(v)' = Of(v)
        BY <3>1, <3>3, OthersBusy, JobOwners DEF Busy
      <4>2. /\ QueueOf[v] = "outbox" => req[Of(v)].at # "event"
            /\ QueueOf[v] = "report" => req[Of(v)].at # "insert"
        BY <4>1 DEF JobsApart, ServedMade, Made
      <4>3. AckKept(v)
        BY <2>0
      <4>. QED
        BY <3>2, <3>3, <4>1, <4>2, <4>3, AnswersAsked DEF AckKept
    <3>4. CASE run[v].at # "ack"
      BY <3>2, <3>4 DEF AckKept
    <3>. QED
      BY <3>3, <3>4
  <2>. QED
    BY <1>0, <2>5, <2>6, <2>7 DEF Promised
<1>. QED
  BY <1>1, <1>2

LEMMA PromisedStep == Typed /\ Typed' /\ JobsApart /\ Promised /\ [Next]_vars => Promised'
<1>1. ASSUME Promised, UNCHANGED vars
      PROVE  Promised'
  BY <1>1 DEF vars, Promised, Survives, Spared, EventPromised, ReportPromised, AckKept, Pending, Busy, Of, Op
<1>. QED
  BY <1>1, WorkerPromises, RequestPromises, NextSteps

(* No job that waits at first was tried or interrupted. *)
LEMMA FirstJobs ==
    ASSUME Init
    PROVE  \A k \in Queues : \A i \in DOMAIN queue[k] : queue[k][i].tries = 0 /\ queue[k][i].stalls = 0
<1>1. PICK s \in Scenarios : queue = [k \in Queues |-> IF k = "sheets" THEN Jobs(s.begun) ELSE <<>>]
  BY DEF Init
<1>2. IsFiniteSet(s.begun)
  BY ScenarioAssumption
<1>. DEFINE J == {Job(q, "admin") : q \in s.begun}
<1>3. IsFiniteSet(J)
  <2>. DEFINE f == [q \in s.begun |-> Job(q, "admin")]
  <2>1. f \in Surjection(s.begun, J)
    BY DEF Surjection
  <2>. HIDE DEF f, J
  <2>. QED
    BY <1>2, <2>1, FS_Surjection
<1>4. \A job \in J : job.tries = 0 /\ job.stalls = 0
  BY DEF Job
<1>. HIDE DEF J
<1>5. \E n \in Nat : SetToSeq(J) \in [1 .. n -> J]
  BY <1>3, Listed
<1>6. queue["sheets"] = SetToSeq(J) /\ \A k \in Queues \ {"sheets"} : queue[k] = <<>>
  BY <1>1 DEF Jobs, Queues, J
<1>7. \A k \in Queues \ {"sheets"} : DOMAIN queue[k] = {}
  BY <1>6, EmptySeq, LenProperties
<1>. QED
  BY <1>4, <1>5, <1>6, <1>7

(* What a user was told has started is done at rest, when no start allows  *)
(* more crashes than BullMQ puts one job back: with more, the job of a     *)
(* report or of an event can be given up and nobody makes it again.        *)
THEOREM AnswersAreKept ==
    ASSUME \A s \in Scenarios : s.may.crashes <= MaxStalledCount
    PROVE  Spec => []AnsweredIsDone
<1>1. Init => Promised
  <2>. SUFFICES ASSUME Init PROVE Promised
    OBVIOUS
  <2>1. PICK s \in Scenarios :
          /\ ask = s.ask /\ may = s.may
          /\ events = [q \in Requests |-> IF q \in s.begun THEN "dispatched" ELSE "none"]
          /\ req = [q \in Requests |-> [at |-> IF q \in s.begun THEN "ok" ELSE "waiting"]]
    BY DEF Init
  <2>2. /\ DOMAIN s.ask \subseteq Requests /\ \A q \in s.begun : s.ask[q].op = "sync"
        /\ may.crashes \in Nat /\ may.crashes <= MaxStalledCount
    BY <2>1, ScenarioAssumption
  <2>3. \A w \in Workers : run[w].at = "idle"
    BY DEF Init, Idle
  <2>4. Survives
    BY <2>2, <2>3, FirstJobs DEF Survives, Spared, Busy
  <2>5. EventPromised /\ ReportPromised
    BY <2>1, <2>2 DEF EventPromised, ReportPromised, Op
  <2>. QED
    BY <2>3, <2>4, <2>5 DEF Promised, AckKept
<1>2. Typed /\ Typed' /\ JobsApart /\ Promised /\ [Next]_vars => Promised'
  BY PromisedStep
<1>3. Typed /\ Promised => AnsweredIsDone
  <2>. SUFFICES ASSUME Typed, Promised, AtRest, ~may.failed
                PROVE  \A q \in DOMAIN ask : req[q].at = "ok" /\ Op(q) \in {"sync", "report"} =>
                         events[q] = "dispatched" /\ (Op(q) = "report" => reports[q].status = "completed")
    BY DEF AnsweredIsDone
  <2>1. \A k \in Queues : DOMAIN queue[k] = {}
    BY EmptySeq, LenProperties DEF AtRest
  <2>2. \A k \in Queues, q \in Requests : ~Pending(k, q)
    BY <2>1 DEF Pending, AtRest, Busy
  <2>3. "outbox" \in Queues /\ "report" \in Queues
    BY DEF Queues
  <2>. QED
    BY <2>2, <2>3 DEF Promised, EventPromised, ReportPromised, Typed, AskTyped
<1>. QED
  BY <1>1, <1>2, <1>3, SyncIsTyped, JobsStayApart, PTL DEF Spec
-----------------------------------------------------------------------------
(* Each attempt gives its records ids of its own: no attempt of a job      *)
(* posts a line again that it has passed, and attempts grow older.         *)

SyncQueues == {"sheets", "sync"}
Age(job) == job.tries + job.stalls
Behind(k, x, r) ==
    IF k = "sync" THEN r.at # "start" /\ (r.at = "row" => x.line < r.line)
    ELSE /\ r.at \notin {"start", "tabs"}
         /\ r.at = "fetch" => x.origin \notin r.left
         /\ r.at \in OnRow \cup {"tabDone"} =>
              /\ x.origin \notin r.left
              /\ x.origin = r.tab => x.line < r.line \/ (x.line = r.line /\ r.at = "sum")
PassedIn(x, job) == job.of = x.batch => Age(x.job) < Age(job)
PassedBy(x, w) == Busy(w) /\ Of(w) = x.batch =>
    Age(x.job) < Age(run[w].job) \/ (x.job = run[w].job /\ Behind(QueueOf[w], x, run[w]))
Known(x) ==
    /\ x \in IdType /\ Made("sheets", req[x.batch].at)
    /\ \A k \in SyncQueues : \A i \in DOMAIN queue[k] : PassedIn(x, queue[k][i])
    /\ \A w \in Workers : QueueOf[w] \in SyncQueues => PassedBy(x, w)

(* The next line is a later one. *)
LEMMA LaterLine ==
    ASSUME NEW w \in Workers, Typed, QueueOf[w] = "sheets", run[w].at \in OnRow,
           SameTab(run'[w], run[w]), NextLine(run'[w], run[w].line)
    PROVE  /\ run[w].line \in Nat /\ run'[w].line \in Nat /\ run[w].line < run'[w].line
           /\ run'[w].line <= Len(run[w].rows) + 1 /\ Len(run[w].rows) \in Nat
           /\ \A j \in run[w].line + 1 .. run'[w].line - 1 : run[w].rows[j].kind = "blank"
<1>1. run[w] \in Lines /\ OnTab(ask, run[w])
  BY RowRun DEF Typed
<1>2. run[w].rows \in Seq(Row) /\ run[w].line \in Nat /\ Len(run[w].rows) \in Nat /\ run[w].line <= Len(run[w].rows)
  BY <1>1, LenProperties DEF Lines, OnTab
<1>3. run'[w].line = After(run[w].rows, run[w].line)
  BY DEF SameTab, NextLine
<1>4. /\ run'[w].line \in run[w].line + 1 .. Len(run[w].rows) + 1
      /\ \A j \in run[w].line + 1 .. run'[w].line - 1 : run[w].rows[j].kind = "blank"
  BY <1>2, <1>3, AfterLine
<1>. DEFINE i == run[w].line
            j == run'[w].line
            n == Len(run[w].rows)
<1>5. i \in Nat /\ n \in Nat /\ j \in i + 1 .. n + 1
  BY <1>2, <1>4
<1>. HIDE DEF i, j, n
<1>6. j \in Nat /\ i < j /\ j <= n + 1
  BY <1>5
<1>. QED
  BY <1>2, <1>4, <1>6 DEF i, j, n

(* A line that a run has passed stays behind it. *)
LEMMA SheetsBehind ==
    ASSUME NEW w \in Workers, Typed, SheetsStep(w), Keeps(w), NEW x, x.line \in Nat,
           Behind("sheets", x, run[w])
    PROVE  Behind("sheets", x, run'[w])
<1>1. CASE ShStart(w) \/ ShTabs(w)
  BY <1>1, StartOwn, TabsOwn DEF Behind
<1>2. CASE ShFetch(w)
  BY <1>2, FetchOwn DEF Behind, NextLine
<1>3. CASE ShCompare(w) \/ ShLookup(w) \/ ShTabDone(w)
  BY <1>3, CompareOwn, LookupOwn, TabDoneOwn DEF Behind, SameRow, SameTab, OnRow
<1>4. CASE ShUpdate(w) \/ ShInsert(w)
  <2>1. SameRow(run'[w], run[w]) /\ run'[w].at = "sum" /\ run[w].at = "post"
    BY <1>4, PostOwn DEF Keeps, Idle
  <2>. QED
    BY <2>1 DEF Behind, SameRow, SameTab, OnRow
<1>5. CASE ShError(w) \/ ShStore(w)
  <2>1. /\ SameTab(run'[w], run[w]) /\ NextLine(run'[w], run[w].line) /\ QueueOf[w] = "sheets"
        /\ run[w].at \in {"error", "sum"}
    BY <1>5, ErrorOwn, StoreOwn DEF Keeps, Idle
  <2>2. run[w].line \in Nat /\ run'[w].line \in Nat /\ run[w].line < run'[w].line
    BY <2>1, LaterLine DEF OnRow
  <2>3. run'[w].at \in {"row", "tabDone"}
    BY <2>1 DEF NextLine
  <2>4. /\ x.origin \notin run[w].left
        /\ x.origin = run[w].tab => x.line < run[w].line \/ x.line = run[w].line
    BY <2>1 DEF Behind, OnRow
  <2>5. /\ x.origin \notin run'[w].left
        /\ x.origin = run'[w].tab => x.line < run'[w].line
    BY <2>1, <2>2, <2>4 DEF SameTab
  <2>. QED
    BY <2>3, <2>5 DEF Behind
<1>6. CASE ShFinish(w) \/ ShStamp(w)
  BY <1>6, LastOwn DEF Behind, OnRow
<1>. QED
  BY <1>1, <1>2, <1>3, <1>4, <1>5, <1>6 DEF SheetsStep

LEMMA SourceBehind ==
    ASSUME NEW w \in Workers, Typed, SourceStep(w), Keeps(w), NEW x, x.line \in Nat,
           Behind("sync", x, run[w])
    PROVE  Behind("sync", x, run'[w])
<1>1. ~SyStart(w)
  BY PostsOwn DEF Behind
<1>2. CASE SyError(w) \/ SyInsert(w)
  <2>0. run'[w] # Idle
    BY DEF Keeps, Idle
  <2>1. QueueOf[w] = "sync" /\ run[w].at = "row" /\ run'[w].at = "row" /\ run'[w].line = run[w].line + 1
    <3>1. CASE SyError(w)
      BY <3>1, PostsOwn
    <3>2. CASE SyInsert(w)
      BY <2>0, <3>2, PostsOwn
    <3>. QED
      BY <1>2, <3>1, <3>2
  <2>2. run[w].line \in Nat
    BY <2>1, PostRun DEF Typed, Posts
  <2>. QED
    BY <2>1, <2>2 DEF Behind
<1>3. CASE SyFinish(w)
  BY <1>3, PostsOwn DEF Behind
<1>. QED
  BY <1>1, <1>2, <1>3 DEF SourceStep

(* Ages are numbers. *)
LEMMA Ages ==
    ASSUME Typed
    PROVE  /\ \A x \in IdType : Age(x.job) \in Nat /\ x.line \in Nat /\ x.batch \in Requests
           /\ \A job \in JobType : Age(job) \in Nat
           /\ \A w \in Workers : Busy(w) => Age(run[w].job) \in Nat
           /\ \A k \in Queues : \A i \in DOMAIN queue[k] : Age(queue[k][i]) \in Nat
  BY JobOwners DEF Age, IdType, JobType

(* An id stays known. *)
LEMMA KnownKept == ASSUME Typed, Typed', [Next]_vars, NEW x, Known(x) PROVE Known(x)'
<1>0. x \in IdType /\ x.line \in Nat /\ x.batch \in Requests /\ Age(x.job) \in Nat
  BY Ages DEF Known
<1>1. \A k \in SyncQueues : k \in Queues /\ \A at : Made(k, at) <=> Made("sheets", at)
  BY DEF SyncQueues, Queues, Made
<1>2. ASSUME NEW v \in Workers, Same(run'[v], run[v]), QueueOf[v] \in SyncQueues
      PROVE  PassedBy(x, v)'
  <2>1. RunOK(ask, v, run[v]) /\ PassedBy(x, v)
    BY <1>2 DEF Typed, RunTyped, Known
  <2>2. /\ Busy(v)' <=> Busy(v)
        /\ Busy(v) => run'[v].job = run[v].job /\ Of(v)' = Of(v)
    BY <1>2, OthersBusy
  <2>3. Behind(QueueOf[v], x, run[v]) => Behind(QueueOf[v], x, run'[v])
    BY <1>2, <2>1, SameRun DEF Behind, SyncQueues
  <2>. QED
    BY <2>1, <2>2, <2>3 DEF PassedBy
<1>3. ASSUME NEW k \in Queues, NEW job, Joins(k, job), k \in SyncQueues => PassedIn(x, job)
      PROVE  \A m \in SyncQueues : \A i \in DOMAIN queue'[m] : PassedIn(x, queue'[m][i])
  <2>1. \A i \in DOMAIN queue'[k] : queue'[k][i] = job \/ \E j \in DOMAIN queue[k] : queue'[k][i] = queue[k][j]
    BY <1>3 DEF Joins
  <2>2. \A m \in Queues \ {k} : queue'[m] = queue[m]
    BY <1>3 DEF Joins
  <2>. HIDE DEF PassedIn
  <2>. QED
    BY <1>1, <1>3, <2>1, <2>2 DEF Known
<1>4. ASSUME NEW w \in Workers, Work(w) \/ Fault(w) \/ CrashWorker(w)
      PROVE  Known(x)'
  <2>0. /\ UNCHANGED req /\ QueueOf[w] \in Queues /\ \A v \in Workers \ {w} : Same(run'[v], run[v])
        /\ QueueOf[w] \in SyncQueues => PassedBy(x, w)
    BY <1>4, WorkerJob, WorkerOthers, QueueOfType DEF Others, Known
  <2>1. SUFFICES /\ \A k \in SyncQueues : \A i \in DOMAIN queue'[k] : PassedIn(x, queue'[k][i])
                 /\ QueueOf[w] \in SyncQueues => PassedBy(x, w)'
    BY <1>2, <2>0 DEF Known
  <2>2. CASE Keeps(w)
    <3>1. Busy(w) /\ run'[w].job = run[w].job /\ Of(w)' = Of(w) /\ UNCHANGED queue
      BY <2>2 DEF Keeps, Of
    <3>2. ASSUME QueueOf[w] \in SyncQueues, Behind(QueueOf[w], x, run[w])
          PROVE  Behind(QueueOf[w], x, run'[w])
      <4>1. SheetsStep(w) \/ SourceStep(w)
        <5>1. ~ExportStep(w)
          BY <3>2, ExportsOwn DEF ExportStep, SyncQueues
        <5>2. ~(Take(w) \/ Ack(w) \/ Fault(w) \/ CrashWorker(w))
          BY <2>2, GotoOthers, ThrowOthers DEF Keeps, Busy, Take, Ack, Fault, CrashWorker, Typed, Idle
        <5>. QED
          BY <1>4, <5>1, <5>2 DEF Work
      <4>2. SheetsStep(w) => QueueOf[w] = "sheets"
        BY SheetsFrame
      <4>3. SourceStep(w) => QueueOf[w] = "sync"
        BY PostsOwn
      <4>. QED
        BY <1>0, <2>2, <3>2, <4>1, <4>2, <4>3, SheetsBehind, SourceBehind
    <3>. QED
      BY <2>0, <3>1, <3>2 DEF PassedBy, Known
  <2>3. CASE Drops(w)
    <3>1. ~Busy(w)' /\ UNCHANGED queue
      BY <2>3 DEF Drops, Busy, Idle
    <3>. QED
      BY <3>1 DEF PassedBy, Known
  <2>4. CASE Takes(w)
    <3>1. /\ run'[w].job = queue[QueueOf[w]][1] /\ 1 \in DOMAIN queue[QueueOf[w]]
          /\ \A m \in Queues \ {QueueOf[w]} : queue'[m] = queue[m]
          /\ \A i \in DOMAIN queue'[QueueOf[w]] :
               i + 1 \in DOMAIN queue[QueueOf[w]] /\ queue'[QueueOf[w]][i] = queue[QueueOf[w]][i + 1]
      BY <2>4 DEF Takes, Leaves
    <3>2. QueueOf[w] \in SyncQueues => PassedIn(x, run'[w].job)
      BY <3>1 DEF Known
    <3>. QED
      BY <1>1, <3>1, <3>2 DEF PassedBy, PassedIn, Known, Of
  <2>5. ASSUME NEW job \in JobType, PutsBack(w, job)
        PROVE  /\ \A k \in SyncQueues : \A i \in DOMAIN queue'[k] : PassedIn(x, queue'[k][i])
               /\ QueueOf[w] \in SyncQueues => PassedBy(x, w)'
    <3>1. Busy(w) /\ ~Busy(w)' /\ Joins(QueueOf[w], job) /\ job.of = Of(w)
      BY <2>5 DEF PutsBack, Busy, Idle
    <3>2. Age(run[w].job) < Age(job) /\ Age(job) \in Nat /\ Age(run[w].job) \in Nat
      <4>1. run[w].job \in JobType
        BY <3>1, JobOwners
      <4>. QED
        BY <2>5, <4>1 DEF PutsBack, Age, JobType
    <3>3. QueueOf[w] \in SyncQueues => PassedIn(x, job)
      BY <1>0, <2>0, <3>1, <3>2 DEF PassedBy, PassedIn
    <3>. QED
      BY <1>3, <2>0, <3>1, <3>3 DEF PassedBy
  <2>. QED
    BY <1>4, <2>2, <2>3, <2>4, <2>5, WorkerJob
<1>5. CASE Requested
  <2>1. Made("sheets", req'[x.batch].at)
    BY <1>0, <1>1, <1>5, RequestedJobs DEF Known, SyncQueues
  <2>2. \A k \in SyncQueues : \A i \in DOMAIN queue'[k] : PassedIn(x, queue'[k][i])
    <3>1. CASE UNCHANGED queue
      BY <3>1 DEF Known
    <3>2. ASSUME NEW q \in Requests, NEW k \in Queues, NEW job \in JobType, Adds(q, k, job)
          PROVE  \A m \in SyncQueues : \A i \in DOMAIN queue'[m] : PassedIn(x, queue'[m][i])
      <4>1. k \in SyncQueues => job.of # x.batch
        BY <1>1, <3>2 DEF Adds, Known
      <4>. QED
        BY <1>3, <3>2, <4>1 DEF Adds, PassedIn
    <3>. QED
      BY <1>5, <3>1, <3>2, RequestedJobs
  <2>. QED
    BY <1>0, <1>2, <1>5, <2>1, <2>2, RequestedOthers DEF Known
<1>6. CASE UNCHANGED vars
  BY <1>6 DEF vars, Known, PassedBy, Busy, Of
<1>. QED
  BY <1>4, <1>5, <1>6, NextSteps

(* The row that a run is about to post has an id that is not known, and    *)
(* that is known when it is posted.                                        *)
Posted(w, x) == x = [batch |-> Of(w), job |-> run[w].job, origin |-> x.origin, line |-> run[w].line]

LEMMA NotKnown ==
    ASSUME NEW w \in Workers, Typed, NEW x, Posted(w, x), Known(x),
           \/ QueueOf[w] = "sheets" /\ run[w].at = "post" /\ x.origin = run[w].tab
           \/ QueueOf[w] = "sync" /\ run[w].at = "row"
    PROVE  FALSE
<1>1. /\ x.batch = Of(w) /\ x.job = run[w].job /\ x.line = run[w].line /\ x.line \in Nat
      /\ Age(x.job) \in Nat /\ Busy(w) /\ QueueOf[w] \in SyncQueues
  BY Ages DEF Known, Posted, Busy, SyncQueues
<1>2. Behind(QueueOf[w], x, run[w])
  BY <1>1 DEF Known, PassedBy
<1>. QED
  BY <1>1, <1>2 DEF Behind, OnRow

LEMMA NewKnown ==
    ASSUME NEW w \in Workers, Typed, Typed', JobsApart, JobsApart', Keeps(w), UNCHANGED req,
           Work(w), NEW x \in IdType, Posted(w, x),
           \/ /\ QueueOf[w] = "sheets" /\ run[w].at = "post" /\ x.origin = run[w].tab
              /\ run'[w].at = "sum" /\ SameRow(run'[w], run[w])
           \/ QueueOf[w] = "sync" /\ run[w].at = "row" /\ run'[w].at = "row" /\ run'[w].line = run[w].line + 1
    PROVE  Known(x)'
<1>1. /\ x.batch = Of(w) /\ x.job = run[w].job /\ x.line = run[w].line /\ x.line \in Nat
      /\ QueueOf[w] \in SyncQueues /\ QueueOf[w] \in Queues
  BY Ages, QueueOfType DEF Posted, SyncQueues
<1>2. /\ Busy(w)' /\ run'[w].job = run[w].job /\ Of(w)' = Of(w)
  BY DEF Keeps, Busy, Of
<1>3. Fits(ask', QueueOf[w], run'[w].job) /\ run'[w].job.of = Of(w)
  <2>1. Fits(ask, QueueOf[w], run[w].job)
    BY <1>2, JobOwners DEF Keeps
  <2>2. ask' = ask
    BY WorkerOthers
  <2>. QED
    BY <1>2, <2>1, <2>2 DEF Of
<1>4. ASSUME NEW k \in SyncQueues, NEW job, Fits(ask', k, job), job.of = Of(w)
      PROVE  k = QueueOf[w]
  BY <1>1, <1>3, <1>4 DEF Fits, SyncQueues
<1>5. Made("sheets", req'[x.batch].at)
  <2>1. Made(QueueOf[w], req'[Of(w)].at)
    BY <1>2 DEF JobsApart, ServedMade
  <2>. QED
    BY <1>1, <2>1 DEF Made, SyncQueues
<1>6. ASSUME NEW k \in SyncQueues, NEW i \in DOMAIN queue'[k]
      PROVE  queue'[k][i].of # x.batch
  <2>1. k \in Queues
    BY DEF SyncQueues, Queues
  <2>2. Fits(ask', k, queue'[k][i])
    BY <2>1 DEF Typed, QueueTyped
  <2>3. k = QueueOf[w] => queue'[k][i].of # Of(w)'
    BY <1>2 DEF JobsApart, WaitingOrServed
  <2>. QED
    BY <1>1, <1>2, <1>4, <2>2, <2>3
<1>7. ASSUME NEW v \in Workers, QueueOf[v] \in SyncQueues, Busy(v)', Of(v)' = x.batch
      PROVE  v = w
  <2>1. Fits(ask', QueueOf[v], run'[v].job)
    BY <1>7 DEF Typed, RunTyped, RunOK, Busy, Idle
  <2>2. QueueOf[v] = QueueOf[w]
    BY <1>1, <1>4, <1>7, <2>1 DEF Of
  <2>. QED
    BY <1>1, <1>2, <1>7, <2>2 DEF JobsApart, ServedApart
<1>8. Behind(QueueOf[w], x, run'[w])
  <2>1. CASE QueueOf[w] = "sheets" /\ run[w].at = "post" /\ x.origin = run[w].tab /\ run'[w].at = "sum" /\ SameRow(run'[w], run[w])
    <3>1. run[w].tab \notin run[w].left
      BY <2>1, RowRun DEF Typed, OnRow, OnTab
    <3>. QED
      BY <1>1, <2>1, <3>1 DEF Behind, SameRow, SameTab, OnRow
  <2>2. CASE QueueOf[w] = "sync" /\ run[w].at = "row" /\ run'[w].at = "row" /\ run'[w].line = run[w].line + 1
    BY <1>1, <2>2 DEF Behind
  <2>. QED
    BY <2>1, <2>2
<1>9. \A v \in Workers : QueueOf[v] \in SyncQueues => PassedBy(x, v)'
  BY <1>1, <1>2, <1>7, <1>8 DEF PassedBy
<1>. QED
  BY <1>5, <1>6, <1>9 DEF Known, PassedIn

-----------------------------------------------------------------------------
(* No two records have one hash or one reference, and a record of an API   *)
(* or database source says what its line does: that source is never        *)
(* edited, so that a line is posted once.                                  *)

Looks(w) == QueueOf[w] = "sheets" /\ run[w].at = "post"
FoundKnown(w) == Looks(w) => \A x \in run[w].found : Known(x)
FoundByRef(w) == Looks(w) => \A r \in records : r.id \in run[w].found => r.ref = Line(w).ref
IdsKnown == \A r \in records : Known(r.id)

HashesApart == \A r, s \in records : r.hash = s.hash => r = s
RefsApart == \A r, s \in records : r.ref = s.ref /\ r.ref # NoRef => r = s
IdsApart == \A r, s \in records : r.id = s.id => r = s
NamesRef(r) == \A x \in Refs, y \in Texts : r.hash = <<x, y>> => r.ref = x
FullBefore(rows, n) == Cardinality({j \in 1 .. n - 1 : rows[j].kind = "full"})
AsFed(r) == r.id.origin \notin Tabs =>
    LET rows == feed[r.id.origin]
    IN  /\ r.id.line \in DOMAIN rows /\ r.ref = rows[r.id.line].ref
        /\ r.ref = NoRef => r.hash = <<r.id.batch, FullBefore(rows, r.id.line)>>
RecordsApart == HashesApart /\ RefsApart /\ IdsApart /\ \A r \in records : NamesRef(r) /\ AsFed(r)
ReadsSource(w) == At(w, "sync", "row") =>
    run[w].rows = feed[Source(w)] /\ run[w].valid = FullBefore(run[w].rows, run[w].line)
PostedOnce == /\ RecordsApart /\ IdsKnown
              /\ \A w \in Workers : FoundKnown(w) /\ FoundByRef(w) /\ ReadsSource(w)

(* The complete rows before a line, one line on. *)
LEMMA OneMoreFull ==
    ASSUME NEW rows, NEW n \in Nat, n # 0
    PROVE  /\ FullBefore(rows, 1) = 0
           /\ FullBefore(rows, n) \in Nat
           /\ FullBefore(rows, n + 1) = IF rows[n].kind = "full" THEN FullBefore(rows, n) + 1 ELSE FullBefore(rows, n)
<1>. DEFINE F == {j \in 1 .. n - 1 : rows[j].kind = "full"}
            G == {j \in 1 .. n : rows[j].kind = "full"}
<1>1. FullBefore(rows, 1) = 0
  <2>1. {j \in 1 .. 1 - 1 : rows[j].kind = "full"} = {}
    OBVIOUS
  <2>. QED
    BY <2>1, FS_EmptySet DEF FullBefore
<1>2. IsFiniteSet(F)
  <2>1. IsFiniteSet(1 .. n - 1) /\ F \subseteq 1 .. n - 1
    BY FS_Interval
  <2>. HIDE DEF F
  <2>. QED
    BY <2>1, FS_Subset
<1>3. n \notin F /\ G = IF rows[n].kind = "full" THEN F \cup {n} ELSE F
  OBVIOUS
<1>4. FullBefore(rows, n) = Cardinality(F) /\ FullBefore(rows, n + 1) = Cardinality(G)
  <2>1. n + 1 - 1 = n
    OBVIOUS
  <2>. QED
    BY <2>1 DEF FullBefore
<1>. HIDE DEF F, G
<1>5. Cardinality(F) \in Nat /\ Cardinality(F \cup {n}) = Cardinality(F) + 1
  BY <1>2, <1>3, FS_AddElement, FS_CardinalityType
<1>. QED
  BY <1>1, <1>3, <1>4, <1>5

(* A record joins that is new in id, hash and reference. *)
LEMMA InsertApart ==
    ASSUME RecordsApart, NEW new, NEW actor, records' = records \cup {new}, Insertable(new, actor),
           \A r \in records : r.id # new.id, NamesRef(new), AsFed(new)',
           \A r \in records : AsFed(r) => AsFed(r)'
    PROVE  RecordsApart'
<1>1. HashesApart'
  BY DEF RecordsApart, HashesApart, Insertable
<1>2. RefsApart'
  BY DEF RecordsApart, RefsApart, Insertable
<1>3. IdsApart'
  BY DEF RecordsApart, IdsApart
<1>. QED
  BY <1>1, <1>2, <1>3 DEF RecordsApart, NamesRef

(* A record takes the hash of a row with its reference. *)
LEMMA UpdateApart ==
    ASSUME RecordsApart, NEW old \in records, NEW new, NEW text \in Texts, old.ref \in Refs, old.ref # NoRef,
           new.id = old.id, new.ref = old.ref, new.hash = <<old.ref, text>>,
           records' = (records \ {old}) \cup {new}, feed' = feed
    PROVE  RecordsApart'
<1>1. \A r \in records \ {old} : r.ref # new.ref /\ r.hash # new.hash /\ r.id # new.id
  BY DEF RecordsApart, RefsApart, IdsApart, NamesRef
<1>2. NamesRef(new) /\ AsFed(new)'
  BY DEF RecordsApart, NamesRef, AsFed
<1>3. HashesApart'
  BY <1>1 DEF RecordsApart, HashesApart
<1>4. RefsApart'
  BY <1>1 DEF RecordsApart, RefsApart
<1>5. IdsApart'
  BY <1>1 DEF RecordsApart, IdsApart
<1>6. \A r : AsFed(r) => AsFed(r)'
  BY DEF AsFed
<1>7. \A r \in records' : AsFed(r)'
  BY <1>2, <1>6 DEF RecordsApart
<1>8. \A r \in records' : NamesRef(r)'
  BY <1>2 DEF RecordsApart, NamesRef
<1>. QED
  BY <1>3, <1>4, <1>5, <1>7, <1>8 DEF RecordsApart

(* Records that are gone leave the others apart. *)
LEMMA FewerApart ==
    ASSUME RecordsApart, records' \subseteq records, \A r \in records' : AsFed(r) => AsFed(r)'
    PROVE  RecordsApart'
  BY DEF RecordsApart, HashesApart, RefsApart, IdsApart, NamesRef

(* The rows of sources that are not sheets never change, and workers write *)
(* only records.                                                           *)
LEMMA WorkerFeed ==
    ASSUME NEW w \in Workers, Typed, Work(w) \/ Fault(w) \/ CrashWorker(w)
    PROVE  /\ feed' = feed
           /\ UNCHANGED records \/ ShUpdate(w) \/ ShInsert(w) \/ SyInsert(w)
<1>1. CASE SheetsStep(w)
  BY <1>1 DEF SheetsStep, ShStart, ShTabs, ShFetch, ShCompare, ShError, ShLookup, ShUpdate, ShInsert,
     ShStore, ShTabDone, ShFinish, ShStamp, Rest
<1>2. CASE SourceStep(w)
  BY <1>2 DEF SourceStep, SyStart, SyError, SyInsert, SyFinish, Kept
<1>3. CASE ExportStep(w)
  BY <1>3, ExportsOwn DEF Aside
<1>4. CASE Take(w) \/ Ack(w) \/ Fault(w) \/ CrashWorker(w)
  BY <1>4 DEF Take, Ack, Fault, CrashWorker
<1>. QED
  BY <1>1, <1>2, <1>3, <1>4 DEF Work

LEMMA RequestedFeed ==
    ASSUME Typed, Requested
    PROVE  /\ \A o \in Origins \ Tabs : feed'[o] = feed[o]
           /\ records' \subseteq records
<1>1. ASSUME NEW t \in Tabs, Edit(t)
      PROVE  \A o \in Origins \ Tabs : feed'[o] = feed[o]
  <2>1. PICK i \in DOMAIN feed[t] :
          \/ \E x \in Texts : feed' = [feed EXCEPT ![t][i].text = x]
          \/ feed' = [feed EXCEPT ![t] = SubSeq(feed[t], 1, i - 1) \o SubSeq(feed[t], i + 1, Len(feed[t]))]
    BY <1>1 DEF Edit
  <2>2. CASE \E x \in Texts : feed' = [feed EXCEPT ![t][i].text = x]
    <3>1. PICK row : feed' = [feed EXCEPT ![t] = row]
      BY <2>2
    <3>. QED
      BY <3>1 DEF Typed, FeedTyped
  <2>3. CASE feed' = [feed EXCEPT ![t] = SubSeq(feed[t], 1, i - 1) \o SubSeq(feed[t], i + 1, Len(feed[t]))]
    BY <2>3 DEF Typed, FeedTyped
  <2>. QED
    BY <2>1, <2>2, <2>3
<1>2. UNCHANGED feed \/ \E t \in Tabs : Edit(t)
  BY DEF Requested, Ask, Proceed, Accept, FindSource, SetTab, DeleteInvestment, InsertRow, Enqueue,
     InsertEvent, EnqueueEvent, WriteSource, Discover, Elapse, CrashApi
<1>3. UNCHANGED records \/ \E q \in Requests : DeleteInvestment(q)
  BY DEF Requested, Ask, Proceed, Accept, FindSource, SetTab, InsertRow, Enqueue,
     InsertEvent, EnqueueEvent, WriteSource, Discover, Elapse, CrashApi, Edit
<1>4. \A q \in Requests : DeleteInvestment(q) => records' \subseteq records
  BY DEF DeleteInvestment
<1>. QED
  BY <1>1, <1>2, <1>3, <1>4

(* What a run has found stays known and of its reference.                  *)
LEMMA FoundKept ==
    ASSUME NEW v \in Workers, Typed, Typed', [Next]_vars, FoundKnown(v), FoundByRef(v), Same(run'[v], run[v]),
           \A r \in records' : ~Known(r.id) \/ \E s \in records : s.id = r.id /\ s.ref = r.ref
    PROVE  FoundKnown(v)' /\ FoundByRef(v)'
<1>. SUFFICES ASSUME Looks(v)'
              PROVE  (\A x \in run[v].found : Known(x))' /\ (\A r \in records : r.id \in run[v].found => r.ref = Line(v).ref)'
  BY DEF FoundKnown, FoundByRef
<1>1. RunOK(ask, v, run[v])
  BY DEF Typed, RunTyped
<1>2. Looks(v) /\ run'[v].found = run[v].found /\ run'[v].rows = run[v].rows /\ run'[v].line = run[v].line
  BY <1>1, SameRun DEF Looks, OnRow
<1>3. (\A x \in run[v].found : Known(x))'
  BY <1>2, KnownKept DEF FoundKnown
<1>4. Line(v)' = Line(v)
  BY <1>2 DEF Line
<1>. QED
  BY <1>2, <1>3, <1>4 DEF FoundKnown, FoundByRef

LEMMA FoundOwn ==
    ASSUME NEW w \in Workers, Typed, Typed', IdsKnown, IdsApart, Work(w) \/ Fault(w) \/ CrashWorker(w)
    PROVE  FoundKnown(w)' /\ FoundByRef(w)'
<1>. SUFFICES ASSUME Looks(w)'
              PROVE  (\A x \in run[w].found : Known(x))' /\ (\A r \in records : r.id \in run[w].found => r.ref = Line(w).ref)'
  BY DEF FoundKnown, FoundByRef
<1>0. QueueOf[w] = "sheets" /\ run'[w].at = "post"
  BY DEF Looks
<1>1. SheetsStep(w)
  <2>1. ~SourceStep(w) /\ ~ExportStep(w)
    BY <1>0, PostsOwn, ExportsOwn DEF ExportStep
  <2>2. ~(Take(w) \/ Ack(w) \/ Fault(w) \/ CrashWorker(w))
    BY <1>0, GotoOthers, ThrowOthers DEF Take, Ack, Fault, CrashWorker, Typed, Idle
  <2>. QED
    BY <2>1, <2>2 DEF Work
<1>2. CASE ShCompare(w)
  BY <1>2, CompareOwn
<1>3. CASE ShLookup(w)
  <2>1. /\ SameRow(run'[w], run[w]) /\ UNCHANGED records
        /\ run'[w].found = {r.id : r \in {s \in records : s.ref = Line(w).ref}}
    BY <1>3, LookupOwn DEF ShLookup
  <2>2. Line(w)' = Line(w)
    BY <2>1 DEF Line, SameRow, SameTab
  <2>3. \A x \in run'[w].found : \E r \in records : r.ref = Line(w).ref /\ x = r.id
    BY <2>1
  <2>4. [Next]_vars
    BY DEF Next
  <2>5. \A x \in run'[w].found : Known(x)'
    BY <2>3, <2>4, KnownKept DEF IdsKnown
  <2>. QED
    BY <2>1, <2>2, <2>3, <2>5 DEF IdsApart
<1>4. CASE ~ShCompare(w) /\ ~ShLookup(w)
  <2>1. CASE ShStart(w) \/ ShTabs(w)
    <3>1. CASE ShStart(w)
      BY <1>0, <3>1, StartOwn
    <3>2. CASE ShTabs(w)
      <4>1. PICK left : left = {t \in tabsOn : SourceOf[t] = Source(w)}
        OBVIOUS
      <4>2. run'[w] = [at |-> "fetch", job |-> run[w].job, calm |-> run[w].calm, valid |-> 0, invalid |-> 0, left |-> left]
        BY <3>2, <4>1, TabsOwn
      <4>. QED
        BY <1>0, <4>2
    <3>. QED
      BY <2>1, <3>1, <3>2
  <2>2. CASE ShFetch(w) \/ ShError(w)
    BY <1>0, <2>2, FetchOwn, ErrorOwn DEF NextLine
  <2>3. CASE ShUpdate(w) \/ ShInsert(w)
    BY <1>0, <2>3, PostOwn DEF Idle
  <2>4. CASE ShStore(w)
    BY <1>0, <2>4, StoreOwn DEF Idle, NextLine
  <2>5. CASE ShTabDone(w) \/ ShFinish(w) \/ ShStamp(w)
    BY <1>0, <2>5, TabDoneOwn, LastOwn
  <2>. QED
    BY <1>1, <1>4, <2>1, <2>2, <2>3, <2>4, <2>5 DEF SheetsStep
<1>. QED
  BY <1>2, <1>3, <1>4

(* A sync of an API or database source reads the source as it is.          *)
LEMMA SourceOfRun ==
    ASSUME NEW w \in Workers, Typed, QueueOf[w] = "sync", Busy(w)
    PROVE  Source(w) \in Origins \ Tabs
<1>1. Fits(ask, "sync", run[w].job)
  BY JobOwners
<1>2. Source(w) \in Sources /\ Source(w) \notin Sheets
  BY <1>1 DEF Fits, Source, Of, Typed, AskTyped, WellAsked
<1>. QED
  BY <1>2, SyncAssumption DEF Origins

LEMMA SourceKept ==
    ASSUME NEW v \in Workers, Typed, ReadsSource(v), Same(run'[v], run[v]), ask' = ask,
           \A o \in Origins \ Tabs : feed'[o] = feed[o]
    PROVE  ReadsSource(v)'
<1>. SUFFICES ASSUME At(v, "sync", "row")'
              PROVE  run'[v].rows = feed'[Source(v)'] /\ run'[v].valid = FullBefore(run'[v].rows, run'[v].line)
  BY DEF ReadsSource
<1>1. RunOK(ask, v, run[v])
  BY DEF Typed, RunTyped
<1>2. QueueOf[v] = "sync" /\ run[v].at = "row" /\ Busy(v)
  BY <1>1, SameRun DEF At, Busy
<1>3. /\ run'[v].rows = run[v].rows /\ run'[v].line = run[v].line /\ run'[v].valid = run[v].valid
      /\ run'[v].job = run[v].job
  BY <1>1, <1>2, SameRun DEF Busy
<1>4. Source(v)' = Source(v)
  BY <1>3 DEF Source, Of
<1>. QED
  BY <1>2, <1>3, <1>4, SourceOfRun DEF ReadsSource, At

LEMMA SourceRead ==
    ASSUME NEW w \in Workers, Typed, ReadsSource(w), Work(w) \/ Fault(w) \/ CrashWorker(w)
    PROVE  ReadsSource(w)'
<1>. SUFFICES ASSUME QueueOf[w] = "sync", run'[w].at = "row"
              PROVE  run'[w].rows = feed'[Source(w)'] /\ run'[w].valid = FullBefore(run'[w].rows, run'[w].line)
  BY DEF ReadsSource, At
<1>1. SourceStep(w)
  <2>1. ~SheetsStep(w) /\ ~ExportStep(w)
    BY SheetsFrame, ExportsOwn DEF ExportStep
  <2>2. ~(Take(w) \/ Ack(w) \/ Fault(w) \/ CrashWorker(w))
    BY GotoOthers, ThrowOthers DEF Take, Ack, Fault, CrashWorker, Typed, Idle
  <2>. QED
    BY <2>1, <2>2 DEF Work
<1>2. feed' = feed /\ ask' = ask
  BY WorkerFeed, WorkerOthers
<1>3. run'[w].job = run[w].job => Source(w)' = Source(w)
  BY <1>2 DEF Source, Of
<1>4. CASE SyStart(w)
  <2>1. run'[w] = [at |-> "row", job |-> run[w].job, calm |-> FALSE, rows |-> feed[Source(w)],
                   line |-> 1, valid |-> 0, invalid |-> 0]
    BY <1>1, <1>4, PostsOwn
  <2>2. run'[w].job = run[w].job /\ run'[w].rows = feed[Source(w)] /\ run'[w].line = 1 /\ run'[w].valid = 0
    BY <2>1
  <2>. QED
    BY <1>2, <1>3, <2>2, OneMoreFull
<1>5. CASE SyError(w) \/ SyInsert(w)
  <2>1. /\ run[w].at = "row" /\ run'[w].job = run[w].job /\ run'[w].rows = run[w].rows
        /\ run'[w].line = run[w].line + 1
        /\ \/ run'[w].valid = run[w].valid /\ Current(w).kind # "full"
           \/ run'[w].valid = run[w].valid + 1 /\ Current(w).kind = "full"
    <3>1. CASE SyError(w)
      BY <1>1, <3>1, PostsOwn DEF SyError
    <3>2. CASE SyInsert(w)
      <4>1. run'[w] # Idle
        BY DEF Idle
      <4>. QED
        BY <1>1, <3>2, <4>1, PostsOwn DEF SyInsert
    <3>. QED
      BY <1>5, <3>1, <3>2
  <2>2. /\ run[w].line \in Nat /\ run[w].line # 0
        /\ run[w].rows = feed[Source(w)] /\ run[w].valid = FullBefore(run[w].rows, run[w].line)
    <3>1. run[w] \in Posts /\ OnFeed(run[w])
      BY <2>1, PostRun DEF Typed
    <3>2. run[w].line \in Nat /\ run[w].line \in 1 .. Len(run[w].rows) + 1
      BY <3>1 DEF Posts, OnFeed
    <3>. QED
      BY <2>1, <3>2 DEF ReadsSource, At
  <2>3. FullBefore(run[w].rows, run[w].line + 1) =
          IF Current(w).kind = "full" THEN run[w].valid + 1 ELSE run[w].valid
    BY <2>2, OneMoreFull DEF Current
  <2>. QED
    BY <1>2, <1>3, <2>1, <2>2, <2>3
<1>6. CASE SyFinish(w)
  BY <1>1, <1>6, PostsOwn
<1>. QED
  BY <1>1, <1>4, <1>5, <1>6 DEF SourceStep

(* What a worker writes to the records. *)
LEMMA SheetPosts ==
    ASSUME NEW w \in Workers, Typed, Typed', JobsApart, JobsApart', PostedOnce, ShUpdate(w) \/ ShInsert(w)
    PROVE  /\ RecordsApart' /\ IdsKnown'
           /\ \A r \in records' : ~Known(r.id) \/ \E s \in records : s.id = r.id /\ s.ref = r.ref
<1>0. /\ [Next]_vars /\ Work(w) /\ UNCHANGED <<feed, ask, req>> /\ run[w].at = "post" /\ QueueOf[w] = "sheets"
      /\ RecordsApart /\ \A r \in records : Known(r.id)' /\ r \in RecordType
  <2>1. [Next]_vars /\ Work(w)
    BY DEF Next, Work, SheetsStep
  <2>2. \A r \in records : Known(r.id)'
    BY <2>1, KnownKept DEF PostedOnce, IdsKnown
  <2>. QED
    BY <2>1, <2>2, PostOwn DEF ShUpdate, ShInsert, Rest, PostedOnce, Typed, RecordsTyped
<1>1. /\ Line(w) \in Row /\ run[w].tab \in Tabs /\ Origin(w) = run[w].tab
      /\ run[w].found # {} => Line(w).ref # NoRef
  <2>1. run[w].at \in OnRow
    BY <1>0 DEF OnRow
  <2>2. OnTab(ask, run[w])
    BY <1>0, <2>1, RowRun DEF Typed
  <2>. QED
    BY <1>0, <2>1, <2>2, LineType DEF Typed, Origin, OnTab, Line
<1>2. Line(w).ref \in Refs \cup {NoRef} /\ Line(w).text \in Texts
  BY <1>1 DEF Row
<1>3. CASE UNCHANGED records
  BY <1>0, <1>3, FewerApart DEF AsFed, IdsKnown
<1>4. ASSUME run[w].found # {},
             records' = (records \ {r \in records : r.id \in run[w].found}) \cup
               {Updated(r, w) : r \in {s \in records : s.id \in run[w].found}}
      PROVE  /\ RecordsApart' /\ IdsKnown'
             /\ \A r \in records' : ~Known(r.id) \/ \E s \in records : s.id = r.id /\ s.ref = r.ref
  <2>1. CASE {r \in records : r.id \in run[w].found} = {}
    <3>1. records' = records
      BY <1>4, <2>1
    <3>. QED
      BY <1>3, <3>1
  <2>2. ASSUME NEW old \in records, old.id \in run[w].found
        PROVE  /\ RecordsApart' /\ IdsKnown'
               /\ \A r \in records' : ~Known(r.id) \/ \E s \in records : s.id = r.id /\ s.ref = r.ref
    <3>1. \A r \in records : r.id \in run[w].found => r.ref = Line(w).ref
      BY <1>0 DEF PostedOnce, FoundByRef, Looks
    <3>2. \A r \in records : r.id \in run[w].found <=> r = old
      BY <1>0, <1>1, <1>4, <2>2, <3>1 DEF RecordsApart, RefsApart
    <3>3. PICK new : new = Updated(old, w)
      OBVIOUS
    <3>4. records' = (records \ {old}) \cup {new}
      BY <1>4, <2>2, <3>2, <3>3
    <3>5. new.id = old.id /\ new.ref = old.ref /\ new.hash = HashOf(Line(w))
      BY <1>0, <1>2, <2>2, <3>3, UpdatedRecord
    <3>6. old.ref = Line(w).ref /\ old.ref \in Refs /\ old.ref # NoRef
      BY <1>1, <1>2, <1>4, <2>2, <3>1
    <3>7. new.hash = <<old.ref, Line(w).text>> /\ Line(w).text \in Texts
      BY <1>2, <3>5, <3>6 DEF HashOf
    <3>8. RecordsApart'
      BY <1>0, <3>4, <3>5, <3>6, <3>7, UpdateApart
    <3>. QED
      BY <1>0, <3>4, <3>5, <3>8 DEF IdsKnown
  <2>. QED
    BY <2>1, <2>2
<1>5. ASSUME NEW new, new = [id |-> RecordId(w), ref |-> Line(w).ref, text |-> Line(w).text,
                             hash |-> HashOf(Line(w)), batch |-> Of(w)],
             Insertable(new, run[w].job.actor), records' = records \cup {new}, Step(w, "sum"), UNCHANGED queue
      PROVE  /\ RecordsApart' /\ IdsKnown'
             /\ \A r \in records' : ~Known(r.id) \/ \E s \in records : s.id = r.id /\ s.ref = r.ref
  <2>1. new.id = RecordId(w) /\ new.ref = Line(w).ref /\ new.hash = HashOf(Line(w))
    BY <1>5
  <2>2. Posted(w, new.id) /\ new.id.origin = run[w].tab
    BY <1>1, <2>1 DEF Posted, RecordId
  <2>3. ~Known(new.id)
    BY <1>0, <2>2, NotKnown
  <2>4. Keeps(w) /\ SameRow(run'[w], run[w]) /\ run'[w].at = "sum"
    <3>1. run[w] \in Lines /\ run'[w] = [run[w] EXCEPT !.at = "sum"]
      BY <1>0, <1>5, GotoOthers, RowRun DEF Step, Typed, OnRow
    <3>2. SameRow(run'[w], run[w]) /\ run'[w].at = "sum"
      BY <3>1 DEF Lines, SameRow, SameTab
    <3>. QED
      BY <1>0, <1>5, <3>2 DEF Keeps, Busy, SameRow, SameTab
  <2>5. Known(new.id)'
    <3>1. new.id \in IdType
      BY <1>5 DEF Typed, RecordsTyped, RecordType
    <3>. QED
      BY <1>0, <2>2, <2>4, <3>1, NewKnown
  <2>6. NamesRef(new) /\ AsFed(new)'
    BY <1>1, <2>1, <2>2 DEF NamesRef, AsFed, HashOf
  <2>7. \A r \in records : r.id # new.id
    BY <2>3 DEF PostedOnce, IdsKnown
  <2>8. \A r : AsFed(r) => AsFed(r)'
    BY <1>0 DEF AsFed
  <2>9. RecordsApart'
    BY <1>0, <1>5, <2>6, <2>7, <2>8, InsertApart
  <2>. QED
    BY <1>0, <1>5, <2>3, <2>5, <2>9 DEF IdsKnown
<1>6. CASE ShUpdate(w)
  BY <1>3, <1>4, <1>6 DEF ShUpdate
<1>7. CASE ShInsert(w)
  BY <1>3, <1>5, <1>7 DEF ShInsert
<1>. QED
  BY <1>6, <1>7

LEMMA SourcePosts ==
    ASSUME NEW w \in Workers, Typed, Typed', JobsApart, JobsApart', PostedOnce, SyInsert(w)
    PROVE  /\ RecordsApart' /\ IdsKnown'
           /\ \A r \in records' : ~Known(r.id) \/ \E s \in records : s.id = r.id /\ s.ref = r.ref
<1>0. /\ [Next]_vars /\ Work(w) /\ UNCHANGED <<feed, ask, req>> /\ run[w].at = "row" /\ QueueOf[w] = "sync"
      /\ RecordsApart /\ Busy(w) /\ Of(w) \in Requests /\ \A r \in records : Known(r.id)'
  <2>1. [Next]_vars /\ Work(w)
    BY DEF Next, Work, SourceStep
  <2>2. \A r \in records : Known(r.id)'
    BY <2>1, KnownKept DEF PostedOnce, IdsKnown
  <2>3. Busy(w)
    BY DEF SyInsert, At, Busy
  <2>4. Of(w) \in Requests
    BY <2>3, JobOwners
  <2>. QED
    BY <2>1, <2>2, <2>3, <2>4 DEF SyInsert, Kept, PostedOnce, At
<1>1. CASE UNCHANGED records
  BY <1>0, <1>1, FewerApart DEF AsFed, IdsKnown
<1>2. ASSUME NEW new, Insertable(new, run[w].job.actor), records' = records \cup {new}, UNCHANGED queue,
             More(w), SourceStep(w),
             new = [id |-> [batch |-> Of(w), job |-> run[w].job, origin |-> Source(w), line |-> run[w].line],
                    ref |-> Current(w).ref, text |-> Current(w).text, hash |-> SyHash(w), batch |-> Of(w)],
             Goto(w, [run[w] EXCEPT !.line = run[w].line + 1, !.valid = run[w].valid + 1])
      PROVE  /\ RecordsApart' /\ IdsKnown'
             /\ \A r \in records' : ~Known(r.id) \/ \E s \in records : s.id = r.id /\ s.ref = r.ref
  <2>1. /\ new.ref = Current(w).ref /\ new.hash = SyHash(w) /\ Posted(w, new.id)
        /\ new.id.origin = Source(w) /\ new.id.line = run[w].line /\ new.id.batch = Of(w)
    BY <1>2 DEF Posted
  <2>2. ~Known(new.id)
    BY <1>0, <2>1, NotKnown
  <2>3. Keeps(w) /\ run'[w].at = "row" /\ run'[w].line = run[w].line + 1
    <3>1. run[w] \in Posts
      BY <1>0, PostRun DEF Typed
    <3>2. run'[w] = [run[w] EXCEPT !.line = run[w].line + 1, !.valid = run[w].valid + 1]
      BY <1>2, GotoOthers DEF Typed
    <3>3. PICK n \in Nat, m \in Nat : n = run[w].line + 1 /\ m = run[w].valid + 1
      BY <3>1 DEF Posts
    <3>4. run'[w] = [run[w] EXCEPT !.line = n, !.valid = m]
      BY <3>2, <3>3
    <3>5. run'[w].at = "row" /\ run'[w].line = run[w].line + 1 /\ run'[w].job = run[w].job
      BY <1>0, <3>1, <3>3, <3>4 DEF Posts
    <3>6. Busy(w) /\ UNCHANGED queue
      BY <1>0, <1>2
    <3>. QED
      BY <3>5, <3>6 DEF Keeps
  <2>4. Known(new.id)'
    <3>1. new.id \in IdType
      BY <1>2 DEF Typed, RecordsTyped, RecordType
    <3>. QED
      BY <1>0, <2>1, <2>3, <3>1, NewKnown
  <2>5. /\ run[w].rows = feed[Source(w)] /\ run[w].valid = FullBefore(run[w].rows, run[w].line)
        /\ run[w].line \in DOMAIN run[w].rows /\ Current(w) = run[w].rows[run[w].line]
    <3>1. run[w].rows \in Seq(Row) /\ run[w].line \in 1 .. Len(run[w].rows) + 1
      BY <1>0, PostRun DEF Typed, Posts, OnFeed
    <3>2. run[w].line \in 1 .. Len(run[w].rows) /\ DOMAIN run[w].rows = 1 .. Len(run[w].rows)
      BY <1>2, <3>1, LenProperties DEF More
    <3>. QED
      BY <1>0, <3>2 DEF PostedOnce, ReadsSource, At, Current
  <2>6. AsFed(new)'
    <3>1. /\ new.id.line \in DOMAIN feed[Source(w)] /\ new.ref = feed[Source(w)][new.id.line].ref
          /\ new.ref = NoRef => new.hash = <<new.id.batch, FullBefore(feed[Source(w)], new.id.line)>>
      BY <2>1, <2>5 DEF SyHash
    <3>. QED
      BY <1>0, <2>1, <3>1 DEF AsFed
  <2>7. NamesRef(new)
    <3>1. Of(w) \notin Refs
      BY <1>0, SyncAssumption
    <3>2. \A x, y, r : <<r>> # <<x, y>>
      OBVIOUS
    <3>. QED
      BY <2>1, <3>1, <3>2 DEF NamesRef, SyHash
  <2>8. \A r \in records : r.id # new.id
    BY <2>2 DEF PostedOnce, IdsKnown
  <2>9. \A r : AsFed(r) => AsFed(r)'
    BY <1>0 DEF AsFed
  <2>10. RecordsApart'
    BY <1>0, <1>2, <2>6, <2>7, <2>8, <2>9, InsertApart
  <2>. QED
    BY <1>0, <1>2, <2>2, <2>4, <2>10 DEF IdsKnown
<1>3. SourceStep(w) /\ More(w)
  BY DEF SourceStep, SyInsert
<1>. QED
  BY <1>1, <1>2, <1>3 DEF SyInsert

LEMMA PostedStep == Typed /\ Typed' /\ JobsApart /\ JobsApart' /\ PostedOnce /\ [Next]_vars => PostedOnce'
<1>. SUFFICES ASSUME Typed, Typed', JobsApart, JobsApart', PostedOnce, [Next]_vars PROVE PostedOnce'
  OBVIOUS
<1>0. /\ \A r \in records : Known(r.id)'
      /\ RecordsApart /\ IdsKnown /\ \A w \in Workers : FoundKnown(w) /\ FoundByRef(w) /\ ReadsSource(w)
  BY KnownKept DEF PostedOnce, IdsKnown
<1>1. ASSUME NEW w \in Workers, Work(w) \/ Fault(w) \/ CrashWorker(w)
      PROVE  PostedOnce'
  <2>1. feed' = feed /\ ask' = ask /\ \A v \in Workers \ {w} : Same(run'[v], run[v])
    BY <1>1, WorkerFeed, WorkerOthers DEF Others
  <2>2. /\ RecordsApart' /\ IdsKnown'
        /\ \A r \in records' : ~Known(r.id) \/ \E s \in records : s.id = r.id /\ s.ref = r.ref
    <3>1. CASE UNCHANGED records
      BY <1>0, <2>1, <3>1, FewerApart DEF AsFed, IdsKnown
    <3>. QED
      BY <1>1, <3>1, SheetPosts, SourcePosts, WorkerFeed
  <2>3. FoundKnown(w)' /\ FoundByRef(w)' /\ ReadsSource(w)'
    BY <1>0, <1>1, FoundOwn, SourceRead DEF RecordsApart
  <2>4. \A v \in Workers \ {w} : FoundKnown(v)' /\ FoundByRef(v)' /\ ReadsSource(v)'
    BY <1>0, <2>1, <2>2, FoundKept, SourceKept
  <2>. QED
    BY <2>2, <2>3, <2>4 DEF PostedOnce
<1>2. CASE Requested
  <2>1. /\ ask' = ask /\ records' \subseteq records /\ \A v \in Workers : Same(run'[v], run[v])
        /\ \A o \in Origins \ Tabs : feed'[o] = feed[o]
    BY <1>2, RequestedOthers, RequestedFeed
  <2>2. \A r \in records' : r.id.origin \in Origins
    BY DEF Typed, RecordsTyped, RecordType, IdType
  <2>3. \A r \in records' : AsFed(r) => AsFed(r)'
    BY <2>1, <2>2 DEF AsFed
  <2>4. RecordsApart'
    <3>1. RecordsApart /\ records' \subseteq records
      BY <1>0, <2>1
    <3>. QED
      BY <2>3, <3>1, FewerApart
  <2>5. IdsKnown'
    <3>1. records' \subseteq records
      BY <2>1
    <3>2. \A r \in records' : Known(r.id)'
      BY <1>0, <3>1
    <3>. QED
      BY <3>2 DEF IdsKnown
  <2>6. \A v \in Workers : FoundKnown(v)' /\ FoundByRef(v)' /\ ReadsSource(v)'
    BY <1>0, <2>1, FoundKept, SourceKept
  <2>. QED
    BY <2>4, <2>5, <2>6 DEF PostedOnce
<1>3. CASE UNCHANGED vars
  <2>1. /\ ask' = ask /\ records' = records /\ feed' = feed /\ \A v \in Workers : Same(run'[v], run[v])
    BY <1>3 DEF vars, Same
  <2>2. RecordsApart' /\ IdsKnown'
    BY <1>0, <2>1, FewerApart DEF AsFed, IdsKnown
  <2>3. \A v \in Workers : FoundKnown(v)' /\ FoundByRef(v)' /\ ReadsSource(v)'
    BY <1>0, <2>1, FoundKept, SourceKept
  <2>. QED
    BY <2>2, <2>3 DEF PostedOnce
<1>. QED
  BY <1>1, <1>2, <1>3, NextSteps

LEMMA PostsOnce == Spec => []PostedOnce
<1>1. Init => PostedOnce
  BY DEF Init, PostedOnce, RecordsApart, HashesApart, RefsApart, IdsApart, IdsKnown, FoundKnown, FoundByRef,
     ReadsSource, Looks, At, Idle
<1>2. Typed /\ Typed' /\ JobsApart /\ JobsApart' /\ PostedOnce /\ [Next]_vars => PostedOnce'
  BY PostedStep
<1>. QED
  BY <1>1, <1>2, SyncIsTyped, JobsStayApart, PTL DEF Spec

(* However often the job of a sync is tried or delivered, no line of an    *)
(* API or database source is in the records twice, and no row of a sheet   *)
(* with one content: each record keeps the reference it was posted with,   *)
(* and a second one of that reference or hash is refused.                  *)
THEOREM RetriesPostOnce == Spec => []RetryPostsOnce
<1>1. PostedOnce => RetryPostsOnce
  <2>. SUFFICES ASSUME PostedOnce, NEW r \in records, NEW s \in records, r # s, r.id.batch = s.id.batch,
                       r.id.origin = s.id.origin, r.id.line = s.id.line
                PROVE  r.hash # s.hash /\ r.id.origin \in Tabs
    BY DEF RetryPostsOnce
  <2>1. HashesApart /\ RefsApart /\ AsFed(r) /\ AsFed(s)
    BY DEF PostedOnce, RecordsApart
  <2>2. r.hash # s.hash
    BY <2>1 DEF HashesApart
  <2>3. CASE r.id.origin \notin Tabs
    <3>1. r.ref = s.ref /\ (r.ref = NoRef => r.hash = s.hash)
      BY <2>1, <2>3 DEF AsFed
    <3>. QED
      BY <2>1, <2>2, <3>1 DEF RefsApart
  <2>. QED
    BY <2>2, <2>3
<1>. QED
  BY <1>1, PostsOnce, PTL

-----------------------------------------------------------------------------
(* A sync that nothing disturbed leaves its sheet mirrored: a row that it  *)
(* has passed is held until records go, the sheet changes, or another      *)
(* sheet writes the record.                                                *)

Says(r, row) == /\ r.ref = row.ref /\ r.hash = HashOf(row)
                /\ r.text.updatable = row.text.updatable
Held(row) == \E r \in records : Says(r, row)
Clear(s, ref) == ref = NoRef \/ \A t, u \in Tabs : \A i \in DOMAIN feed[t], j \in DOMAIN feed[u] :
    SourceOf[t] = s /\ SourceOf[u] = s /\ feed[t][i].ref = ref /\ feed[u][j].ref = ref => t = u /\ i = j
Good(t, i) == feed[t][i].kind = "full" /\ Clear(SourceOf[t], feed[t][i].ref) => Held(feed[t][i])
MirroredTo(t, n) == \A i \in DOMAIN feed[t] : i <= n => Good(t, i)

SheetRun(w) == QueueOf[w] = "sheets" /\ Busy(w)
Trusted(w) == run[w].calm \/ Source(w) \in fresh
Reached(r, t) == IF r.at \in OnRow /\ t = r.tab THEN (IF r.at = "sum" THEN r.line ELSE r.line - 1) ELSE MaxLines
Reads(w) == SheetRun(w) /\ run[w].at \in OnRow
Passes(w) == SheetRun(w) /\ run[w].at \in OnRow \cup {"fetch", "tabDone"}

ReadsFeed(w) == Reads(w) /\ Trusted(w) => run[w].rows = feed[run[w].tab]
Covers(w) == Passes(w) /\ run[w].calm =>
    \A t \in tabsOn : SourceOf[t] = Source(w) /\ t \notin run[w].left => MirroredTo(t, Reached(run[w], t))
FoundStays(w) == Looks(w) /\ run[w].calm /\ run[w].found # {} => \E r \in records : r.id \in run[w].found
RunMirrors(w) == ReadsFeed(w) /\ Covers(w) /\ FoundStays(w)
RunsAlone(w, v) ==
    SheetRun(w) /\ SheetRun(v) /\ w # v /\ Source(v) = Source(w) /\ run[w].calm /\ run[w].at # "start"
      => run[v].at = "start"
FreshMirrored == \A t \in tabsOn : SourceOf[t] \in fresh => MirroredTo(t, MaxLines)
Mirroring == FreshMirrored /\ \A w \in Workers : RunMirrors(w) /\ \A v \in Workers : RunsAlone(w, v)

(* A step leaves what is mirrored of sheet s, or nobody trusts it any more. *)
Intact(s) == \A t \in Tabs : SourceOf[t] = s =>
    /\ feed'[t] = feed[t] /\ (t \in tabsOn' => t \in tabsOn)
    /\ \A i \in DOMAIN feed[t] : Good(t, i) => Good(t, i)'
Lost(s) == /\ s \notin fresh'
           /\ \A v \in Workers : (SheetRun(v) /\ Source(v) = s)' => run'[v].at = "start" \/ ~run'[v].calm

LEMMA ClearSame ==
    ASSUME NEW s, \A t \in Tabs : SourceOf[t] = s => feed'[t] = feed[t], NEW ref
    PROVE  Clear(s, ref)' <=> Clear(s, ref)
  BY DEF Clear

LEMMA HeldIntact ==
    ASSUME NEW s, \A t \in Tabs : SourceOf[t] = s => feed'[t] = feed[t] /\ (t \in tabsOn' => t \in tabsOn),
           records \subseteq records'
    PROVE  Intact(s)
<1>1. \A row : Held(row) => Held(row)'
  BY DEF Held
<1>2. \A ref : Clear(s, ref)' <=> Clear(s, ref)
  BY ClearSame
<1>3. ASSUME NEW t \in Tabs, SourceOf[t] = s, NEW i \in DOMAIN feed[t], Good(t, i)
      PROVE  Good(t, i)'
  <2>1. feed'[t] = feed[t]
    BY <1>3
  <2>. QED
    BY <1>1, <1>2, <1>3, <2>1 DEF Good
<1>. QED
  BY <1>3 DEF Intact

(* A run that is disturbed is not calm. *)
LEMMA NotCalm ==
    ASSUME NEW asked, NEW w \in Workers, NEW r, r.at # "idle", RunOK(asked, w, r)
    PROVE  ~[r EXCEPT !.calm = FALSE].calm
<1>1. r # Idle
  BY DEF Idle
<1>2. r \in Begins \/ r \in Counts \/ r \in Lines \/ r \in Posts \/ r \in Filings
  BY <1>1 DEF RunOK
<1>. QED
  BY <1>2 DEF Begins, Counts, Lines, Posts, Filings

LEMMA DisturbLoses ==
    ASSUME Typed, NEW S, Disturb(S), ask' = ask, NEW s \in S
    PROVE  Lost(s)
<1>1. s \notin fresh'
  BY DEF Disturb
<1>2. ASSUME NEW v \in Workers, SheetRun(v)', Source(v)' = s
      PROVE  ~run'[v].calm
  <2>1. Same(run'[v], run[v]) /\ run'[v] = Disturbed(S)[v]
    BY DisturbedSame DEF Disturb
  <2>2. Busy(v) /\ QueueOf[v] = "sheets" /\ Source(v) = s
    BY <1>2, <2>1, OthersBusy DEF SheetRun, Source
  <2>3. run'[v] = [run[v] EXCEPT !.calm = FALSE]
    BY <2>1, <2>2 DEF Disturbed, Busy
  <2>4. RunOK(ask, v, run[v]) /\ run[v].at # "idle"
    BY <2>2 DEF Typed, RunTyped, Busy
  <2>. QED
    BY <2>3, <2>4, NotCalm
<1>. QED
  BY <1>1, <1>2 DEF Lost

(* A run of the sheets' queue is on a sheet. *)
LEMMA SheetSource == ASSUME NEW w \in Workers, Typed, SheetRun(w) PROVE Source(w) \in Sheets
<1>1. Fits(ask, "sheets", run[w].job)
  BY JobOwners DEF SheetRun
<1>. QED
  BY <1>1 DEF Fits, Source, Of

(* Workers add no tabs, and only the end of a sync makes a sheet fresh. *)
LEMMA WorkerTabs ==
    ASSUME NEW w \in Workers, Typed, Work(w) \/ Fault(w) \/ CrashWorker(w)
    PROVE  tabsOn' = tabsOn /\ (fresh' \subseteq fresh \/ ShFinish(w))
<1>1. CASE SheetsStep(w)
  BY <1>1 DEF SheetsStep, ShStart, ShTabs, ShFetch, ShCompare, ShError, ShLookup, ShUpdate, ShInsert,
     ShStore, ShTabDone, ShFinish, ShStamp, Rest
<1>2. CASE SourceStep(w)
  BY <1>2 DEF SourceStep, SyStart, SyError, SyInsert, SyFinish, Kept
<1>3. CASE ExportStep(w)
  BY <1>3, ExportsOwn DEF Aside
<1>4. CASE Take(w) \/ Ack(w) \/ Fault(w) \/ CrashWorker(w)
  BY <1>4 DEF Take, Ack, Fault, CrashWorker
<1>. QED
  BY <1>1, <1>2, <1>3, <1>4 DEF Work

(* The row of another line, or of another sheet, is held as it was. *)
LEMMA UpdateHeld ==
    ASSUME NEW w \in Workers, FoundByRef(w), Looks(w), NEW row, Held(row), row.ref # Line(w).ref,
           \A r \in records : r.id \notin run[w].found => r \in records'
    PROVE  Held(row)'
  BY DEF FoundByRef, Held, Says

(* What is updated says what the line does. *)
LEMMA UpdateSays ==
    ASSUME NEW w, NEW r \in RecordType, r.ref = Line(w).ref, Line(w).text \in Texts
    PROVE  Says(Updated(r, w), Line(w))
  BY UpdatedRecord DEF Says

LEMMA UpdateIntact ==
    ASSUME NEW w \in Workers, Typed, PostedOnce, Mirroring, ShUpdate(w), NEW s \in Sheets,
           ~UNCHANGED <<records, fresh>>
    PROVE  Intact(s) \/ Lost(s)
<1>. DEFINE hit == {r \in records : r.id \in run[w].found}
            new == {Updated(r, w) : r \in hit}
<1>0. /\ Looks(w) /\ run[w].at = "post" /\ QueueOf[w] = "sheets" /\ Busy(w) /\ run[w].found # {}
      /\ records' = (records \ hit) \cup new /\ fresh' = fresh \ SharedBy(w)
      /\ run' = [Disturbed(SharedBy(w)) EXCEPT ![w].at = "sum"]
      /\ UNCHANGED <<feed, tabsOn, ask>>
  BY DEF ShUpdate, At, Rest, Looks, Busy
<1>1. \A r \in hit : r \in RecordType /\ r.ref = Line(w).ref
  BY <1>0 DEF PostedOnce, FoundByRef, Typed, RecordsTyped
<1>2. \A r \in hit : \E c \in records' : Says(c, Line(w))
  <2>1. Line(w).text \in Texts
    BY <1>0, LineType DEF Typed, OnRow, Row
  <2>2. \A r \in hit : Says(Updated(r, w), Line(w))
    BY <1>1, <2>1, UpdateSays
  <2>. QED
    BY <1>0, <2>2
<1>3. \A r \in records : r.id \notin run[w].found => r \in records'
  BY <1>0
<1>. HIDE DEF hit, new
<1>4. run[w] \in Lines /\ OnTab(ask, run[w]) /\ Line(w).ref # NoRef
  BY <1>0, RowRun DEF OnTab, OnRow, Line, Typed
<1>5. \A ref : Clear(s, ref)' <=> Clear(s, ref)
  BY <1>0, ClearSame
<1>6. Others(w) /\ Source(w)' = Source(w) /\ run'[w].calm = run[w].calm
  <2>1. Work(w)
    BY DEF Work, SheetsStep
  <2>2. Disturbed(SharedBy(w))[w] = run[w]
    BY DEF Disturbed, SharedBy
  <2>3. run'[w] = [run[w] EXCEPT !.at = "sum"]
    BY <1>0, <2>2 DEF Disturbed
  <2>4. run'[w].job = run[w].job /\ run'[w].calm = run[w].calm
    BY <1>4, <2>3 DEF Lines
  <2>. QED
    BY <1>0, <2>1, <2>4, WorkerOthers DEF Source, Of
<1>7. CASE s \in SharedBy(w)
  <2>1. s # Source(w) /\ s \notin fresh'
    BY <1>0, <1>7 DEF SharedBy
  <2>2. ASSUME NEW v \in Workers, SheetRun(v)', Source(v)' = s
        PROVE  ~run'[v].calm
    <3>1. v # w
      BY <1>6, <2>1, <2>2
    <3>2. run'[v] = Disturbed(SharedBy(w))[v] /\ Same(run'[v], run[v])
      BY <1>0, <1>6, <3>1 DEF Disturbed, Others
    <3>3. Busy(v) /\ QueueOf[v] = "sheets" /\ Source(v) = s
      BY <1>0, <2>2, <3>2, OthersBusy DEF SheetRun, Source
    <3>4. run'[v] = [run[v] EXCEPT !.calm = FALSE]
      BY <1>7, <3>2, <3>3 DEF Disturbed, Busy
    <3>5. RunOK(ask, v, run[v]) /\ run[v].at # "idle"
      BY <3>3 DEF Typed, RunTyped, Busy
    <3>. QED
      BY <3>4, <3>5, NotCalm
  <2>. QED
    BY <2>1, <2>2 DEF Lost
<1>8. CASE s \notin SharedBy(w) /\ s # Source(w)
  <2>. SUFFICES ASSUME NEW t \in Tabs, SourceOf[t] = s, NEW i \in DOMAIN feed[t], Good(t, i)
                PROVE  Good(t, i)'
    BY <1>0 DEF Intact
  <2>1. feed[t][i].ref # Line(w).ref
    BY <1>8 DEF SharedBy
  <2>2. Held(feed[t][i]) => Held(feed[t][i])'
    BY <1>0, <1>3, <2>1, UpdateHeld DEF PostedOnce
  <2>. QED
    BY <1>0, <1>5, <2>2 DEF Good
<1>9. CASE s = Source(w) /\ Trusted(w)
  <2>. SUFFICES ASSUME NEW t \in Tabs, SourceOf[t] = s, NEW i \in DOMAIN feed[t], Good(t, i),
                       feed[t][i].kind = "full", Clear(s, feed[t][i].ref)
                PROVE  Held(feed[t][i])'
    BY <1>0, <1>5 DEF Intact, Good
  <2>1. Held(feed[t][i])
    BY DEF Good
  <2>2. CASE feed[t][i].ref # Line(w).ref
    BY <1>0, <1>3, <2>1, <2>2, UpdateHeld DEF PostedOnce
  <2>3. CASE feed[t][i].ref = Line(w).ref
    <3>1. run[w].rows = feed[run[w].tab]
      BY <1>0, <1>9 DEF Mirroring, RunMirrors, ReadsFeed, Reads, SheetRun, OnRow
    <3>2. run[w].tab \in Tabs /\ SourceOf[run[w].tab] = s /\ run[w].line \in DOMAIN feed[run[w].tab]
      BY <1>0, <1>4, <1>9, <3>1, LineType DEF OnTab, Lines, Source, Of, Typed, OnRow
    <3>3. feed[run[w].tab][run[w].line] = Line(w)
      BY <3>1 DEF Line
    <3>4. t = run[w].tab /\ i = run[w].line
      BY <1>4, <2>3, <3>2, <3>3 DEF Clear
    <3>5. feed[t][i] = Line(w)
      BY <3>3, <3>4
    <3>6. Held(Line(w))
      BY <2>1, <3>5
    <3>7. PICK r \in records : Says(r, Line(w))
      BY <3>6 DEF Held
    <3>8. \E c \in records' : Says(c, Line(w))
      <4>1. CASE r.id \in run[w].found
        BY <1>2, <4>1 DEF hit
      <4>2. CASE r.id \notin run[w].found
        BY <1>3, <3>7, <4>2
      <4>. QED
        BY <4>1, <4>2
    <3>9. feed'[t][i] = Line(w)
      BY <1>0, <3>5
    <3>. QED
      BY <3>8, <3>9 DEF Held
  <2>. QED
    BY <2>2, <2>3
<1>10. CASE s = Source(w) /\ ~Trusted(w)
  <2>1. s \notin fresh' /\ ~run[w].calm
    BY <1>0, <1>10 DEF Trusted
  <2>2. ASSUME NEW v \in Workers, SheetRun(v)', Source(v)' = s, run'[v].calm
        PROVE  run'[v].at = "start"
    <3>1. CASE v = w
      BY <1>6, <2>1, <2>2, <3>1
    <3>2. CASE v # w
      <4>1. Same(run'[v], run[v]) /\ RunOK(ask, v, run[v])
        BY <1>6, <3>2 DEF Others, Typed, RunTyped
      <4>2. SheetRun(v) /\ Source(v) = s
        BY <1>0, <2>2, <4>1, OthersBusy DEF SheetRun, Source
      <4>3. run[v].calm /\ run'[v].at = run[v].at
        BY <2>2, <4>1, <4>2, SameRun DEF SheetRun, Busy
      <4>4. run[v].at # "start" => run[w].at = "start"
        BY <1>0, <1>10, <3>2, <4>2, <4>3 DEF Mirroring, RunsAlone, SheetRun
      <4>. QED
        BY <1>0, <4>3, <4>4
    <3>. QED
      BY <3>1, <3>2
  <2>. QED
    BY <2>1, <2>2 DEF Lost
<1>. QED
  BY <1>7, <1>8, <1>9, <1>10

(* A worker spares each sheet, or nobody trusts it any more. *)
LEMMA WorkerIntact ==
    ASSUME NEW w \in Workers, Typed, PostedOnce, Mirroring, Work(w) \/ Fault(w) \/ CrashWorker(w), NEW s \in Sheets
    PROVE  Intact(s) \/ Lost(s)
<1>1. feed' = feed /\ tabsOn' = tabsOn
  BY WorkerFeed, WorkerTabs
<1>2. CASE records \subseteq records'
  BY <1>1, <1>2, HeldIntact
<1>3. CASE ShUpdate(w) /\ ~UNCHANGED <<records, fresh>>
  BY <1>3, UpdateIntact
<1>4. CASE ShInsert(w) \/ SyInsert(w)
  <2>1. records \subseteq records'
    BY <1>4 DEF ShInsert, SyInsert
  <2>. QED
    BY <1>2, <2>1
<1>. QED
  BY <1>2, <1>3, <1>4, WorkerFeed

(* So does a request, and an edit. *)
LEMMA EditFeed ==
    ASSUME Typed, NEW t \in Tabs, Edit(t)
    PROVE  \A o \in Origins \ {t} : feed'[o] = feed[o]
<1>1. PICK i \in DOMAIN feed[t] :
        \/ \E x \in Texts : feed' = [feed EXCEPT ![t][i].text = x]
        \/ feed' = [feed EXCEPT ![t] = SubSeq(feed[t], 1, i - 1) \o SubSeq(feed[t], i + 1, Len(feed[t]))]
  BY DEF Edit
<1>2. CASE \E x \in Texts : feed' = [feed EXCEPT ![t][i].text = x]
  <2>1. PICK rows : feed' = [feed EXCEPT ![t] = rows]
    BY <1>2
  <2>. QED
    BY <2>1 DEF Typed, FeedTyped
<1>3. CASE feed' = [feed EXCEPT ![t] = SubSeq(feed[t], 1, i - 1) \o SubSeq(feed[t], i + 1, Len(feed[t]))]
  BY <1>3 DEF Typed, FeedTyped
<1>. QED
  BY <1>1, <1>2, <1>3

LEMMA RequestIntact ==
    ASSUME Typed, Requested, NEW s \in Sheets
    PROVE  /\ Intact(s) \/ Lost(s)
           /\ records \subseteq records' \/ Lost(s)
<1>0. ask' = ask
  BY RequestedOthers
<1>1. ASSUME NEW q \in Requests, SetTab(q)
      PROVE  /\ Intact(s) \/ Lost(s)
             /\ records \subseteq records' \/ Lost(s)
  <2>1. /\ UNCHANGED <<feed, records>> /\ Disturb({SourceOf[ask[q].tab]})
        /\ tabsOn' \subseteq tabsOn \cup {ask[q].tab}
    BY <1>1 DEF SetTab
  <2>2. CASE s = SourceOf[ask[q].tab]
    BY <1>0, <2>1, <2>2, DisturbLoses
  <2>3. CASE s # SourceOf[ask[q].tab]
    BY <2>1, <2>3, HeldIntact
  <2>. QED
    BY <2>1, <2>2, <2>3
<1>2. ASSUME NEW q \in Requests, Discover(q)
      PROVE  /\ Intact(s) \/ Lost(s)
             /\ records \subseteq records' \/ Lost(s)
  <2>1. /\ UNCHANGED <<feed, records>> /\ Disturb({ask[q].source})
        /\ \E t : SourceOf[t] = ask[q].source /\ tabsOn' = tabsOn \cup {t}
    <3>1. PICK t \in IF req[q].at = "waiting" THEN {u \in Tabs : SourceOf[u] = ask[q].source} ELSE req[q].tabs :
            tabsOn' = tabsOn \cup {t}
      BY <1>2 DEF Discover
    <3>2. SourceOf[t] = ask[q].source
      <4>1. CASE req[q].at = "waiting"
        BY <3>1, <4>1
      <4>2. CASE req[q].at = "tabs"
        BY <3>1, <4>2 DEF Typed, ReqTyped, ReqOK
      <4>. QED
        BY <1>2, <4>1, <4>2 DEF Discover
    <3>. QED
      BY <1>2, <3>1, <3>2 DEF Discover
  <2>2. CASE s = ask[q].source
    BY <1>0, <2>1, <2>2, DisturbLoses
  <2>3. CASE s # ask[q].source
    BY <2>1, <2>3, HeldIntact
  <2>. QED
    BY <2>1, <2>2, <2>3
<1>3. ASSUME NEW q \in Requests, DeleteInvestment(q)
      PROVE  Lost(s)
  <2>1. Disturb(Sources) /\ s \in Sources
    BY <1>3, SyncAssumption DEF DeleteInvestment
  <2>. QED
    BY <1>0, <2>1, DisturbLoses
<1>4. ASSUME NEW t \in Tabs, Edit(t)
      PROVE  /\ Intact(s) \/ Lost(s)
             /\ records \subseteq records' \/ Lost(s)
  <2>1. UNCHANGED <<records, tabsOn>> /\ Disturb({SourceOf[t]})
    BY <1>4 DEF Edit
  <2>2. \A u \in Tabs \ {t} : feed'[u] = feed[u]
    BY <1>4, EditFeed DEF Origins
  <2>3. CASE s = SourceOf[t]
    BY <1>0, <2>1, <2>3, DisturbLoses
  <2>4. CASE s # SourceOf[t]
    BY <2>1, <2>2, <2>4, HeldIntact
  <2>. QED
    BY <2>1, <2>3, <2>4
<1>5. CASE UNCHANGED <<feed, records, tabsOn, fresh>>
  BY <1>5, HeldIntact
<1>6. \/ UNCHANGED <<feed, records, tabsOn, fresh>>
      \/ \E q \in Requests : SetTab(q) \/ Discover(q) \/ DeleteInvestment(q)
      \/ \E t \in Tabs : Edit(t)
  BY DEF Requested, Ask, Proceed, Accept, FindSource, InsertRow, Enqueue, InsertEvent, EnqueueEvent,
     WriteSource, Elapse, CrashApi
<1>. QED
  BY <1>1, <1>2, <1>3, <1>4, <1>5, <1>6

LEMMA RequestFresh == ASSUME Requested PROVE fresh' \subseteq fresh
  BY DEF Requested, Ask, Proceed, Accept, FindSource, InsertRow, Enqueue, InsertEvent, EnqueueEvent,
     WriteSource, Elapse, CrashApi, SetTab, Discover, DeleteInvestment, Edit, Disturb

(* What a run on a sheet has passed stays good when others step. *)
LEMMA OthersMirror ==
    ASSUME NEW v \in Workers, Typed, Typed', ask' = ask, Same(run'[v], run[v]), RunMirrors(v),
           SheetRun(v) => \/ Lost(Source(v))
                          \/ /\ Intact(Source(v)) /\ \A r \in records : \E c \in records' : c.id = r.id
                             /\ Source(v) \in fresh' => Source(v) \in fresh \/ run[v].at = "start"
    PROVE  RunMirrors(v)'
<1>. SUFFICES ASSUME SheetRun(v)', run'[v].at # "start", ~Lost(Source(v))
              PROVE  RunMirrors(v)'
  <2>1. CASE ~SheetRun(v)'
    <3>1. ~Looks(v)' /\ ~Reads(v)' /\ ~Passes(v)'
      BY <2>1 DEF SheetRun, Looks, Busy, Reads, Passes
    <3>. QED
      BY <3>1 DEF RunMirrors, ReadsFeed, Covers, FoundStays
  <2>2. CASE run'[v].at = "start"
    <3>1. ~Looks(v)' /\ ~Reads(v)' /\ ~Passes(v)'
      BY <2>2 DEF Looks, Reads, Passes, OnRow
    <3>. QED
      BY <3>1 DEF RunMirrors, ReadsFeed, Covers, FoundStays
  <2>3. CASE SheetRun(v)' /\ run'[v].at # "start" /\ Lost(Source(v))
    <3>1. Source(v)' = Source(v)
      BY <2>3, OthersBusy DEF SheetRun, Source
    <3>2. ~Trusted(v)' /\ ~run'[v].calm
      BY <2>3, <3>1 DEF Lost, Trusted
    <3>. QED
      BY <3>2 DEF RunMirrors, ReadsFeed, Covers, FoundStays
  <2>. QED
    BY <2>1, <2>2, <2>3
<1>1. SheetRun(v) /\ Source(v)' = Source(v) /\ RunOK(ask, v, run[v])
  BY OthersBusy DEF SheetRun, Source, Typed, RunTyped
<1>2. run'[v].at = run[v].at /\ (run'[v].calm => run[v].calm)
  BY <1>1, SameRun DEF SheetRun, Busy
<1>3. /\ Intact(Source(v)) /\ \A r \in records : \E c \in records' : c.id = r.id
      /\ Trusted(v)' => Trusted(v)
  BY <1>1, <1>2 DEF Trusted
<1>4. ReadsFeed(v)'
  <2>. SUFFICES ASSUME Reads(v)', Trusted(v)'
                PROVE  run'[v].rows = feed'[run'[v].tab]
    BY DEF ReadsFeed
  <2>1. Reads(v) /\ run[v].at \in OnRow /\ QueueOf[v] = "sheets"
    BY <1>1, <1>2 DEF Reads, SheetRun
  <2>2. run'[v].rows = run[v].rows /\ run'[v].tab = run[v].tab
    BY <1>1, <2>1, SameRun DEF OnRow
  <2>3. run[v].tab \in Tabs /\ SourceOf[run[v].tab] = Source(v)
    BY <2>1, RowRun DEF Typed, Lines, OnTab, Source, Of
  <2>. QED
    BY <1>3, <2>1, <2>2, <2>3 DEF RunMirrors, ReadsFeed, Intact
<1>5. Covers(v)'
  <2>. SUFFICES ASSUME Passes(v)', run'[v].calm, NEW t \in tabsOn', SourceOf[t] = Source(v)', t \notin run'[v].left
                PROVE  MirroredTo(t, Reached(run[v], t))'
    BY DEF Covers
  <2>1. Passes(v) /\ run[v].calm /\ QueueOf[v] = "sheets"
    BY <1>1, <1>2 DEF Passes, SheetRun
  <2>2. run'[v].left = run[v].left
    BY <1>1, <2>1, SameRun DEF Passes, OnRow
  <2>3. Reached(run'[v], t) = Reached(run[v], t)
    BY <1>1, <1>2, <2>1, SameRun DEF Reached, OnRow
  <2>4. t \in Tabs /\ t \in tabsOn /\ SourceOf[t] = Source(v) /\ feed'[t] = feed[t]
    BY <1>1, <1>3 DEF Intact, Typed, SourcesTyped
  <2>5. MirroredTo(t, Reached(run[v], t))
    BY <2>1, <2>2, <2>4 DEF RunMirrors, Covers
  <2>. QED
    BY <1>3, <2>3, <2>4, <2>5 DEF MirroredTo, Intact
<1>6. FoundStays(v)'
  <2>. SUFFICES ASSUME Looks(v)', run'[v].calm, run'[v].found # {}
                PROVE  \E r \in records' : r.id \in run'[v].found
    BY DEF FoundStays
  <2>1. Looks(v) /\ run[v].calm /\ run'[v].found = run[v].found
    BY <1>1, <1>2, SameRun DEF Looks, OnRow
  <2>2. PICK r \in records : r.id \in run[v].found
    BY <2>1 DEF RunMirrors, FoundStays
  <2>. QED
    BY <1>3, <2>1, <2>2
<1>. QED
  BY <1>4, <1>5, <1>6 DEF RunMirrors

(* What a run has passed, by its own step. *)

(* The rows up to the next line are good when those up to line i are.      *)
LEMMA NextReached ==
    ASSUME NEW w \in Workers, NEW i \in Nat, NEW t \in Tabs, Typed', QueueOf[w] = "sheets",
           run'[w].at \in {"row", "tabDone"}, run'[w].tab = t, run'[w].rows = feed'[t], NextLine(run'[w], i),
           i <= Len(feed'[t]), \A j \in DOMAIN feed'[t] : j <= i => Good(t, j)'
    PROVE  MirroredTo(t, Reached(run[w], t))'
<1>1. feed'[t] \in Seq(Row) /\ Len(feed'[t]) \in Nat /\ DOMAIN feed'[t] = 1 .. Len(feed'[t]) /\ Len(feed'[t]) <= MaxLines
  BY LenProperties DEF Typed, FeedTyped, Origins
<1>2. run'[w].line = After(feed'[t], i)
  BY DEF NextLine
<1>3. /\ run'[w].line \in i + 1 .. Len(feed'[t]) + 1
      /\ \A j \in i + 1 .. run'[w].line - 1 : feed'[t][j].kind = "blank"
  BY <1>1, <1>2, AfterLine
<1>4. \A j \in DOMAIN feed'[t] : j < run'[w].line => Good(t, j)'
  <2>. SUFFICES ASSUME NEW j \in DOMAIN feed'[t], j < run'[w].line, ~(j <= i)
                PROVE  Good(t, j)'
    OBVIOUS
  <2>1. j \in i + 1 .. run'[w].line - 1
    BY <1>1, <1>3
  <2>2. feed'[t][j].kind = "blank"
    BY <1>3, <2>1
  <2>. QED
    BY <2>2 DEF Good
<1>5. ASSUME NEW j \in DOMAIN feed'[t], j <= Reached(run'[w], t)
      PROVE  j < run'[w].line
  <2>1. CASE run'[w].at = "row"
    <3>1. Reached(run'[w], t) = run'[w].line - 1
      BY <2>1 DEF Reached, OnRow
    <3>. QED
      BY <1>1, <1>3, <1>5, <3>1
  <2>2. CASE run'[w].at = "tabDone"
    <3>1. run'[w].line > Len(feed'[t])
      BY <2>2 DEF NextLine
    <3>. QED
      BY <1>1, <1>3, <3>1
  <2>. QED
    BY <2>1, <2>2
<1>. QED
  BY <1>4, <1>5 DEF MirroredTo

(* A calm run holds the row that it has posted. *)
LEMMA PostedHeld ==
    ASSUME NEW w \in Workers, Typed, PostedOnce, RunMirrors(w), ShUpdate(w) \/ ShInsert(w),
           run'[w].at = "sum", run[w].calm
    PROVE  \E r \in records' : Says(r, Line(w))
<1>0. Looks(w) /\ run[w].at = "post" /\ QueueOf[w] = "sheets" /\ Line(w).text \in Texts
  <2>1. Looks(w) /\ run[w].at = "post" /\ QueueOf[w] = "sheets"
    BY DEF ShUpdate, ShInsert, At, Looks
  <2>. QED
    BY <2>1, LineType DEF Typed, OnRow, Row
<1>1. ~Throw(w)
  BY ThrowOthers DEF Typed, Idle
<1>2. CASE ShInsert(w)
  <2>1. PICK new : /\ new = [id |-> RecordId(w), ref |-> Line(w).ref, text |-> Line(w).text,
                             hash |-> HashOf(Line(w)), batch |-> Of(w)]
                   /\ records' = records \cup {new}
    BY <1>1, <1>2 DEF ShInsert
  <2>. QED
    BY <2>1 DEF Says
<1>3. CASE ShUpdate(w)
  <2>1. PICK r \in records : r.id \in run[w].found
    BY <1>0, <1>3 DEF RunMirrors, FoundStays, ShUpdate
  <2>2. r \in RecordType /\ r.ref = Line(w).ref
    BY <1>0, <2>1 DEF PostedOnce, FoundByRef, Typed, RecordsTyped
  <2>3. Updated(r, w) \in records'
    BY <1>1, <1>3, <2>1 DEF ShUpdate
  <2>. QED
    BY <1>0, <2>2, <2>3, UpdateSays
<1>. QED
  BY <1>2, <1>3

LEMMA TabsFetched ==
    ASSUME NEW w \in Workers, Typed, ShTabs(w)
    PROVE  /\ run'[w].job = run[w].job /\ run'[w].calm = run[w].calm /\ run'[w].at = "fetch"
           /\ run'[w].left = {t \in tabsOn : SourceOf[t] = Source(w)} /\ run[w].at = "tabs"
<1>1. PICK left : left = {t \in tabsOn : SourceOf[t] = Source(w)}
  OBVIOUS
<1>2. /\ run'[w] = [at |-> "fetch", job |-> run[w].job, calm |-> run[w].calm, valid |-> 0, invalid |-> 0, left |-> left]
      /\ run[w].at = "tabs"
  BY <1>1, TabsOwn
<1>. QED
  BY <1>1, <1>2

(* A step of a sheets worker keeps its job, unless it throws, its sheet    *)
(* and its calm, unless it starts.                                         *)
LEMMA OwnSheet ==
    ASSUME NEW w \in Workers, Typed, Typed', SheetsStep(w), run'[w] # Idle
    PROVE  /\ SheetRun(w) /\ Source(w)' = Source(w) /\ feed' = feed /\ tabsOn' = tabsOn
           /\ run[w].at = "start" \/ run'[w].calm = run[w].calm
           /\ ~ShStart(w) => run[w].at # "start" /\ run'[w].at # "start"
<1>1. run'[w].job = run[w].job
  <2>1. CASE ShStart(w) \/ ShTabs(w) \/ ShFetch(w) \/ ShCompare(w) \/ ShError(w) \/ ShLookup(w)
    BY <2>1, StartOwn, TabsFetched, FetchOwn, CompareOwn, ErrorOwn, LookupOwn DEF SameRow, SameTab
  <2>2. CASE ShUpdate(w) \/ ShInsert(w) \/ ShStore(w) \/ ShTabDone(w) \/ ShFinish(w) \/ ShStamp(w)
    BY <2>2, PostOwn, StoreOwn, TabDoneOwn, LastOwn DEF SameRow, SameTab
  <2>. QED
    BY <2>1, <2>2 DEF SheetsStep
<1>2. Work(w) /\ SheetRun(w)
  BY SheetsFrame DEF Work, SheetRun, Busy
<1>3. Source(w)' = Source(w)
  BY <1>1, <1>2, WorkerOthers DEF Source, Of
<1>4. CASE ShStart(w)
  BY <1>2, <1>3, <1>4, StartOwn, WorkerFeed, WorkerTabs
<1>5. CASE ShTabs(w) \/ ShFetch(w) \/ ShCompare(w) \/ ShError(w) \/ ShLookup(w)
  <2>1. run'[w].calm = run[w].calm /\ run[w].at # "start" /\ run'[w].at # "start"
    BY <1>5, TabsFetched, FetchOwn, CompareOwn, ErrorOwn, LookupOwn DEF SameRow, SameTab, NextLine
  <2>. QED
    BY <1>2, <1>3, <2>1, WorkerFeed, WorkerTabs
<1>6. CASE ShUpdate(w) \/ ShInsert(w) \/ ShStore(w) \/ ShTabDone(w)
  <2>1. run'[w].calm = run[w].calm /\ run[w].at # "start" /\ run'[w].at # "start"
    BY <1>6, PostOwn, StoreOwn, TabDoneOwn DEF SameRow, SameTab, NextLine
  <2>. QED
    BY <1>2, <1>3, <2>1, WorkerFeed, WorkerTabs
<1>7. CASE ShFinish(w) \/ ShStamp(w)
  <2>1. run'[w].calm = run[w].calm /\ run[w].at # "start" /\ run'[w].at # "start"
    BY <1>7, LastOwn
  <2>. QED
    BY <1>2, <1>3, <2>1, WorkerFeed, WorkerTabs
<1>. QED
  BY <1>4, <1>5, <1>6, <1>7 DEF SheetsStep

LEMMA OwnMirror ==
    ASSUME NEW w \in Workers, Typed, Typed', PostedOnce, RunMirrors(w), SheetsStep(w), run'[w] # Idle,
           run'[w].at # "start", Intact(Source(w))
    PROVE  RunMirrors(w)'
<1>0. /\ SheetRun(w) /\ QueueOf[w] = "sheets" /\ Source(w)' = Source(w) /\ feed' = feed /\ tabsOn' = tabsOn
      /\ run[w].at # "start" => run'[w].calm = run[w].calm
  BY OwnSheet DEF SheetRun
<1>1. \A t \in Tabs : \A i \in DOMAIN feed[t] : SourceOf[t] = Source(w) /\ Good(t, i) => Good(t, i)'
  BY DEF Intact
<1>2. ASSUME NEW t \in Tabs, SourceOf[t] = Source(w), NEW n, MirroredTo(t, n)
      PROVE  MirroredTo(t, n)'
  BY <1>0, <1>1, <1>2 DEF MirroredTo
<1>3. ASSUME ~Reads(w)', ~Passes(w)'
      PROVE  RunMirrors(w)'
  BY <1>3 DEF RunMirrors, ReadsFeed, Covers, FoundStays, Looks, Reads, SheetRun, OnRow, Busy
<1>4. CASE ShStart(w) \/ ShFinish(w) \/ ShStamp(w)
  <2>1. run'[w].at \in {"tabs", "stamp", "ack"}
    BY <1>4, StartOwn, LastOwn
  <2>. QED
    BY <1>3, <2>1 DEF Reads, Passes, OnRow
<1>5. CASE ShTabs(w)
  <2>1. run'[w].left = {t \in tabsOn : SourceOf[t] = Source(w)} /\ run'[w].at = "fetch"
    BY <1>5, TabsFetched
  <2>2. Covers(w)'
    BY <1>0, <2>1 DEF Covers
  <2>. QED
    BY <2>1, <2>2 DEF RunMirrors, ReadsFeed, FoundStays, Reads, Looks, OnRow
<1>6. CASE ShFetch(w)
  <2>1. PICK t \in run[w].left :
          /\ t \in Tabs /\ run'[w].left = run[w].left \ {t} /\ run'[w].tab = t /\ run'[w].rows = feed[t]
          /\ run[w].at = "fetch" /\ run'[w].calm = run[w].calm /\ NextLine(run'[w], 0)
    BY <1>6, FetchOwn
  <2>2. ReadsFeed(w)' /\ FoundStays(w)'
    BY <1>0, <2>1 DEF ReadsFeed, FoundStays, Looks, NextLine
  <2>3. MirroredTo(t, Reached(run[w], t))'
    <3>1. 0 \in Nat /\ 0 <= Len(feed'[t]) /\ \A j \in DOMAIN feed'[t] : ~(j <= 0)
      BY LenProperties DEF Typed, FeedTyped, Origins
    <3>. QED
      BY <1>0, <2>1, <3>1, NextReached DEF NextLine
  <2>4. ASSUME run'[w].calm, NEW u \in tabsOn, SourceOf[u] = Source(w), u \notin run'[w].left, u # t
        PROVE  MirroredTo(u, Reached(run[w], u))'
    <3>1. Reached(run'[w], u) = MaxLines /\ Reached(run[w], u) = MaxLines
      BY <2>1, <2>4 DEF Reached, OnRow
    <3>2. u \in Tabs /\ u \notin run[w].left /\ Passes(w) /\ run[w].calm
      BY <1>0, <2>1, <2>4 DEF Passes, Typed, SourcesTyped
    <3>3. MirroredTo(u, MaxLines)
      BY <2>4, <3>1, <3>2 DEF RunMirrors, Covers
    <3>. QED
      BY <1>2, <2>4, <3>1, <3>2, <3>3
  <2>5. Covers(w)'
    BY <1>0, <2>3, <2>4 DEF Covers
  <2>. QED
    BY <2>2, <2>5 DEF RunMirrors
<1>7. ASSUME SameRow(run'[w], run[w]), run[w].at \in OnRow \cup {"tabDone"}, run'[w].at \in OnRow \cup {"fetch"},
             fresh' \subseteq fresh,
             run[w].at \in OnRow <=> run'[w].at \in OnRow,
             run[w].at # "sum", run'[w].at = "sum" => run[w].at = "post",
             run'[w].at = "sum" /\ run[w].calm /\ run[w].rows = feed[run[w].tab] =>
               \A t, i : t = run[w].tab /\ i = run[w].line => Good(t, i)',
             run'[w].at = "post" /\ run'[w].found # {} => \E r \in records' : r.id \in run'[w].found
      PROVE  RunMirrors(w)'
  <2>1. /\ run'[w].left = run[w].left /\ run'[w].tab = run[w].tab /\ run'[w].rows = run[w].rows
        /\ run'[w].line = run[w].line /\ run'[w].calm = run[w].calm /\ Passes(w)
    BY <1>0, <1>7 DEF SameRow, SameTab, Passes
  <2>2. /\ run[w].tab \in Tabs /\ SourceOf[run[w].tab] = Source(w) /\ run[w].line \in Nat
        /\ \A t \in tabsOn : t \in Tabs
    BY <1>0, <1>7, RowRun DEF Typed, Lines, OnTab, Source, Of, SourcesTyped
  <2>3. ReadsFeed(w)'
    BY <1>0, <1>7, <2>1, <2>2 DEF RunMirrors, ReadsFeed, Reads, Trusted
  <2>4. FoundStays(w)'
    BY <1>7 DEF FoundStays, Looks
  <2>5. ASSUME run[w].calm, NEW t \in tabsOn, SourceOf[t] = Source(w), t \notin run[w].left
        PROVE  MirroredTo(t, Reached(run[w], t))'
    <3>1. MirroredTo(t, Reached(run[w], t))
      BY <2>1, <2>5 DEF RunMirrors, Covers
    <3>2. CASE Reached(run'[w], t) = Reached(run[w], t)
      BY <1>2, <2>2, <2>5, <3>1, <3>2
    <3>3. CASE Reached(run'[w], t) # Reached(run[w], t)
      <4>1. t = run[w].tab /\ run'[w].at = "sum" /\ run[w].at = "post"
        BY <1>7, <2>1, <3>3 DEF Reached, OnRow
      <4>2. Reached(run'[w], t) = run[w].line /\ Reached(run[w], t) = run[w].line - 1
        BY <2>1, <4>1 DEF Reached, OnRow
      <4>3. \A i : i = run[w].line => Good(t, i)'
        BY <1>0, <1>7, <2>5, <4>1 DEF RunMirrors, ReadsFeed, Reads, Trusted, OnRow
      <4>4. \A i \in DOMAIN feed[t] : i <= run[w].line => i <= run[w].line - 1 \/ i = run[w].line
        <5>1. DOMAIN feed[t] = 1 .. Len(feed[t]) /\ Len(feed[t]) \in Nat
          BY <2>2, <2>5, LenProperties DEF Typed, FeedTyped, Origins
        <5>. QED
          BY <2>2, <5>1
      <4>. QED
        BY <1>0, <1>1, <2>2, <2>5, <3>1, <4>1, <4>2, <4>3, <4>4 DEF MirroredTo
    <3>. QED
      BY <3>2, <3>3
  <2>6. Covers(w)'
    BY <1>0, <2>1, <2>5 DEF Covers
  <2>. QED
    BY <2>3, <2>4, <2>6 DEF RunMirrors
<1>8. CASE ShCompare(w) \/ ShTabDone(w)
  <2>1. /\ SameRow(run'[w], run[w]) /\ run[w].at \in OnRow \cup {"tabDone"} /\ run'[w].at \in OnRow \cup {"fetch"}
        /\ run[w].at \in OnRow <=> run'[w].at \in OnRow
        /\ run[w].at # "sum" /\ run'[w].at # "sum" /\ (run'[w].at = "post" => run'[w].found = {})
    BY <1>8, CompareOwn, TabDoneOwn DEF OnRow
  <2>2. fresh' \subseteq fresh
    BY <1>8 DEF ShCompare, ShTabDone
  <2>. QED
    BY <1>7, <2>1, <2>2
<1>9. CASE ShLookup(w)
  <2>1. /\ SameRow(run'[w], run[w]) /\ run[w].at = "lookup" /\ run'[w].at = "post"
        /\ run'[w].found = {r.id : r \in {s \in records : s.ref = Line(w).ref}}
    BY <1>9, LookupOwn
  <2>2. UNCHANGED <<records, fresh>>
    BY <1>9 DEF ShLookup
  <2>3. run'[w].found # {} => \E r \in records' : r.id \in run'[w].found
    BY <2>1, <2>2
  <2>. QED
    BY <1>7, <2>1, <2>2, <2>3 DEF OnRow
<1>10. CASE ShUpdate(w) \/ ShInsert(w)
  <2>1. SameRow(run'[w], run[w]) /\ run[w].at = "post" /\ run'[w].at = "sum"
    BY <1>10, PostOwn
  <2>2. fresh' \subseteq fresh
    BY <1>10 DEF ShUpdate, ShInsert
  <2>3. ASSUME run[w].calm, run[w].rows = feed[run[w].tab], NEW t, NEW i, t = run[w].tab, i = run[w].line
        PROVE  Good(t, i)'
    <3>1. \E r \in records' : Says(r, Line(w))
      BY <1>10, <2>1, <2>3, PostedHeld
    <3>2. feed'[t][i] = Line(w)
      BY <1>0, <2>3 DEF Line
    <3>. QED
      BY <3>1, <3>2 DEF Good, Held
  <2>. QED
    BY <1>7, <2>1, <2>2, <2>3 DEF OnRow
<1>11. CASE ShError(w) \/ ShStore(w)
  <2>1. /\ SameTab(run'[w], run[w]) /\ NextLine(run'[w], run[w].line) /\ run[w].at \in {"error", "sum"}
        /\ run[w].at = "error" <=> ShError(w)
    BY <1>11, ErrorOwn, StoreOwn
  <2>2. /\ run'[w].left = run[w].left /\ run'[w].tab = run[w].tab /\ run'[w].rows = run[w].rows
        /\ run'[w].calm = run[w].calm /\ run[w].at \in OnRow /\ Passes(w) /\ Reads(w)
        /\ run'[w].at \in {"row", "tabDone"}
    BY <1>0, <2>1 DEF SameTab, OnRow, Passes, Reads, NextLine
  <2>3. /\ run[w].tab \in Tabs /\ SourceOf[run[w].tab] = Source(w) /\ run[w].line \in Nat
        /\ run[w].line <= Len(run[w].rows)
        /\ run[w].at = "error" => run[w].rows[run[w].line].kind = "short"
        /\ \A t \in tabsOn : t \in Tabs
    BY <1>0, <2>2, RowRun DEF Typed, Lines, OnTab, Source, Of, SourcesTyped
  <2>4. fresh' = fresh
    BY <1>11 DEF ShError, ShStore
  <2>5. ReadsFeed(w)' /\ FoundStays(w)'
    BY <1>0, <2>2, <2>4 DEF RunMirrors, ReadsFeed, Reads, Trusted, FoundStays, Looks
  <2>6. ASSUME run[w].calm, NEW t \in tabsOn, SourceOf[t] = Source(w), t \notin run[w].left
        PROVE  MirroredTo(t, Reached(run[w], t))'
    <3>1. MirroredTo(t, Reached(run[w], t))
      BY <2>2, <2>6 DEF RunMirrors, Covers
    <3>2. CASE t # run[w].tab
      <4>1. Reached(run'[w], t) = Reached(run[w], t)
        BY <2>2, <3>2 DEF Reached
      <4>. QED
        BY <1>2, <2>3, <2>6, <3>1, <4>1
    <3>3. CASE t = run[w].tab
      <4>1. run[w].rows = feed[t] /\ run'[w].rows = feed'[t]
        BY <1>0, <2>2, <2>6, <3>3 DEF RunMirrors, ReadsFeed, Trusted
      <4>2. ASSUME NEW j \in DOMAIN feed'[t], j <= run[w].line
            PROVE  Good(t, j)'
        <5>1. CASE run[w].at = "sum"
          <6>1. Reached(run[w], t) = run[w].line
            BY <3>3, <5>1 DEF Reached, OnRow
          <6>. QED
            BY <1>0, <1>1, <2>3, <2>6, <3>1, <4>2, <6>1 DEF MirroredTo
        <5>2. CASE run[w].at = "error"
          <6>1. Reached(run[w], t) = run[w].line - 1
            BY <3>3, <5>2 DEF Reached, OnRow
          <6>2. j <= run[w].line - 1 \/ j = run[w].line
            <7>1. DOMAIN feed[t] = 1 .. Len(feed[t]) /\ Len(feed[t]) \in Nat
              BY <2>3, <2>6, LenProperties DEF Typed, FeedTyped, Origins
            <7>. QED
              BY <1>0, <2>3, <4>2, <7>1
          <6>3. j = run[w].line => Good(t, j)'
            BY <1>0, <2>3, <4>1, <5>2 DEF Good
          <6>. QED
            BY <1>0, <1>1, <2>3, <2>6, <3>1, <4>2, <6>1, <6>2, <6>3 DEF MirroredTo
        <5>. QED
          BY <2>1, <5>1, <5>2
      <4>3. run[w].line <= Len(feed'[t])
        BY <1>0, <2>3, <4>1
      <4>. QED
        BY <1>0, <2>1, <2>2, <2>3, <2>6, <3>3, <4>1, <4>2, <4>3, NextReached
    <3>. QED
      BY <3>2, <3>3
  <2>7. Covers(w)'
    BY <1>0, <2>2, <2>6 DEF Covers
  <2>. QED
    BY <2>5, <2>7 DEF RunMirrors
<1>. QED
  BY <1>4, <1>5, <1>6, <1>8, <1>9, <1>10, <1>11 DEF SheetsStep

(* A calm run of a sheet is alone on it once it has started. *)
LEMMA AloneStep ==
    ASSUME Typed, Typed', JobsApart, [Next]_vars, NEW x \in Workers, NEW y \in Workers, RunsAlone(x, y)
    PROVE  RunsAlone(x, y)'
<1>. SUFFICES ASSUME SheetRun(x)', SheetRun(y)', x # y, Source(y)' = Source(x)', run'[x].calm, run'[x].at # "start"
              PROVE  run'[y].at = "start"
  BY DEF RunsAlone
<1>1. ASSUME NEW v \in Workers, Same(run'[v], run[v]), ask' = ask, SheetRun(v)'
      PROVE  /\ SheetRun(v) /\ Source(v)' = Source(v) /\ run'[v].at = run[v].at
             /\ run'[v].calm => run[v].calm
  <2>1. SheetRun(v) /\ Source(v)' = Source(v)
    BY <1>1, OthersBusy DEF SheetRun, Source
  <2>. QED
    BY <1>1, <2>1, SameRun DEF SheetRun, Busy, Typed, RunTyped
<1>2. ASSUME ask' = ask, Same(run'[x], run[x]), Same(run'[y], run[y])
      PROVE  run'[y].at = "start"
  BY <1>1, <1>2 DEF RunsAlone
<1>3. ASSUME NEW w \in Workers, Work(w) \/ Fault(w) \/ CrashWorker(w), SheetRun(w)', run'[w].at # "start"
      PROVE  SheetsStep(w) /\ run'[w] # Idle
  <2>1. QueueOf[w] = "sheets" /\ run'[w].at # "idle"
    BY <1>3 DEF SheetRun, Busy
  <2>2. ~SourceStep(w) /\ ~ExportStep(w)
    BY <2>1, PostsOwn, ExportsOwn DEF ExportStep
  <2>3. ~(Take(w) \/ Ack(w) \/ Fault(w) \/ CrashWorker(w))
    BY <1>3, <2>1, GotoOthers, ThrowOthers DEF Take, Ack, Fault, CrashWorker, Typed, Idle
  <2>. QED
    BY <1>3, <2>1, <2>2, <2>3 DEF Work, Idle
<1>4. ASSUME NEW w \in Workers, Work(w) \/ Fault(w) \/ CrashWorker(w)
      PROVE  run'[y].at = "start"
  <2>0. Others(w) /\ ask' = ask
    BY <1>4, WorkerOthers
  <2>1. CASE w # x /\ w # y
    BY <1>2, <2>0, <2>1 DEF Others
  <2>2. CASE w = x
    <3>1. SheetsStep(x) /\ run'[x] # Idle
      BY <1>3, <1>4, <2>2
    <3>2. /\ SheetRun(x) /\ Source(x)' = Source(x)
          /\ run[x].at = "start" \/ run'[x].calm = run[x].calm
          /\ ~ShStart(x) => run[x].at # "start"
      BY <3>1, OwnSheet
    <3>3. SheetRun(y) /\ Source(y)' = Source(y) /\ run'[y].at = run[y].at
      BY <1>1, <2>0, <2>2 DEF Others
    <3>4. ~ShStart(x)
      <4>1. y \in OthersOn(x, Source(x))
        BY <3>2, <3>3 DEF OthersOn, SheetRun, Busy
      <4>. QED
        BY <4>1, StartOwn
    <3>. QED
      BY <3>2, <3>3, <3>4 DEF RunsAlone
  <2>3. CASE w = y
    <3>1. SUFFICES ASSUME run'[y].at # "start" PROVE FALSE
      OBVIOUS
    <3>2. SheetsStep(y) /\ run'[y] # Idle
      BY <1>3, <1>4, <2>3, <3>1
    <3>3. /\ SheetRun(y) /\ Source(y)' = Source(y)
          /\ ~ShStart(y) => run[y].at # "start"
      BY <3>2, OwnSheet
    <3>4. SheetRun(x) /\ Source(x)' = Source(x) /\ run'[x].at = run[x].at /\ run[x].calm
      BY <1>1, <2>0, <2>3 DEF Others
    <3>5. ShStart(y)
      BY <3>3, <3>4 DEF RunsAlone
    <3>6. x \in OthersOn(y, Source(y)) /\ x # y
      BY <3>3, <3>4 DEF OthersOn, SheetRun, Busy
    <3>7. run'[x] = [run[x] EXCEPT !.calm = FALSE]
      BY <3>5, <3>6 DEF ShStart
    <3>8. RunOK(ask, x, run[x]) /\ run[x].at # "idle"
      BY <3>4 DEF Typed, RunTyped, SheetRun, Busy
    <3>. QED
      BY <3>7, <3>8, NotCalm
  <2>. QED
    BY <2>1, <2>2, <2>3
<1>5. CASE Requested
  BY <1>2, <1>5, RequestedOthers
<1>6. CASE UNCHANGED vars
  BY <1>2, <1>6 DEF vars, Same
<1>. QED
  BY <1>4, <1>5, <1>6, NextSteps

(* A worker's step leaves what its own run has passed good. *)
LEMMA WorkerMirror ==
    ASSUME NEW w \in Workers, Typed, Typed', PostedOnce, Mirroring, Work(w) \/ Fault(w) \/ CrashWorker(w)
    PROVE  RunMirrors(w)'
<1>1. CASE ~SheetRun(w)' \/ run'[w].at = "start"
  <2>1. ~Looks(w)' /\ ~Reads(w)' /\ ~Passes(w)'
    BY <1>1 DEF SheetRun, Looks, Busy, Reads, Passes, OnRow
  <2>. QED
    BY <2>1 DEF RunMirrors, ReadsFeed, Covers, FoundStays
<1>2. CASE SheetRun(w)' /\ run'[w].at # "start"
  <2>1. QueueOf[w] = "sheets" /\ run'[w].at # "idle"
    BY <1>2 DEF SheetRun, Busy
  <2>2. ~SourceStep(w) /\ ~ExportStep(w)
    BY <2>1, PostsOwn, ExportsOwn DEF ExportStep
  <2>3. ~(Take(w) \/ Ack(w) \/ Fault(w) \/ CrashWorker(w))
    BY <1>2, <2>1, GotoOthers, ThrowOthers DEF Take, Ack, Fault, CrashWorker, Typed, Idle
  <2>4. SheetsStep(w) /\ run'[w] # Idle
    BY <2>1, <2>2, <2>3 DEF Work, Idle
  <2>5. SheetRun(w) /\ Source(w)' = Source(w)
    BY <2>4, OwnSheet
  <2>6. Source(w) \in Sheets
    BY <2>5, SheetSource
  <2>7. CASE Intact(Source(w))
    BY <1>2, <2>4, <2>7, OwnMirror DEF Mirroring
  <2>8. CASE Lost(Source(w))
    <3>1. ~run'[w].calm /\ ~Trusted(w)'
      BY <1>2, <2>5, <2>8 DEF Lost, Trusted
    <3>. QED
      BY <3>1 DEF RunMirrors, ReadsFeed, Covers, FoundStays
  <2>. QED
    BY <2>6, <2>7, <2>8, WorkerIntact
<1>. QED
  BY <1>1, <1>2

(* Workers take no record away. *)
LEMMA WorkerIds ==
    ASSUME NEW w \in Workers, Typed, Work(w) \/ Fault(w) \/ CrashWorker(w)
    PROVE  \A r \in records : \E c \in records' : c.id = r.id
<1>1. CASE records \subseteq records'
  BY <1>1
<1>2. CASE ShInsert(w) \/ SyInsert(w)
  BY <1>2 DEF ShInsert, SyInsert
<1>3. CASE ShUpdate(w)
  <2>. SUFFICES ASSUME NEW r \in records PROVE \E c \in records' : c.id = r.id
    OBVIOUS
  <2>1. Line(w).text \in Texts
    BY <1>3, LineType DEF ShUpdate, At, Typed, OnRow, Row
  <2>2. Updated(r, w).id = r.id
    BY <2>1, UpdatedRecord DEF Typed, RecordsTyped
  <2>3. r \in records' \/ Updated(r, w) \in records'
    BY <1>3 DEF ShUpdate
  <2>. QED
    BY <2>2, <2>3
<1>. QED
  BY <1>1, <1>2, <1>3, WorkerFeed

LEMMA MirrorStep ==
    Typed /\ Typed' /\ JobsApart /\ PostedOnce /\ Mirroring /\ [Next]_vars => Mirroring'
<1>. SUFFICES ASSUME Typed, Typed', JobsApart, PostedOnce, Mirroring, [Next]_vars PROVE Mirroring'
  OBVIOUS
<1>1. \A x, y \in Workers : RunsAlone(x, y)'
  BY AloneStep DEF Mirroring
<1>2. ASSUME \A s \in Sheets : Intact(s) \/ Lost(s),
             NEW t \in tabsOn', SourceOf[t] \in fresh',
             SourceOf[t] \notin fresh =>
               \E w \in Workers : ShFinish(w) /\ run[w].calm /\ SourceOf[t] = Source(w)
      PROVE  MirroredTo(t, MaxLines)'
  <2>1. t \in Tabs /\ SourceOf[t] \in Sheets
    BY SyncAssumption DEF Typed, SourcesTyped
  <2>2. Intact(SourceOf[t])
    BY <1>2, <2>1 DEF Lost
  <2>3. t \in tabsOn
    BY <1>2, <2>1, <2>2 DEF Intact
  <2>4. MirroredTo(t, MaxLines)
    <3>1. CASE SourceOf[t] \in fresh
      BY <2>3, <3>1 DEF Mirroring, FreshMirrored
    <3>2. ASSUME NEW w \in Workers, ShFinish(w), run[w].calm, SourceOf[t] = Source(w)
          PROVE  MirroredTo(t, MaxLines)
      <4>1. run[w].at = "fetch" /\ QueueOf[w] = "sheets" /\ run[w].left = {}
        BY <3>2 DEF ShFinish, At
      <4>2. Passes(w) /\ Reached(run[w], t) = MaxLines
        BY <4>1 DEF Passes, SheetRun, Busy, Reached, OnRow
      <4>. QED
        BY <2>3, <3>2, <4>1, <4>2 DEF Mirroring, RunMirrors, Covers
    <3>. QED
      BY <1>2, <3>1, <3>2
  <2>. QED
    BY <2>1, <2>2, <2>4 DEF MirroredTo, Intact
<1>3. ASSUME NEW w \in Workers, Work(w) \/ Fault(w) \/ CrashWorker(w)
      PROVE  Mirroring'
  <2>1. Others(w) /\ ask' = ask /\ \A s \in Sheets : Intact(s) \/ Lost(s)
    BY <1>3, WorkerOthers, WorkerIntact
  <2>2. \A s \in fresh' : s \in fresh \/ (ShFinish(w) /\ run[w].calm /\ s = Source(w))
    <3>1. CASE fresh' \subseteq fresh
      BY <3>1
    <3>2. CASE ShFinish(w)
      BY <3>2 DEF ShFinish
    <3>. QED
      BY <1>3, <3>1, <3>2, WorkerTabs
  <2>3. FreshMirrored'
    BY <1>2, <2>1, <2>2 DEF FreshMirrored
  <2>4. ASSUME NEW v \in Workers \ {w}
        PROVE  RunMirrors(v)'
    <3>1. ASSUME SheetRun(v), Source(v) \in fresh', Source(v) \notin fresh
          PROVE  run[v].at = "start"
      <4>1. ShFinish(w) /\ run[w].calm /\ Source(v) = Source(w)
        BY <2>2, <3>1
      <4>2. SheetRun(w) /\ run[w].at # "start"
        BY <4>1 DEF ShFinish, At, SheetRun, Busy
      <4>. QED
        BY <3>1, <4>1, <4>2 DEF Mirroring, RunsAlone
    <3>2. SheetRun(v) => Source(v) \in Sheets
      BY SheetSource
    <3>3. RunMirrors(v) /\ Same(run'[v], run[v])
      BY <2>1 DEF Mirroring, Others
    <3>. QED
      BY <1>3, <2>1, <3>1, <3>2, <3>3, OthersMirror, WorkerIds
  <2>5. RunMirrors(w)'
    BY <1>3, WorkerMirror
  <2>. QED
    BY <1>1, <2>3, <2>4, <2>5 DEF Mirroring
<1>4. CASE Requested
  <2>1. /\ ask' = ask /\ fresh' \subseteq fresh /\ \A v \in Workers : Same(run'[v], run[v])
    BY <1>4, SyncAssumption, RequestedOthers, RequestFresh
  <2>2. \A s \in Sheets : (Intact(s) \/ Lost(s)) /\ (records \subseteq records' \/ Lost(s))
    BY <1>4, RequestIntact
  <2>3. FreshMirrored'
    BY <1>2, <2>1, <2>2 DEF FreshMirrored
  <2>4. ASSUME NEW v \in Workers
        PROVE  RunMirrors(v)'
    <3>1. SheetRun(v) => Source(v) \in Sheets
      BY SheetSource
    <3>2. RunMirrors(v)
      BY DEF Mirroring
    <3>. QED
      BY <2>1, <2>2, <3>1, <3>2, OthersMirror
  <2>. QED
    BY <1>1, <2>3, <2>4 DEF Mirroring
<1>5. CASE UNCHANGED vars
  <2>1. UNCHANGED <<feed, tabsOn, records, fresh, run, ask>>
    BY <1>5 DEF vars
  <2>2. \A s : Intact(s)
    BY <2>1, HeldIntact
  <2>3. FreshMirrored'
    BY <1>2, <2>1, <2>2 DEF FreshMirrored
  <2>4. ASSUME NEW v \in Workers
        PROVE  RunMirrors(v)'
    BY <2>1, <2>2, OthersMirror DEF Mirroring, Same
  <2>. QED
    BY <1>1, <2>3, <2>4 DEF Mirroring
<1>. QED
  BY <1>3, <1>4, <1>5, NextSteps

(* After a sync that finished while nothing else touched its sheet or the  *)
(* investments, every complete row of its active tabs has its record, with *)
(* the row's checksum and with what an UPDATE writes as the sheet has it,  *)
(* for any number of workers, requests and sheets, whatever crashed,       *)
(* failed or was stored before.                                            *)
THEOREM QuietSyncsMirror == Spec => []QuietSyncMirrors
<1>1. Init => Mirroring
  BY DEF Init, Mirroring, FreshMirrored, RunMirrors, ReadsFeed, Covers, FoundStays, RunsAlone, Reads, Passes,
     Looks, SheetRun, Busy, Idle
<1>2. Typed /\ Typed' /\ JobsApart /\ PostedOnce /\ Mirroring /\ [Next]_vars => Mirroring'
  BY MirrorStep
<1>3. Typed /\ Mirroring => QuietSyncMirrors
  <2>. SUFFICES ASSUME Typed, Mirroring, NEW t \in tabsOn, SourceOf[t] \in fresh, NEW row \in Rows(t),
                       row.kind = "full", Unambiguous(row.ref)
                PROVE  Held(row)
    BY DEF QuietSyncMirrors, Held, Says
  <2>1. PICK i \in DOMAIN feed[t] : row = feed[t][i]
    BY DEF Rows
  <2>2. t \in Tabs /\ i <= MaxLines
    <3>1. t \in Tabs /\ Len(feed[t]) <= MaxLines /\ Len(feed[t]) \in Nat /\ DOMAIN feed[t] = 1 .. Len(feed[t])
      BY LenProperties DEF Typed, SourcesTyped, FeedTyped, Origins
    <3>. QED
      BY <3>1, SyncAssumption
  <2>3. Clear(SourceOf[t], row.ref)
    BY DEF Unambiguous, Clear
  <2>4. Good(t, i)
    BY <2>1, <2>2 DEF Mirroring, FreshMirrored, MirroredTo
  <2>. QED
    BY <2>1, <2>3, <2>4 DEF Good
<1>. QED
  BY <1>1, <1>2, <1>3, SyncIsTyped, JobsStayApart, PostsOnce, PTL DEF Spec
=============================================================================

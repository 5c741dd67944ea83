----------------------------- MODULE SyncTyping -----------------------------
(***************************************************************************)
(* TypeOK is an invariant of the syncs, the reports and the outbox, for    *)
(* every choice of the constants.  It is not inductive: a worker's run     *)
(* must be known to be of the shape that its step left it in, its job to   *)
(* be one that its queue may hold, and its counts to fit the lines it has  *)
(* passed.                                                                 *)
(***************************************************************************)
EXTENDS SyncPipeline, TLAPS, SequenceTheorems, FiniteSetTheorems, WellFoundedInduction

JobType == [of : Requests, actor : {"admin", "system"}, tries : Nat, stalls : Nat]
IdType == [batch : Requests, job : JobType, origin : Origins, line : Nat]
SheetHash == (Refs \cup {NoRef}) \X Texts
HashType == SheetHash \cup {<<r>> : r \in Refs} \cup (Requests \X Nat)
RecordType == [id : IdType, ref : Refs \cup {NoRef}, text : Texts, hash : HashType, batch : Requests]
SourceRow == [on : BOOLEAN, recent : BOOLEAN]
BatchRow == [status : SyncStatus, valid : Nat, invalid : Nat]
ReportRow == [status : ReportStatus, size : SUBSET RecordType]
ReqStep == {"waiting", "insert", "enqueue", "event", "eventJob", "ok", "refused", "lost", "write", "tabs"}
ReqType == [at : ReqStep] \cup [at : ReqStep, row : SourceRow] \cup [at : ReqStep, tabs : SUBSET Tabs]

(* What a run holds, by the steps it has behind it.                        *)
Begins == [at : {"start", "tabs", "select", "ack"}, job : JobType, calm : BOOLEAN]
Counts == [at : {"fetch", "stamp", "ack"}, job : JobType, calm : BOOLEAN,
           valid : Nat, invalid : Nat, left : SUBSET Tabs]
OnRow == {"row", "error", "lookup", "post", "sum"}
Lines == [at : {"fetch", "stamp", "ack", "tabDone"} \cup OnRow, job : JobType, calm : BOOLEAN,
          valid : Nat, invalid : Nat, left : SUBSET Tabs, tab : Tabs, rows : Seq(Row), line : Nat,
          known : BOOLEAN, found : SUBSET IdType]
Posts == [at : {"row", "ack"}, job : JobType, calm : BOOLEAN, rows : Seq(Row), line : Nat,
          valid : Nat, invalid : Nat]
Filings == [at : {"file", "complete", "ack"}, job : JobType, calm : BOOLEAN,
            picked : SUBSET RecordType]

(* A job that queue k may hold.                                            *)
Fits(asked, k, job) ==
    /\ job \in JobType /\ job.of \in DOMAIN asked
    /\ job.tries < Tries(k) /\ job.stalls <= MaxStalledCount
    /\ k \in {"sheets", "sync"} => asked[job.of].op \in Makers \ {"report"}
                                   /\ (asked[job.of].source \in Sheets <=> k = "sheets")
    /\ k = "report" => asked[job.of].op = "report"
    /\ k = "outbox" => asked[job.of].op \in {"sync", "report"}

(* The rows that may be counted when the tabs in left are yet to come.     *)
Allowance(left) == MaxLines * Cardinality(Tabs \ left)

OnSheet(asked, r) ==
    /\ \A t \in r.left : SourceOf[t] = asked[r.job.of].source
    /\ r.at \in {"stamp", "ack"} => r.left = {}
    /\ r.valid + r.invalid <= Allowance(r.left)
OnTab(asked, r) ==
    /\ Len(r.rows) <= MaxLines /\ r.line \in 1 .. Len(r.rows) + 1
    /\ r.tab \notin r.left /\ SourceOf[r.tab] = asked[r.job.of].source
    /\ r.at \in OnRow <=> r.line <= Len(r.rows)
    /\ r.valid + r.invalid + (MaxLines + 1 - r.line) <= Allowance(r.left)
    /\ r.at = "error" => r.rows[r.line].kind = "short"
    /\ r.at \in {"lookup", "post", "sum"} => r.rows[r.line].kind = "full"
    /\ r.at \in OnRow => r.rows[r.line].kind # "blank"
    /\ r.at = "lookup" => r.rows[r.line].ref # NoRef
    /\ r.at = "post" /\ r.rows[r.line].ref = NoRef => r.found = {}
OnFeed(r) ==
    /\ Len(r.rows) <= MaxLines /\ r.line \in 1 .. Len(r.rows) + 1
    /\ r.valid + r.invalid = r.line - 1
    /\ r.at = "ack" => r.line = Len(r.rows) + 1

RunOK(asked, w, r) ==
    LET k == QueueOf[w]
    IN  \/ r = Idle
        \/ /\ Fits(asked, k, r.job)
           /\ \/ /\ r \in Begins /\ (r.at = "tabs" => k = "sheets")
                 /\ (r.at = "select" => k = "report") /\ (r.at = "ack" => k = "outbox")
              \/ k = "sheets" /\ r \in Counts /\ OnSheet(asked, r)
              \/ k = "sheets" /\ r \in Lines /\ OnSheet(asked, r) /\ OnTab(asked, r)
              \/ k = "sync" /\ r \in Posts /\ OnFeed(r)
              \/ k = "report" /\ r \in Filings

AskTyped == DOMAIN ask \subseteq Requests /\ \A q \in DOMAIN ask : WellAsked(ask[q])
FeedTyped == feed \in [Origins -> Seq(Row)] /\ \A o \in Origins : Len(feed[o]) <= MaxLines
MayTyped == may \in [edits : Nat, crashes : Nat, faults : Nat, failed : BOOLEAN]
SourcesTyped == sources \in [Sources -> SourceRow] /\ tabsOn \subseteq Tabs /\ fresh \subseteq Sheets
BatchesTyped == /\ batches \in [Requests -> BatchRow] /\ errors \in [Requests -> Nat]
                /\ \A q \in Requests : batches[q].valid + batches[q].invalid
                                         <= MaxLines * (1 + Cardinality(Tabs))
RecordsTyped == records \subseteq RecordType
SumsTyped == sums \in [Tabs -> [1 .. MaxLines -> SUBSET HashType]]
ReportsTyped == /\ reports \in [Requests -> ReportRow] /\ files \in [Requests -> SUBSET RecordType]
                /\ events \in [Requests -> {"none", "pending", "dispatched"}]
QueueTyped == /\ queue \in [Queues -> Seq(JobType)]
              /\ \A k \in Queues : \A i \in DOMAIN queue[k] : Fits(ask, k, queue[k][i])
RunTyped == run = [w \in Workers |-> run[w]] /\ \A w \in Workers : RunOK(ask, w, run[w])
ReqOK(asked, q, r) ==
    /\ r \in ReqType
    /\ r.at \in {"insert", "enqueue", "event", "eventJob", "write"} => q \in DOMAIN asked
    /\ r.at \in {"insert", "enqueue"} => asked[q].op \in Makers /\ (asked[q].op \in {"tick", "push"} => asked[q].source \in Sheets)
    /\ r.at \in {"event", "eventJob"} => asked[q].op \in {"sync", "report"}
    /\ r.at = "write" => "row" \in DOMAIN r /\ asked[q].op \in {"update", "disable"}
    /\ r.at = "tabs" => "tabs" \in DOMAIN r /\ \A t \in r.tabs : SourceOf[t] = asked[q].source
ReqTyped == req = [q \in Requests |-> req[q]] /\ \A q \in Requests : ReqOK(ask, q, req[q])

Typed == /\ AskTyped /\ FeedTyped /\ MayTyped /\ SourcesTyped /\ BatchesTyped /\ RecordsTyped
         /\ SumsTyped /\ ReportsTyped /\ QueueTyped /\ RunTyped /\ ReqTyped

-----------------------------------------------------------------------------
(* Sequences, sets and counts. *)

(* A finite set is listed without repetitions. *)
LEMMA Listed ==
    ASSUME NEW S, IsFiniteSet(S)
    PROVE  /\ Cardinality(S) \in Nat
           /\ SetToSeq(S) \in [1 .. Cardinality(S) -> S]
           /\ \A i, j \in 1 .. Cardinality(S) : SetToSeq(S)[i] = SetToSeq(S)[j] => i = j
<1>1. Cardinality(S) \in Nat /\ ExistsBijection(1 .. Cardinality(S), S)
  BY FS_CardinalityType
<1>2. \E f \in [1 .. Cardinality(S) -> S] : IsInjective(f)
  BY <1>1 DEF ExistsBijection, Bijection, Injection
<1>3. SetToSeq(S) \in [1 .. Cardinality(S) -> S] /\ IsInjective(SetToSeq(S))
  BY <1>2 DEF SetToSeq
<1>. QED
  BY <1>1, <1>3 DEF IsInjective

(* A set of numbers that is not empty has a least member. *)
LEMMA LeastMember ==
    ASSUME NEW S \in SUBSET Nat, S # {}
    PROVE  \E i \in S : \A k \in S : i <= k
<1>. DEFINE R == {xy \in Nat \X Nat : xy[1] < xy[2]}
<1>1. IsWellFoundedOn(R, Nat)
  <2>1. R = OpToRel(<, Nat)
    BY DEF OpToRel
  <2>. QED
    BY <2>1, NatLessThanWellFounded
<1>2. \A k, m \in Nat : <<k, m>> \notin R => m <= k
  OBVIOUS
<1>. HIDE DEF R
<1>3. PICK l \in S : \A k \in S : <<k, l>> \notin R
  BY <1>1, WFMin
<1>. QED
  BY <1>2, <1>3

(* The line after i is the first that is not blank, or the end. *)
LEMMA AfterLine ==
    ASSUME NEW rows \in Seq(Row), NEW i \in Nat, i <= Len(rows)
    PROVE  /\ After(rows, i) \in i + 1 .. Len(rows) + 1
           /\ After(rows, i) <= Len(rows) => rows[After(rows, i)].kind # "blank"
           /\ \A j \in i + 1 .. After(rows, i) - 1 : rows[j].kind = "blank"
<1>. DEFINE n == Len(rows)
            later == {j \in i + 1 .. n : rows[j].kind # "blank"}
<1>1. n \in Nat
  BY LenProperties
<1>2. CASE later = {}
  <2>1. After(rows, i) = n + 1
    BY <1>2 DEF After
  <2>. QED
    BY <1>1, <1>2, <2>1
<1>3. CASE later # {}
  <2>1. later \in SUBSET Nat
    BY <1>1
  <2>2. \E j \in later : \A k \in later : j <= k
    BY <1>3, <2>1, LeastMember
  <2>3. After(rows, i) = CHOOSE j \in later : \A k \in later : j <= k
    BY <1>3 DEF After
  <2>4. After(rows, i) \in later /\ \A k \in later : After(rows, i) <= k
    BY <2>2, <2>3
  <2>5. After(rows, i) \in i + 1 .. n /\ rows[After(rows, i)].kind # "blank"
    BY <2>4
  <2>6. ASSUME NEW j \in i + 1 .. After(rows, i) - 1
        PROVE  rows[j].kind = "blank"
    <3>1. j \in i + 1 .. n /\ ~(After(rows, i) <= j)
      BY <1>1, <2>5
    <3>. QED
      BY <2>4, <3>1
  <2>. QED
    BY <1>1, <2>5, <2>6
<1>. QED
  BY <1>2, <1>3

(* A tab that is fetched allows for its rows. *)
LEMMA AllowanceFacts ==
    /\ MaxLines \in Nat /\ Cardinality(Tabs) \in Nat
    /\ \A left \in SUBSET Tabs : /\ Allowance(left) \in Nat
                                 /\ Allowance(left) <= MaxLines * Cardinality(Tabs)
    /\ \A left \in SUBSET Tabs : \A t \in left :
         Allowance(left \ {t}) = Allowance(left) + MaxLines
<1>1. MaxLines \in Nat /\ IsFiniteSet(Tabs) /\ Cardinality(Tabs) \in Nat
  BY SyncAssumption, FS_CardinalityType
<1>2. ASSUME NEW left \in SUBSET Tabs
      PROVE  /\ IsFiniteSet(Tabs \ left) /\ Cardinality(Tabs \ left) \in Nat
             /\ Cardinality(Tabs \ left) <= Cardinality(Tabs)
  BY <1>1, FS_Subset, FS_CardinalityType
<1>3. \A m, n, k \in Nat : n <= k => m * n \in Nat /\ m * n <= m * k /\ m * (n + 1) = m * n + m
  OBVIOUS
<1>4. ASSUME NEW left \in SUBSET Tabs
      PROVE  Allowance(left) \in Nat /\ Allowance(left) <= MaxLines * Cardinality(Tabs)
  BY <1>1, <1>2, <1>3 DEF Allowance
<1>5. ASSUME NEW left \in SUBSET Tabs, NEW t \in left
      PROVE  Allowance(left \ {t}) = Allowance(left) + MaxLines
  <2>1. Tabs \ (left \ {t}) = (Tabs \ left) \cup {t} /\ t \notin Tabs \ left
    OBVIOUS
  <2>2. Cardinality(Tabs \ (left \ {t})) = Cardinality(Tabs \ left) + 1
    BY <1>2, <2>1, FS_AddElement
  <2>. QED
    BY <1>1, <1>2, <1>3, <2>2 DEF Allowance
<1>. QED
  BY <1>1, <1>4, <1>5

-----------------------------------------------------------------------------
(* What a worker holds, by the step it is at. *)

(* A worker that is not idle runs a job of its queue. *)
LEMMA Running ==
    ASSUME NEW w \in Workers, RunTyped
    PROVE  /\ run[w].at = "idle" <=> run[w] = Idle
           /\ run[w].at # "idle" => Fits(ask, QueueOf[w], run[w].job) /\ run[w].calm \in BOOLEAN
  BY DEF RunTyped, RunOK, Idle, Begins, Counts, Lines, Posts, Filings, OnRow

LEMMA RowRun ==
    ASSUME NEW w \in Workers, RunTyped, QueueOf[w] = "sheets", run[w].at \in OnRow \cup {"tabDone"}
    PROVE  run[w] \in Lines /\ OnSheet(ask, run[w]) /\ OnTab(ask, run[w])
  BY DEF RunTyped, RunOK, Idle, Begins, Counts, Lines, OnRow

LEMMA CountRun ==
    ASSUME NEW w \in Workers, RunTyped, QueueOf[w] = "sheets", run[w].at \in {"fetch", "stamp"}
    PROVE  /\ OnSheet(ask, run[w])
           /\ run[w] \in Counts \/ (run[w] \in Lines /\ OnTab(ask, run[w]))
  BY DEF RunTyped, RunOK, Idle, Begins, Counts, Lines, OnRow

LEMMA PostRun ==
    ASSUME NEW w \in Workers, RunTyped, QueueOf[w] = "sync", run[w].at = "row"
    PROVE  run[w] \in Posts /\ OnFeed(run[w])
  BY DEF RunTyped, RunOK, Idle, Begins, Posts

LEMMA FilingRun ==
    ASSUME NEW w \in Workers, RunTyped, QueueOf[w] = "report", run[w].at \in {"file", "complete"}
    PROVE  run[w] \in Filings
  BY DEF RunTyped, RunOK, Idle, Begins, Filings

(* A run is replaced, or its calm is disturbed. *)
LEMMA OneRun ==
    ASSUME NEW w \in Workers, NEW r, RunTyped, ask' = ask, Goto(w, r), RunOK(ask, w, r)
    PROVE  RunTyped'
  BY DEF RunTyped, Goto

LEMMA CalmRun ==
    ASSUME NEW asked, NEW w \in Workers, NEW r, r.at # "idle", RunOK(asked, w, r)
    PROVE  RunOK(asked, w, [r EXCEPT !.calm = FALSE])
<1>. DEFINE c == [r EXCEPT !.calm = FALSE]
<1>1. r # Idle
  BY DEF Idle
<1>2. ASSUME r \in Begins PROVE c \in Begins /\ c.at = r.at /\ c.job = r.job
  BY <1>2 DEF Begins
<1>3. ASSUME r \in Counts
      PROVE  c \in Counts /\ c.job = r.job /\ (OnSheet(asked, r) => OnSheet(asked, c))
  BY <1>3 DEF Counts, OnSheet
<1>4. ASSUME r \in Lines
      PROVE  /\ c \in Lines /\ c.job = r.job /\ (OnSheet(asked, r) => OnSheet(asked, c))
             /\ OnTab(asked, r) => OnTab(asked, c)
  <2>1. c \in Lines
    BY <1>4 DEF Lines
  <2>2. /\ c.job = r.job /\ c.at = r.at /\ c.left = r.left /\ c.valid = r.valid /\ c.invalid = r.invalid
        /\ c.rows = r.rows /\ c.line = r.line /\ c.tab = r.tab /\ c.found = r.found
    BY <1>4 DEF Lines
  <2>. QED
    BY <2>1, <2>2 DEF OnSheet, OnTab
<1>5. ASSUME r \in Posts
      PROVE  c \in Posts /\ c.job = r.job /\ (OnFeed(r) => OnFeed(c))
  BY <1>5 DEF Posts, OnFeed
<1>6. ASSUME r \in Filings PROVE c \in Filings /\ c.job = r.job
  BY <1>6 DEF Filings
<1>. HIDE DEF c
<1>7. RunOK(asked, w, c)
  BY <1>1, <1>2, <1>3, <1>4, <1>5, <1>6 DEF RunOK
<1>. QED
  BY <1>7 DEF c

LEMMA DisturbedRuns ==
    ASSUME NEW s, RunTyped
    PROVE  /\ Disturbed(s) = [w \in Workers |-> Disturbed(s)[w]]
           /\ \A w \in Workers :
                /\ RunOK(ask, w, Disturbed(s)[w])
                /\ Disturbed(s)[w] # run[w] => /\ run[w].at # "idle"
                                               /\ Disturbed(s)[w] = [run[w] EXCEPT !.calm = FALSE]
<1>1. ASSUME NEW w \in Workers
      PROVE  \/ Disturbed(s)[w] = run[w]
             \/ run[w].at # "idle" /\ Disturbed(s)[w] = [run[w] EXCEPT !.calm = FALSE]
  BY DEF Disturbed
<1>2. ASSUME NEW w \in Workers
      PROVE  RunOK(ask, w, run[w])
  BY DEF RunTyped
<1>3. ASSUME NEW w \in Workers, run[w].at # "idle"
      PROVE  RunOK(ask, w, [run[w] EXCEPT !.calm = FALSE])
  BY <1>2, <1>3, CalmRun
<1>4. Disturbed(s) = [w \in Workers |-> Disturbed(s)[w]]
  BY DEF Disturbed
<1>. QED
  BY <1>1, <1>2, <1>3, <1>4

-----------------------------------------------------------------------------
(* The run of a sheets worker. *)

(* The next line of the tab, or its end. *)
LEMMA MovedOn ==
    ASSUME NEW asked, NEW r \in Lines, r.at \in OnRow, Len(r.rows) <= MaxLines, r.line <= Len(r.rows),
           r.tab \notin r.left, SourceOf[r.tab] = asked[r.job.of].source,
           \A t \in r.left : SourceOf[t] = asked[r.job.of].source,
           r.valid + r.invalid + (MaxLines - r.line) <= Allowance(r.left)
    PROVE  /\ Moved(r) \in Lines /\ OnSheet(asked, Moved(r)) /\ OnTab(asked, Moved(r))
           /\ Moved(r) = [r EXCEPT !.line = After(r.rows, r.line),
                                   !.at = IF After(r.rows, r.line) > Len(r.rows) THEN "tabDone" ELSE "row"]
<1>. DEFINE next == After(r.rows, r.line)
            at == IF next > Len(r.rows) THEN "tabDone" ELSE "row"
            m == [r EXCEPT !.line = next, !.at = at]
<1>1. r.rows \in Seq(Row) /\ r.line \in Nat /\ Len(r.rows) \in Nat /\ r.valid \in Nat /\ r.invalid \in Nat
      /\ r.left \in SUBSET Tabs
  BY LenProperties DEF Lines
<1>2. /\ next \in r.line + 1 .. Len(r.rows) + 1
      /\ next <= Len(r.rows) => r.rows[next].kind # "blank"
  BY <1>1, AfterLine
<1>3. Moved(r) = m
  BY DEF Moved
<1>4. /\ m.line = next /\ m.at = at /\ m.job = r.job /\ m.left = r.left /\ m.valid = r.valid
      /\ m.invalid = r.invalid /\ m.rows = r.rows /\ m.tab = r.tab
  BY DEF Lines
<1>. HIDE DEF next
<1>5. next \in Nat
  BY <1>1, <1>2
<1>6. m \in Lines
  BY <1>5 DEF Lines, OnRow
<1>7. MaxLines \in Nat /\ Allowance(r.left) \in Nat
  BY <1>1, AllowanceFacts
<1>8. at \notin {"stamp", "ack", "error", "lookup", "post", "sum"} /\ (at \in OnRow <=> next <= Len(r.rows))
  BY <1>1, <1>5 DEF OnRow
<1>. HIDE DEF m, at
<1>9. /\ r.valid + r.invalid <= Allowance(r.left)
      /\ r.valid + r.invalid + (MaxLines + 1 - next) <= Allowance(r.left)
  <2>. DEFINE v == r.valid
              i == r.invalid
              k == r.line
              l == Len(r.rows)
              a == Allowance(r.left)
  <2>1. {v, i, k, l, a, next, MaxLines} \subseteq Nat
    BY <1>1, <1>5, <1>7
  <2>2. k + 1 <= next /\ k <= l /\ l <= MaxLines /\ v + i + (MaxLines - k) <= a
    BY <1>1, <1>2
  <2>. HIDE DEF v, i, k, l, a
  <2>3. v + i <= a /\ v + i + (MaxLines + 1 - next) <= a
    BY <2>1, <2>2
  <2>. QED
    BY <2>3 DEF v, i, a
<1>10. OnSheet(asked, m)
  BY <1>4, <1>8, <1>9 DEF OnSheet
<1>11. next \in 1 .. Len(r.rows) + 1
  BY <1>1, <1>2
<1>12. OnTab(asked, m)
  BY <1>2, <1>4, <1>8, <1>9, <1>11 DEF OnTab
<1>. QED
  BY <1>3, <1>6, <1>10, <1>12 DEF m, at, next

LEMMA MovedRun ==
    ASSUME NEW w \in Workers, NEW r \in Lines, QueueOf[w] = "sheets", Fits(ask, "sheets", r.job),
           OnSheet(ask, Moved(r)), OnTab(ask, Moved(r)), Moved(r) \in Lines, Moved(r).job = r.job
    PROVE  RunOK(ask, w, Moved(r))
  BY DEF RunOK

(* Another step on the same line. *)
LEMMA SameLine ==
    ASSUME NEW asked, NEW r \in Lines, NEW c \in Lines, OnSheet(asked, r), OnTab(asked, r),
           r.at \in OnRow, c.at \in OnRow,
           c.job = r.job, c.left = r.left, c.valid = r.valid, c.invalid = r.invalid,
           c.rows = r.rows, c.line = r.line, c.tab = r.tab,
           c.at = "error" => r.rows[r.line].kind = "short",
           c.at \in {"lookup", "post", "sum"} => r.rows[r.line].kind = "full",
           c.at = "lookup" => r.rows[r.line].ref # NoRef,
           c.at = "post" /\ r.rows[r.line].ref = NoRef => c.found = {}
    PROVE  OnSheet(asked, c) /\ OnTab(asked, c)
<1>1. c.at \notin {"stamp", "ack"}
  BY DEF OnRow
<1>. QED
  BY <1>1 DEF OnSheet, OnTab

(* The line a run is on. *)
LEMMA LineType ==
    ASSUME NEW w \in Workers, RunTyped, QueueOf[w] = "sheets", run[w].at \in OnRow
    PROVE  /\ Line(w) \in Row /\ Line(w) = run[w].rows[run[w].line]
           /\ run[w].line \in DOMAIN run[w].rows /\ run[w].line \in 1 .. MaxLines
           /\ Origin(w) \in Tabs /\ Origin(w) \in Origins
           /\ HashOf(Line(w)) \in SheetHash
<1>1. run[w] \in Lines /\ OnTab(ask, run[w])
  BY RowRun
<1>2. run[w].rows \in Seq(Row) /\ run[w].line \in 1 .. Len(run[w].rows) /\ Len(run[w].rows) <= MaxLines
  <2>1. run[w].rows \in Seq(Row) /\ Len(run[w].rows) \in Nat
    BY <1>1, LenProperties DEF Lines
  <2>. QED
    BY <1>1, <2>1 DEF OnTab
<1>3. Line(w) \in Row /\ Line(w) = run[w].rows[run[w].line]
  BY <1>2, ElementOfSeq DEF Line
<1>4. run[w].line \in DOMAIN run[w].rows
  BY <1>2, LenProperties
<1>5. run[w].line \in 1 .. MaxLines
  BY <1>2, LenProperties, AllowanceFacts
<1>6. Origin(w) \in Tabs /\ Origin(w) \in Origins
  BY <1>1 DEF Lines, Origin, Origins
<1>7. HashOf(Line(w)) \in SheetHash
  BY <1>3 DEF HashOf, SheetHash, Row
<1>. QED
  BY <1>3, <1>4, <1>5, <1>6, <1>7

-----------------------------------------------------------------------------
(* The waiting jobs. *)

LEMMA AddTyped ==
    ASSUME NEW k \in Queues, NEW job, QueueTyped, ask' = ask, Fits(ask, k, job), Add(k, job)
    PROVE  QueueTyped'
<1>1. queue[k] \in Seq(JobType) /\ job \in JobType
  BY DEF QueueTyped, Fits
<1>2. queue' = [queue EXCEPT ![k] = Append(queue[k], job)]
  BY DEF Add
<1>3. /\ Append(queue[k], job) \in Seq(JobType)
      /\ \A i \in DOMAIN Append(queue[k], job) :
           Append(queue[k], job)[i] = IF i \in DOMAIN queue[k] THEN queue[k][i] ELSE job
  <2>1. /\ Append(queue[k], job) \in Seq(JobType)
        /\ Len(Append(queue[k], job)) = Len(queue[k]) + 1
        /\ \A i \in 1 .. Len(queue[k]) : Append(queue[k], job)[i] = queue[k][i]
        /\ Append(queue[k], job)[Len(queue[k]) + 1] = job
    BY <1>1, AppendProperties
  <2>2. /\ Len(queue[k]) \in Nat /\ DOMAIN queue[k] = 1 .. Len(queue[k])
        /\ DOMAIN Append(queue[k], job) = 1 .. Len(queue[k]) + 1
    BY <1>1, <2>1, LenProperties
  <2>. QED
    BY <2>1, <2>2
<1>4. ASSUME NEW j \in Queues, NEW i \in DOMAIN queue'[j]
      PROVE  Fits(ask, j, queue'[j][i])
  BY <1>2, <1>3, <1>4 DEF QueueTyped
<1>5. queue' \in [Queues -> Seq(JobType)]
  BY <1>2, <1>3 DEF QueueTyped
<1>. QED
  BY <1>4, <1>5 DEF QueueTyped

LEMMA RetriedFits ==
    ASSUME NEW asked, NEW k, NEW job, Fits(asked, k, job), Retried(job).tries < Tries(k)
    PROVE  Fits(asked, k, Retried(job))
<1>1. Retried(job) \in JobType /\ Retried(job).of = job.of /\ Retried(job).stalls = job.stalls
  BY DEF Fits, Retried, JobType
<1>. QED
  BY <1>1 DEF Fits

LEMMA QueueOfType == ASSUME NEW w \in Workers PROVE QueueOf[w] \in Queues
  BY SyncAssumption

LEMMA ThrowTyped ==
    ASSUME NEW w \in Workers, RunTyped, QueueTyped, run[w].at # "idle", ask' = ask, Throw(w)
    PROVE  RunTyped' /\ QueueTyped'
<1>1. Fits(ask, QueueOf[w], run[w].job) /\ QueueOf[w] \in Queues
  BY Running, QueueOfType
<1>2. Goto(w, Idle) /\ RunOK(ask, w, Idle)
  BY DEF Throw, RunOK
<1>3. RunTyped'
  BY <1>2, OneRun
<1>4. CASE Retried(run[w].job).tries < Tries(QueueOf[w])
  BY <1>1, <1>3, <1>4, RetriedFits, AddTyped DEF Throw
<1>5. CASE ~(Retried(run[w].job).tries < Tries(QueueOf[w]))
  BY <1>3, <1>5 DEF Throw, QueueTyped
<1>. QED
  BY <1>4, <1>5

LEMMA TakeTyped ==
    ASSUME NEW w \in Workers, RunTyped, QueueTyped, Take(w)
    PROVE  RunTyped' /\ QueueTyped'
<1>. DEFINE k == QueueOf[w]
<1>1. k \in Queues /\ queue[k] \in Seq(JobType) /\ queue[k] # <<>>
  BY QueueOfType DEF Take, QueueTyped
<1>2. /\ Head(queue[k]) = queue[k][1] /\ 1 \in DOMAIN queue[k]
      /\ Tail(queue[k]) \in Seq(JobType)
      /\ \A i \in DOMAIN Tail(queue[k]) : i + 1 \in DOMAIN queue[k] /\ Tail(queue[k])[i] = queue[k][i + 1]
  BY <1>1, HeadTailProperties, LenProperties, EmptySeq
<1>3. Fits(ask, k, Head(queue[k]))
  BY <1>1, <1>2 DEF QueueTyped
<1>4. ask' = ask /\ queue' = [queue EXCEPT ![k] = Tail(queue[k])]
  BY DEF Take
<1>5. QueueTyped'
  <2>1. ASSUME NEW j \in Queues, NEW i \in DOMAIN queue'[j]
        PROVE  Fits(ask, j, queue'[j][i])
    BY <1>1, <1>2, <1>4, <2>1 DEF QueueTyped
  <2>2. queue' \in [Queues -> Seq(JobType)]
    BY <1>2, <1>4 DEF QueueTyped
  <2>. QED
    BY <1>4, <2>1, <2>2 DEF QueueTyped
<1>6. RunOK(ask, w, [at |-> "start", job |-> Head(queue[k]), calm |-> TRUE])
  BY <1>3 DEF RunOK, Begins, Fits
<1>7. RunTyped'
  BY <1>4, <1>6, OneRun DEF Take
<1>. QED
  BY <1>5, <1>7

LEMMA CrashTyped ==
    ASSUME NEW w \in Workers, RunTyped, QueueTyped, CrashWorker(w)
    PROVE  RunTyped' /\ QueueTyped'
<1>. DEFINE k == QueueOf[w]
            job == run[w].job
            back == [job EXCEPT !.stalls = @ + 1]
<1>1. k \in Queues /\ Fits(ask, k, job) /\ queue[k] \in Seq(JobType) /\ ask' = ask
  BY Running, QueueOfType DEF CrashWorker, QueueTyped
<1>2. Goto(w, Idle) /\ RunOK(ask, w, Idle)
  BY DEF CrashWorker, RunOK
<1>3. RunTyped'
  BY <1>1, <1>2, OneRun
<1>4. CASE job.stalls < MaxStalledCount
  <2>1. Fits(ask, k, back)
    <3>1. back \in JobType /\ back.of = job.of /\ back.tries = job.tries /\ back.stalls = job.stalls + 1
      BY <1>1 DEF Fits, JobType
    <3>. QED
      BY <1>1, <1>4, <3>1 DEF Fits, MaxStalledCount, JobType
  <2>2. queue' = [queue EXCEPT ![k] = <<back>> \o queue[k]]
    BY <1>4 DEF CrashWorker
  <2>3. <<back>> \in Seq(JobType) /\ Len(<<back>>) = 1 /\ <<back>>[1] = back
    BY <2>1 DEF Fits
  <2>. HIDE DEF back, job
  <2>4. /\ <<back>> \o queue[k] \in Seq(JobType)
        /\ \A i \in DOMAIN (<<back>> \o queue[k]) :
             /\ i = 1 => (<<back>> \o queue[k])[i] = back
             /\ i # 1 => i - 1 \in DOMAIN queue[k] /\ (<<back>> \o queue[k])[i] = queue[k][i - 1]
    <3>1. /\ <<back>> \o queue[k] \in Seq(JobType)
          /\ Len(<<back>> \o queue[k]) = 1 + Len(queue[k])
          /\ \A i \in 1 .. 1 + Len(queue[k]) :
               (<<back>> \o queue[k])[i] = IF i <= 1 THEN <<back>>[i] ELSE queue[k][i - 1]
      BY <1>1, <2>3, ConcatProperties
    <3>2. Len(queue[k]) \in Nat /\ DOMAIN queue[k] = 1 .. Len(queue[k])
          /\ DOMAIN (<<back>> \o queue[k]) = 1 .. 1 + Len(queue[k])
      BY <1>1, <3>1, LenProperties
    <3>3. ASSUME NEW i \in 1 .. 1 + Len(queue[k])
          PROVE  /\ i = 1 => (<<back>> \o queue[k])[i] = back
                 /\ i # 1 => /\ i - 1 \in 1 .. Len(queue[k])
                             /\ (<<back>> \o queue[k])[i] = queue[k][i - 1]
      BY <2>3, <3>1, <3>2
    <3>. QED
      BY <3>1, <3>2, <3>3
  <2>5. ASSUME NEW j \in Queues, NEW i \in DOMAIN queue'[j]
        PROVE  Fits(ask, j, queue'[j][i])
    BY <1>1, <2>1, <2>2, <2>4, <2>5 DEF QueueTyped
  <2>6. queue' \in [Queues -> Seq(JobType)]
    BY <2>2, <2>4 DEF QueueTyped
  <2>. QED
    BY <1>1, <1>3, <2>5, <2>6 DEF QueueTyped
<1>5. CASE ~(job.stalls < MaxStalledCount)
  BY <1>1, <1>3, <1>5 DEF CrashWorker, QueueTyped
<1>. QED
  BY <1>4, <1>5

-----------------------------------------------------------------------------
(* The steps of a sheets worker: its run and the waiting jobs. *)

LEMMA SameQueue == ASSUME QueueTyped, ask' = ask, UNCHANGED queue PROVE QueueTyped'
  BY DEF QueueTyped

LEMMA SheetJob ==
    ASSUME NEW w \in Workers, AskTyped, RunTyped, QueueOf[w] = "sheets", run[w].at # "idle"
    PROVE  /\ Fits(ask, "sheets", run[w].job) /\ run[w].job \in JobType
           /\ Of(w) \in Requests /\ Of(w) \in DOMAIN ask /\ Source(w) \in Sheets
           /\ run[w].calm \in BOOLEAN
  BY Running DEF Fits, Of, Source, JobType

LEMMA ShStartRun ==
    ASSUME NEW w \in Workers, Typed, ShStart(w)
    PROVE  RunTyped' /\ QueueTyped'
<1>. USE DEF Typed
<1>1. ask' = ask /\ UNCHANGED queue /\ QueueOf[w] = "sheets" /\ run[w].at = "start"
  BY DEF ShStart, Rest, At
<1>2. RunOK(ask, w, [at |-> "tabs", job |-> run[w].job, calm |-> OthersOn(w, Source(w)) = {}])
  BY <1>1, SheetJob DEF RunOK, Begins
<1>3. ASSUME NEW v \in OthersOn(w, Source(w))
      PROVE  RunOK(ask, v, [run[v] EXCEPT !.calm = FALSE])
  BY CalmRun DEF OthersOn, RunTyped
<1>4. ASSUME NEW v \in Workers
      PROVE  RunOK(ask, v, run'[v])
  BY <1>2, <1>3 DEF ShStart, RunTyped
<1>5. run' = [v \in Workers |-> run'[v]]
  BY DEF ShStart
<1>. QED
  BY <1>1, <1>4, <1>5, SameQueue DEF RunTyped

LEMMA ShTabsRun ==
    ASSUME NEW w \in Workers, Typed, ShTabs(w)
    PROVE  RunTyped' /\ QueueTyped'
<1>. USE DEF Typed
<1>. DEFINE r == [at |-> "fetch", job |-> run[w].job, calm |-> run[w].calm, valid |-> 0, invalid |-> 0,
                  left |-> {t \in tabsOn : SourceOf[t] = Source(w)}]
<1>1. ask' = ask /\ UNCHANGED queue /\ QueueOf[w] = "sheets" /\ run[w].at = "tabs" /\ Goto(w, r)
  BY DEF ShTabs, Rest, At
<1>2. r \in Counts /\ r.left \in SUBSET Tabs
  BY <1>1, SheetJob DEF Counts, SourcesTyped
<1>3. Allowance(r.left) \in Nat
  BY <1>2, AllowanceFacts
<1>4. OnSheet(ask, r)
  BY <1>3 DEF OnSheet, Source, Of
<1>5. RunOK(ask, w, r)
  BY <1>1, <1>2, <1>4, SheetJob DEF RunOK
<1>. HIDE DEF r
<1>. QED
  BY <1>1, <1>5, OneRun, SameQueue

LEMMA ShFetchRun ==
    ASSUME NEW w \in Workers, Typed, ShFetch(w)
    PROVE  /\ RunTyped' /\ QueueTyped'
           /\ \E t \in run[w].left :
                LET r == [at |-> "row", job |-> run[w].job, calm |-> run[w].calm,
                          valid |-> run[w].valid, invalid |-> run[w].invalid,
                          left |-> run[w].left \ {t}, tab |-> t, rows |-> feed[t], line |-> 0,
                          known |-> FALSE, found |-> {}]
                IN  /\ Goto(w, Moved(r)) /\ Moved(r) \in Lines /\ OnTab(ask, Moved(r)) /\ t \in Tabs
                    /\ Moved(r) = [r EXCEPT !.line = After(r.rows, r.line),
                                            !.at = IF After(r.rows, r.line) > Len(r.rows) THEN "tabDone" ELSE "row"]
<1>. USE DEF Typed
<1>1. ask' = ask /\ UNCHANGED queue /\ QueueOf[w] = "sheets" /\ run[w].at = "fetch"
  BY DEF ShFetch, Rest, At
<1>2. PICK t \in run[w].left :
        Goto(w, Moved([at |-> "row", job |-> run[w].job, calm |-> run[w].calm,
                       valid |-> run[w].valid, invalid |-> run[w].invalid,
                       left |-> run[w].left \ {t}, tab |-> t, rows |-> feed[t], line |-> 0,
                       known |-> FALSE, found |-> {}]))
  BY DEF ShFetch
<1>. DEFINE r == [at |-> "row", job |-> run[w].job, calm |-> run[w].calm,
                  valid |-> run[w].valid, invalid |-> run[w].invalid,
                  left |-> run[w].left \ {t}, tab |-> t, rows |-> feed[t], line |-> 0,
                  known |-> FALSE, found |-> {}]
<1>3. /\ run[w].left \in SUBSET Tabs /\ run[w].valid \in Nat /\ run[w].invalid \in Nat
      /\ OnSheet(ask, run[w])
  BY <1>1, CountRun DEF Counts, Lines
<1>4. feed[t] \in Seq(Row) /\ Len(feed[t]) <= MaxLines /\ Len(feed[t]) \in Nat /\ t \in Tabs
  BY <1>2, <1>3, LenProperties DEF FeedTyped, Origins
<1>5. r \in Lines
  BY <1>1, <1>3, <1>4, SheetJob DEF Lines, OnRow
<1>6. Allowance(r.left) = Allowance(run[w].left) + MaxLines /\ Allowance(run[w].left) \in Nat
      /\ MaxLines \in Nat
  BY <1>3, AllowanceFacts
<1>7. run[w].valid + run[w].invalid + (MaxLines - 0) <= Allowance(r.left)
  BY <1>3, <1>6 DEF OnSheet
<1>8. \A u \in run[w].left : SourceOf[u] = ask[run[w].job.of].source
  BY <1>3 DEF OnSheet
<1>9. /\ r.at \in OnRow /\ r.line = 0 /\ r.job = run[w].job /\ r.tab = t /\ r.rows = feed[t]
      /\ r.left = run[w].left \ {t} /\ r.valid = run[w].valid /\ r.invalid = run[w].invalid
  BY DEF OnRow
<1>. HIDE DEF r
<1>10. /\ Moved(r) \in Lines /\ OnSheet(ask, Moved(r)) /\ OnTab(ask, Moved(r))
       /\ Moved(r) = [r EXCEPT !.line = After(r.rows, r.line),
                               !.at = IF After(r.rows, r.line) > Len(r.rows) THEN "tabDone" ELSE "row"]
  <2>1. /\ r.at \in OnRow /\ Len(r.rows) <= MaxLines /\ r.line <= Len(r.rows) /\ r.tab \notin r.left
        /\ \A u \in r.left : SourceOf[u] = ask[r.job.of].source
        /\ SourceOf[r.tab] = ask[r.job.of].source
    BY <1>2, <1>4, <1>8, <1>9
  <2>2. r.valid + r.invalid + (MaxLines - r.line) <= Allowance(r.left)
    BY <1>7, <1>9
  <2>. QED
    BY <1>5, <2>1, <2>2, MovedOn
<1>11. Moved(r).job = run[w].job
  BY <1>5, <1>9, <1>10 DEF Lines
<1>12. RunOK(ask, w, Moved(r))
  BY <1>1, <1>10, <1>11, SheetJob DEF RunOK
<1>13. Goto(w, Moved(r))
  BY <1>2 DEF r
<1>14. RunTyped' /\ QueueTyped'
  BY <1>1, <1>12, <1>13, OneRun, SameQueue
<1>. QED
  BY <1>4, <1>10, <1>13, <1>14 DEF r

(* A row is compared with nothing: its checksum is never seen. *)
LEMMA ShCompareRun ==
    ASSUME NEW w \in Workers, Typed, ShCompare(w)
    PROVE  /\ RunTyped' /\ QueueTyped'
           /\ \E known \in BOOLEAN, next \in {"error", "post", "lookup"} :
                /\ Goto(w, [run[w] EXCEPT !.at = next, !.known = known, !.found = {}])
                /\ next = "error" <=> Line(w).kind = "short"
                /\ next = "post" => Line(w).ref = NoRef
<1>. USE DEF Typed
<1>1. ask' = ask /\ UNCHANGED queue /\ QueueOf[w] = "sheets" /\ run[w].at = "row"
  BY DEF ShCompare, Rest, At
<1>2. /\ run[w] \in Lines /\ OnSheet(ask, run[w]) /\ OnTab(ask, run[w])
      /\ Line(w) \in Row /\ Line(w) = run[w].rows[run[w].line]
  BY <1>1, RowRun, LineType DEF OnRow
<1>3. ~Unchanged(w)
  BY DEF Unchanged, ReadChecksum
<1>4. PICK known \in BOOLEAN : known = (sums[Origin(w)][run[w].line] # {})
  OBVIOUS
<1>5. PICK next : next = IF Line(w).kind = "short" THEN "error"
                         ELSE IF Line(w).ref = NoRef THEN "post" ELSE "lookup"
  OBVIOUS
<1>. DEFINE r == [run[w] EXCEPT !.at = next, !.known = known, !.found = {}]
<1>6. Goto(w, r)
  BY <1>3, <1>4, <1>5 DEF ShCompare
<1>7. /\ next \in {"error", "post", "lookup"}
      /\ next = "error" => Line(w).kind = "short"
      /\ next # "error" => Line(w).kind # "short"
      /\ next = "post" => Line(w).ref = NoRef
      /\ next = "lookup" => Line(w).ref # NoRef
  BY <1>5
<1>8. r \in Lines /\ r.at = next /\ r.found = {} /\ r.job = run[w].job /\ r.left = run[w].left
      /\ r.valid = run[w].valid /\ r.invalid = run[w].invalid /\ r.rows = run[w].rows
      /\ r.line = run[w].line /\ r.tab = run[w].tab
  BY <1>2, <1>7 DEF Lines, OnRow
<1>9. run[w].at \in OnRow /\ next \in OnRow /\ Line(w).kind # "blank"
      /\ (next # "error" => Line(w).kind = "full")
  <2>1. run[w].at \in OnRow /\ next \in OnRow
    BY <1>1, <1>7 DEF OnRow
  <2>2. Line(w).kind # "blank" /\ Line(w).kind \in {"full", "short", "blank"}
    BY <1>2, <2>1 DEF OnTab, Row
  <2>. QED
    BY <1>7, <2>1, <2>2
<1>. HIDE DEF r
<1>10. OnSheet(ask, r) /\ OnTab(ask, r)
  BY <1>2, <1>7, <1>8, <1>9, SameLine
<1>11. RunOK(ask, w, r)
  BY <1>1, <1>8, <1>10, SheetJob DEF RunOK
<1>12. RunTyped' /\ QueueTyped'
  BY <1>1, <1>6, <1>11, OneRun, SameQueue
<1>. QED
  BY <1>6, <1>7, <1>12 DEF r

(* A line is counted, and the run moves on. *)
LEMMA CountedLine ==
    ASSUME NEW w \in Workers, Typed, QueueOf[w] = "sheets", run[w].at \in OnRow, NEW c \in Lines,
           c.at \in OnRow, c.job = run[w].job, c.left = run[w].left, c.rows = run[w].rows,
           c.line = run[w].line, c.tab = run[w].tab,
           c.valid + c.invalid = run[w].valid + run[w].invalid + 1
    PROVE  /\ RunOK(ask, w, Moved(c)) /\ Moved(c) \in Lines
           /\ OnSheet(ask, Moved(c)) /\ OnTab(ask, Moved(c))
           /\ Moved(c) = [c EXCEPT !.line = After(c.rows, c.line),
                                   !.at = IF After(c.rows, c.line) > Len(c.rows) THEN "tabDone" ELSE "row"]
<1>. USE DEF Typed
<1>1. run[w] \in Lines /\ OnSheet(ask, run[w]) /\ OnTab(ask, run[w])
  BY RowRun
<1>2. c.rows \in Seq(Row) /\ Len(c.rows) \in Nat /\ c.left \in SUBSET Tabs
  BY LenProperties DEF Lines
<1>3. /\ Len(c.rows) <= MaxLines /\ c.line <= Len(c.rows) /\ c.tab \notin c.left
      /\ SourceOf[c.tab] = ask[c.job.of].source
      /\ \A t \in c.left : SourceOf[t] = ask[c.job.of].source
  BY <1>1 DEF OnTab, OnSheet
<1>4. c.valid + c.invalid + (MaxLines - c.line) <= Allowance(c.left)
  <2>. DEFINE n == run[w].valid + run[w].invalid
              a == Allowance(c.left)
              k == c.line
  <2>1. n \in Nat /\ a \in Nat /\ k \in Nat /\ MaxLines \in Nat
    BY <1>1, <1>2, AllowanceFacts DEF Lines
  <2>2. n + (MaxLines + 1 - k) <= a
    BY <1>1 DEF OnTab
  <2>3. c.valid + c.invalid = n + 1
    OBVIOUS
  <2>. HIDE DEF n, a, k
  <2>4. (n + 1) + (MaxLines - k) <= a
    BY <2>1, <2>2
  <2>. QED
    BY <2>3, <2>4 DEF a, k
<1>5. /\ Moved(c) \in Lines /\ OnSheet(ask, Moved(c)) /\ OnTab(ask, Moved(c))
      /\ Moved(c) = [c EXCEPT !.line = After(c.rows, c.line),
                              !.at = IF After(c.rows, c.line) > Len(c.rows) THEN "tabDone" ELSE "row"]
  BY <1>3, <1>4, MovedOn
<1>6. Moved(c).job = run[w].job
  BY <1>5 DEF Lines
<1>7. Fits(ask, "sheets", run[w].job)
  BY SheetJob DEF OnRow
<1>. QED
  BY <1>5, <1>6, <1>7 DEF RunOK

LEMMA ShErrorRun ==
    ASSUME NEW w \in Workers, Typed, ShError(w)
    PROVE  RunTyped' /\ QueueTyped'
<1>. USE DEF Typed
<1>. DEFINE c == [run[w] EXCEPT !.invalid = run[w].invalid + 1]
<1>1. ask' = ask /\ UNCHANGED queue /\ QueueOf[w] = "sheets" /\ run[w].at = "error" /\ Goto(w, Moved(c))
  BY DEF ShError, Rest, At
<1>2. run[w].at \in OnRow
  BY <1>1 DEF OnRow
<1>3. run[w] \in Lines
  BY <1>1, <1>2, RowRun
<1>4. /\ c \in Lines /\ c.at = run[w].at /\ c.job = run[w].job /\ c.left = run[w].left
      /\ c.rows = run[w].rows /\ c.line = run[w].line /\ c.tab = run[w].tab
      /\ c.valid + c.invalid = run[w].valid + run[w].invalid + 1
  BY <1>3 DEF Lines
<1>. HIDE DEF c
<1>5. RunOK(ask, w, Moved(c))
  BY <1>1, <1>2, <1>4, CountedLine
<1>. QED
  BY <1>1, <1>5, OneRun, SameQueue

(* What a lookup or a statement leaves on the same line. *)
LEMMA SameLineRun ==
    ASSUME NEW w \in Workers, Typed, QueueOf[w] = "sheets", run[w].at \in OnRow, NEW c \in Lines,
           c.at \in OnRow, c.job = run[w].job, c.left = run[w].left, c.valid = run[w].valid,
           c.invalid = run[w].invalid, c.rows = run[w].rows, c.line = run[w].line, c.tab = run[w].tab,
           c.at = "error" => Line(w).kind = "short",
           c.at \in {"lookup", "post", "sum"} => Line(w).kind = "full",
           c.at = "lookup" => Line(w).ref # NoRef,
           c.at = "post" /\ Line(w).ref = NoRef => c.found = {}
    PROVE  RunOK(ask, w, c)
<1>. USE DEF Typed
<1>1. run[w] \in Lines /\ OnSheet(ask, run[w]) /\ OnTab(ask, run[w])
  BY RowRun
<1>2. OnSheet(ask, c) /\ OnTab(ask, c)
  BY <1>1, SameLine DEF Line
<1>3. Fits(ask, "sheets", run[w].job)
  BY SheetJob DEF OnRow
<1>. QED
  BY <1>2, <1>3 DEF RunOK

LEMMA ShLookupRun ==
    ASSUME NEW w \in Workers, Typed, ShLookup(w)
    PROVE  RunTyped' /\ QueueTyped'
<1>. USE DEF Typed
<1>1. PICK found : found = {r.id : r \in {s \in records : s.ref = Line(w).ref}}
  OBVIOUS
<1>. DEFINE c == [run[w] EXCEPT !.at = "post", !.found = found]
<1>2. ask' = ask /\ UNCHANGED queue /\ QueueOf[w] = "sheets" /\ run[w].at = "lookup" /\ Goto(w, c)
  BY <1>1 DEF ShLookup, Rest, At
<1>3. run[w].at \in OnRow
  BY <1>2 DEF OnRow
<1>4. run[w] \in Lines /\ OnTab(ask, run[w])
  BY <1>2, <1>3, RowRun
<1>5. found \in SUBSET IdType
  BY <1>1 DEF RecordsTyped, RecordType
<1>6. /\ c \in Lines /\ c.at = "post" /\ c.job = run[w].job /\ c.left = run[w].left /\ c.valid = run[w].valid
      /\ c.invalid = run[w].invalid /\ c.rows = run[w].rows /\ c.line = run[w].line /\ c.tab = run[w].tab
  BY <1>4, <1>5 DEF Lines, OnRow
<1>7. Line(w).kind = "full" /\ Line(w).ref # NoRef
  BY <1>2, <1>4 DEF OnTab, Line
<1>. HIDE DEF c
<1>8. RunOK(ask, w, c)
  BY <1>2, <1>3, <1>6, <1>7, SameLineRun DEF OnRow
<1>. QED
  BY <1>2, <1>8, OneRun, SameQueue

(* The run after its record is posted. *)
LEMMA PostedRun ==
    ASSUME NEW w \in Workers, Typed, QueueOf[w] = "sheets", run[w].at = "post"
    PROVE  RunOK(ask, w, [run[w] EXCEPT !.at = "sum"])
<1>. USE DEF Typed
<1>. DEFINE c == [run[w] EXCEPT !.at = "sum"]
<1>1. run[w].at \in OnRow
  BY DEF OnRow
<1>2. run[w] \in Lines /\ OnTab(ask, run[w])
  BY <1>1, RowRun
<1>3. /\ c \in Lines /\ c.at = "sum" /\ c.job = run[w].job /\ c.left = run[w].left /\ c.valid = run[w].valid
      /\ c.invalid = run[w].invalid /\ c.rows = run[w].rows /\ c.line = run[w].line /\ c.tab = run[w].tab
  BY <1>2 DEF Lines, OnRow
<1>4. Line(w).kind = "full"
  BY <1>2 DEF OnTab, Line
<1>. HIDE DEF c
<1>5. RunOK(ask, w, c)
  BY <1>1, <1>3, <1>4, SameLineRun DEF OnRow
<1>. QED
  BY <1>5 DEF c

LEMMA ShUpdateRun ==
    ASSUME NEW w \in Workers, Typed, ShUpdate(w)
    PROVE  RunTyped' /\ QueueTyped'
<1>. USE DEF Typed
<1>1. ask' = ask /\ QueueOf[w] = "sheets" /\ run[w].at = "post"
  BY DEF ShUpdate, Rest, At
<1>2. CASE Throw(w)
  BY <1>1, <1>2, ThrowTyped
<1>3. CASE /\ run' = [Disturbed(SharedBy(w)) EXCEPT ![w].at = "sum"]
           /\ UNCHANGED queue
  <2>. DEFINE D == Disturbed(SharedBy(w))
  <2>1. /\ D = [v \in Workers |-> D[v]]
        /\ \A v \in Workers : RunOK(ask, v, D[v])
    BY DisturbedRuns
  <2>2. D[w] = run[w]
    BY DEF Disturbed, SharedBy
  <2>3. run' = [D EXCEPT ![w] = [run[w] EXCEPT !.at = "sum"]]
    <3>1. run' = [D EXCEPT ![w] = [D[w] EXCEPT !.at = "sum"]]
      BY <1>3
    <3>. HIDE DEF D
    <3>. QED
      BY <2>2, <3>1
  <2>4. RunOK(ask, w, [run[w] EXCEPT !.at = "sum"])
    BY <1>1, PostedRun
  <2>. HIDE DEF D
  <2>5. RunTyped'
    BY <1>1, <2>1, <2>3, <2>4 DEF RunTyped
  <2>. QED
    BY <1>1, <1>3, <2>5, SameQueue
<1>. QED
  BY <1>2, <1>3 DEF ShUpdate

LEMMA ShInsertRun ==
    ASSUME NEW w \in Workers, Typed, ShInsert(w)
    PROVE  RunTyped' /\ QueueTyped'
<1>. USE DEF Typed
<1>1. ask' = ask /\ QueueOf[w] = "sheets" /\ run[w].at = "post"
  BY DEF ShInsert, Rest, At
<1>2. CASE Throw(w)
  BY <1>1, <1>2, ThrowTyped
<1>3. CASE Step(w, "sum") /\ UNCHANGED queue
  BY <1>1, <1>3, PostedRun, OneRun, SameQueue DEF Step
<1>. QED
  BY <1>2, <1>3 DEF ShInsert

LEMMA ShStoreRun ==
    ASSUME NEW w \in Workers, Typed, ShStore(w)
    PROVE  RunTyped' /\ QueueTyped'
<1>. USE DEF Typed
<1>. DEFINE c == [run[w] EXCEPT !.valid = run[w].valid + 1]
<1>1. ask' = ask /\ QueueOf[w] = "sheets" /\ run[w].at = "sum"
  BY DEF ShStore, Rest, At
<1>2. CASE Throw(w)
  BY <1>1, <1>2, ThrowTyped
<1>3. CASE Goto(w, Moved(c)) /\ UNCHANGED queue
  <2>1. run[w].at \in OnRow
    BY <1>1 DEF OnRow
  <2>2. run[w] \in Lines
    BY <1>1, <2>1, RowRun
  <2>3. /\ c \in Lines /\ c.at = run[w].at /\ c.job = run[w].job /\ c.left = run[w].left
        /\ c.rows = run[w].rows /\ c.line = run[w].line /\ c.tab = run[w].tab
        /\ c.valid = run[w].valid + 1 /\ c.invalid = run[w].invalid
        /\ run[w].valid \in Nat /\ run[w].invalid \in Nat
    BY <2>2 DEF Lines
  <2>. HIDE DEF c
  <2>4. c.valid + c.invalid = run[w].valid + run[w].invalid + 1
    BY <2>3
  <2>5. RunOK(ask, w, Moved(c))
    BY <1>1, <2>1, <2>3, <2>4, CountedLine
  <2>. QED
    BY <1>1, <1>3, <2>5, OneRun, SameQueue
<1>. QED
  BY <1>2, <1>3 DEF ShStore

LEMMA ShTabDoneRun ==
    ASSUME NEW w \in Workers, Typed, ShTabDone(w)
    PROVE  RunTyped' /\ QueueTyped'
<1>. USE DEF Typed
<1>. DEFINE c == [run[w] EXCEPT !.at = "fetch"]
<1>1. ask' = ask /\ UNCHANGED queue /\ QueueOf[w] = "sheets" /\ run[w].at = "tabDone" /\ Goto(w, c)
  BY DEF ShTabDone, Rest, At, Step
<1>2. run[w] \in Lines /\ OnSheet(ask, run[w]) /\ OnTab(ask, run[w])
  BY <1>1, RowRun
<1>3. /\ c \in Lines /\ c.at = "fetch" /\ c.job = run[w].job /\ c.left = run[w].left /\ c.valid = run[w].valid
      /\ c.invalid = run[w].invalid /\ c.rows = run[w].rows /\ c.line = run[w].line /\ c.tab = run[w].tab
  BY <1>2 DEF Lines
<1>. HIDE DEF c
<1>4. OnSheet(ask, c)
  BY <1>2, <1>3 DEF OnSheet
<1>5. OnTab(ask, c)
  BY <1>1, <1>2, <1>3 DEF OnTab, OnRow
<1>6. RunOK(ask, w, c)
  BY <1>1, <1>3, <1>4, <1>5, SheetJob DEF RunOK
<1>. QED
  BY <1>1, <1>6, OneRun, SameQueue

(* The last steps of a sync: no tab is left. *)
LEMMA LastStep ==
    ASSUME NEW w \in Workers, Typed, QueueOf[w] = "sheets", run[w].at \in {"fetch", "stamp"},
           run[w].left = {}, NEW step \in {"stamp", "ack"}
    PROVE  RunOK(ask, w, [run[w] EXCEPT !.at = step])
<1>. USE DEF Typed
<1>. DEFINE c == [run[w] EXCEPT !.at = step]
<1>1. /\ OnSheet(ask, run[w])
      /\ run[w] \in Counts \/ (run[w] \in Lines /\ OnTab(ask, run[w]))
  BY CountRun
<1>2. Fits(ask, "sheets", run[w].job)
  BY SheetJob
<1>3. CASE run[w] \in Counts
  <2>1. /\ c \in Counts /\ c.at = step /\ c.job = run[w].job /\ c.left = run[w].left
        /\ c.valid = run[w].valid /\ c.invalid = run[w].invalid
    BY <1>3 DEF Counts
  <2>. HIDE DEF c
  <2>2. OnSheet(ask, c)
    BY <1>1, <2>1 DEF OnSheet
  <2>3. RunOK(ask, w, c)
    BY <1>2, <2>1, <2>2 DEF RunOK
  <2>. QED
    BY <2>3 DEF c
<1>4. CASE run[w] \in Lines /\ OnTab(ask, run[w])
  <2>1. /\ c \in Lines /\ c.at = step /\ c.job = run[w].job /\ c.left = run[w].left
        /\ c.valid = run[w].valid /\ c.invalid = run[w].invalid
        /\ c.rows = run[w].rows /\ c.line = run[w].line /\ c.tab = run[w].tab
    BY <1>4 DEF Lines
  <2>. HIDE DEF c
  <2>2. OnSheet(ask, c)
    BY <1>1, <2>1 DEF OnSheet
  <2>3. OnTab(ask, c)
    BY <1>4, <2>1 DEF OnTab, OnRow
  <2>4. RunOK(ask, w, c)
    BY <1>2, <2>1, <2>2, <2>3 DEF RunOK
  <2>. QED
    BY <2>4 DEF c
<1>. QED
  BY <1>1, <1>3, <1>4

LEMMA ShFinishRun ==
    ASSUME NEW w \in Workers, Typed, ShFinish(w)
    PROVE  RunTyped' /\ QueueTyped'
<1>. USE DEF Typed
<1>1. PICK step \in {"stamp", "ack"} : step = IF FinalStatus(w) = "success" THEN "stamp" ELSE "ack"
  OBVIOUS
<1>2. /\ ask' = ask /\ UNCHANGED queue /\ QueueOf[w] = "sheets" /\ run[w].at = "fetch"
      /\ run[w].left = {} /\ Goto(w, [run[w] EXCEPT !.at = step])
  BY <1>1 DEF ShFinish, Rest, At, Step
<1>. QED
  BY <1>2, LastStep, OneRun, SameQueue

LEMMA ShStampRun ==
    ASSUME NEW w \in Workers, Typed, ShStamp(w)
    PROVE  RunTyped' /\ QueueTyped'
<1>. USE DEF Typed
<1>1. /\ ask' = ask /\ UNCHANGED queue /\ QueueOf[w] = "sheets" /\ run[w].at = "stamp"
      /\ Goto(w, [run[w] EXCEPT !.at = "ack"])
  BY DEF ShStamp, Rest, At, Step
<1>2. run[w].left = {}
  BY <1>1, CountRun DEF OnSheet
<1>. QED
  BY <1>1, <1>2, LastStep, OneRun, SameQueue

-----------------------------------------------------------------------------
(* The runs of the other workers. *)

LEMMA SyncJob ==
    ASSUME NEW w \in Workers, AskTyped, RunTyped, QueueOf[w] = "sync", run[w].at # "idle"
    PROVE  /\ Fits(ask, "sync", run[w].job) /\ run[w].job \in JobType
           /\ Of(w) \in Requests /\ Of(w) \in DOMAIN ask /\ Source(w) \in Sources \ Sheets
           /\ Source(w) \in Origins
  BY Running DEF Fits, Of, Source, JobType, AskTyped, WellAsked, Origins

LEMMA SyStartRun ==
    ASSUME NEW w \in Workers, Typed, SyStart(w)
    PROVE  RunTyped' /\ QueueTyped'
<1>. USE DEF Typed
<1>. DEFINE r == [at |-> "row", job |-> run[w].job, calm |-> FALSE, rows |-> feed[Source(w)],
                  line |-> 1, valid |-> 0, invalid |-> 0]
<1>1. ask' = ask /\ UNCHANGED queue /\ QueueOf[w] = "sync" /\ run[w].at = "start" /\ Goto(w, r)
  BY DEF SyStart, Kept, At
<1>2. feed[Source(w)] \in Seq(Row) /\ Len(feed[Source(w)]) <= MaxLines /\ Len(feed[Source(w)]) \in Nat
  BY <1>1, SyncJob, LenProperties DEF FeedTyped
<1>3. r \in Posts
  BY <1>1, <1>2, SyncJob DEF Posts
<1>4. OnFeed(r)
  BY <1>2 DEF OnFeed
<1>5. RunOK(ask, w, r)
  BY <1>1, <1>3, <1>4, SyncJob DEF RunOK
<1>. QED
  BY <1>1, <1>5, OneRun, SameQueue

(* The record a sync worker is at. *)
LEMMA CurrentType ==
    ASSUME NEW w \in Workers, RunTyped, QueueOf[w] = "sync", run[w].at = "row", More(w)
    PROVE  /\ Current(w) \in Row /\ run[w].line \in DOMAIN run[w].rows
           /\ run[w] \in Posts /\ OnFeed(run[w])
<1>1. run[w] \in Posts /\ OnFeed(run[w])
  BY PostRun
<1>2. run[w].rows \in Seq(Row) /\ Len(run[w].rows) \in Nat
  BY <1>1, LenProperties DEF Posts
<1>3. run[w].line \in 1 .. Len(run[w].rows)
  BY <1>1, <1>2 DEF OnFeed, More
<1>4. Current(w) \in Row /\ run[w].line \in DOMAIN run[w].rows
  BY <1>2, <1>3, ElementOfSeq, LenProperties DEF Current
<1>. QED
  BY <1>1, <1>4

LEMMA NextPost ==
    ASSUME NEW w \in Workers, Typed, QueueOf[w] = "sync", run[w].at = "row", More(w), NEW c \in Posts,
           c.at = "row", c.job = run[w].job, c.rows = run[w].rows, c.line = run[w].line + 1,
           c.valid + c.invalid = run[w].valid + run[w].invalid + 1
    PROVE  RunOK(ask, w, c)
<1>. USE DEF Typed
<1>1. run[w] \in Posts /\ OnFeed(run[w]) /\ run[w].line \in DOMAIN run[w].rows
  BY CurrentType
<1>2. run[w].rows \in Seq(Row) /\ Len(run[w].rows) \in Nat /\ run[w].line \in 1 .. Len(run[w].rows)
  BY <1>1, LenProperties DEF Posts
<1>3. run[w].valid + run[w].invalid = run[w].line - 1
  BY <1>1 DEF OnFeed
<1>4. c.valid + c.invalid = c.line - 1 /\ c.line \in 1 .. Len(c.rows) + 1
  BY <1>2, <1>3
<1>5. OnFeed(c)
  BY <1>1, <1>4 DEF OnFeed
<1>. QED
  BY <1>5, SyncJob DEF RunOK

LEMMA SyErrorRun ==
    ASSUME NEW w \in Workers, Typed, SyError(w)
    PROVE  RunTyped' /\ QueueTyped'
<1>. USE DEF Typed
<1>. DEFINE c == [run[w] EXCEPT !.line = run[w].line + 1, !.invalid = run[w].invalid + 1]
<1>1. ask' = ask /\ UNCHANGED queue /\ QueueOf[w] = "sync" /\ run[w].at = "row" /\ More(w) /\ Goto(w, c)
  BY DEF SyError, Kept, At
<1>2. run[w] \in Posts
  BY <1>1, PostRun
<1>3. /\ c \in Posts /\ c.at = "row" /\ c.job = run[w].job /\ c.rows = run[w].rows
      /\ c.line = run[w].line + 1 /\ c.invalid = run[w].invalid + 1 /\ c.valid = run[w].valid
      /\ run[w].valid \in Nat /\ run[w].invalid \in Nat
  <2>1. /\ run[w].valid \in Nat /\ run[w].invalid \in Nat
        /\ run[w].line + 1 \in Nat /\ run[w].invalid + 1 \in Nat
    BY <1>2 DEF Posts
  <2>2. c = [run[w] EXCEPT !.line = run[w].line + 1, !.invalid = run[w].invalid + 1]
    OBVIOUS
  <2>. HIDE DEF c
  <2>3. PICK n \in Nat, m \in Nat : n = run[w].line + 1 /\ m = run[w].invalid + 1
    BY <2>1
  <2>4. c = [run[w] EXCEPT !.line = n, !.invalid = m]
    BY <2>2, <2>3
  <2>5. /\ c \in Posts /\ c.at = run[w].at /\ c.job = run[w].job /\ c.rows = run[w].rows
        /\ c.line = n /\ c.invalid = m /\ c.valid = run[w].valid
    BY <1>2, <2>4 DEF Posts
  <2>. QED
    BY <1>1, <2>1, <2>3, <2>5
<1>. HIDE DEF c
<1>4. c.valid + c.invalid = run[w].valid + run[w].invalid + 1
  BY <1>3
<1>5. RunOK(ask, w, c)
  BY <1>1, <1>3, <1>4, NextPost
<1>. QED
  BY <1>1, <1>5, OneRun, SameQueue

LEMMA SyInsertRun ==
    ASSUME NEW w \in Workers, Typed, SyInsert(w)
    PROVE  RunTyped' /\ QueueTyped'
<1>. USE DEF Typed
<1>. DEFINE c == [run[w] EXCEPT !.line = run[w].line + 1, !.valid = run[w].valid + 1]
<1>1. ask' = ask /\ QueueOf[w] = "sync" /\ run[w].at = "row" /\ More(w)
  BY DEF SyInsert, Kept, At
<1>2. CASE Throw(w)
  BY <1>1, <1>2, ThrowTyped
<1>3. CASE Goto(w, c) /\ UNCHANGED queue
  <2>1. run[w] \in Posts
    BY <1>1, PostRun
  <2>2. /\ c \in Posts /\ c.at = "row" /\ c.job = run[w].job /\ c.rows = run[w].rows
        /\ c.line = run[w].line + 1 /\ c.valid = run[w].valid + 1 /\ c.invalid = run[w].invalid
        /\ run[w].valid \in Nat /\ run[w].invalid \in Nat
    <3>1. /\ run[w].valid \in Nat /\ run[w].invalid \in Nat
          /\ run[w].line + 1 \in Nat /\ run[w].valid + 1 \in Nat
      BY <2>1 DEF Posts
    <3>2. c = [run[w] EXCEPT !.line = run[w].line + 1, !.valid = run[w].valid + 1]
      OBVIOUS
    <3>. HIDE DEF c
    <3>3. PICK n \in Nat, m \in Nat : n = run[w].line + 1 /\ m = run[w].valid + 1
      BY <3>1
    <3>4. c = [run[w] EXCEPT !.line = n, !.valid = m]
      BY <3>2, <3>3
    <3>5. /\ c \in Posts /\ c.at = run[w].at /\ c.job = run[w].job /\ c.rows = run[w].rows
          /\ c.line = n /\ c.valid = m /\ c.invalid = run[w].invalid
      BY <2>1, <3>4 DEF Posts
    <3>. QED
      BY <1>1, <3>1, <3>3, <3>5
  <2>. HIDE DEF c
  <2>3. c.valid + c.invalid = run[w].valid + run[w].invalid + 1
    BY <2>2
  <2>4. RunOK(ask, w, c)
    BY <1>1, <2>2, <2>3, NextPost
  <2>. QED
    BY <1>1, <1>3, <2>4, OneRun, SameQueue
<1>. QED
  BY <1>2, <1>3 DEF SyInsert

LEMMA SyFinishRun ==
    ASSUME NEW w \in Workers, Typed, SyFinish(w)
    PROVE  RunTyped' /\ QueueTyped'
<1>. USE DEF Typed
<1>. DEFINE c == [run[w] EXCEPT !.at = "ack"]
<1>1. /\ ask' = ask /\ UNCHANGED queue /\ QueueOf[w] = "sync" /\ run[w].at = "row" /\ ~More(w)
      /\ Goto(w, c)
  BY DEF SyFinish, Kept, At, Step
<1>2. run[w] \in Posts /\ OnFeed(run[w])
  BY <1>1, PostRun
<1>3. /\ c \in Posts /\ c.at = "ack" /\ c.job = run[w].job /\ c.rows = run[w].rows /\ c.line = run[w].line
      /\ c.valid = run[w].valid /\ c.invalid = run[w].invalid
  BY <1>2 DEF Posts
<1>4. run[w].rows \in Seq(Row) /\ Len(run[w].rows) \in Nat /\ run[w].line \in Nat
  BY <1>2, LenProperties DEF Posts
<1>. HIDE DEF c
<1>5. c.line = Len(c.rows) + 1
  BY <1>1, <1>2, <1>3, <1>4 DEF OnFeed, More
<1>6. OnFeed(c)
  BY <1>2, <1>3, <1>5 DEF OnFeed
<1>7. RunOK(ask, w, c)
  BY <1>1, <1>3, <1>6, SyncJob DEF RunOK
<1>. QED
  BY <1>1, <1>7, OneRun, SameQueue

LEMMA ExportRun ==
    ASSUME NEW w \in Workers, Typed, ExportStep(w)
    PROVE  RunTyped' /\ QueueTyped'
<1>. USE DEF Typed
<1>1. ask' = ask /\ UNCHANGED queue
  BY DEF ExportStep, RpMark, RpSelect, RpWrite, RpComplete, Dispatch, Aside
<1>2. run[w].at # "idle" => Fits(ask, QueueOf[w], run[w].job) /\ run[w].job \in JobType
  BY Running DEF Fits
<1>3. CASE RpMark(w)
  <2>. DEFINE c == [run[w] EXCEPT !.at = "select"]
  <2>1. QueueOf[w] = "report" /\ run[w].at = "start" /\ Goto(w, c)
    BY <1>3 DEF RpMark, At, Step
  <2>2. run[w] \in Begins
    BY <2>1 DEF RunTyped, RunOK, Idle, Filings
  <2>3. c \in Begins /\ c.at = "select" /\ c.job = run[w].job
    BY <2>2 DEF Begins
  <2>. HIDE DEF c
  <2>4. RunOK(ask, w, c)
    BY <1>2, <2>1, <2>3 DEF RunOK
  <2>. QED
    BY <1>1, <2>1, <2>4, OneRun, SameQueue
<1>4. CASE RpSelect(w)
  <2>. DEFINE c == [at |-> "file", job |-> run[w].job, calm |-> FALSE, picked |-> records]
  <2>1. QueueOf[w] = "report" /\ run[w].at = "select" /\ Goto(w, c)
    BY <1>4 DEF RpSelect, At
  <2>2. c \in Filings /\ c.job = run[w].job
    BY <1>2, <2>1 DEF Filings, RecordsTyped
  <2>. HIDE DEF c
  <2>3. RunOK(ask, w, c)
    BY <1>2, <2>1, <2>2 DEF RunOK
  <2>. QED
    BY <1>1, <2>1, <2>3, OneRun, SameQueue
<1>5. ASSUME NEW step \in {"complete", "ack"}, QueueOf[w] = "report", run[w].at \in {"file", "complete"},
             Step(w, step)
      PROVE  RunTyped' /\ QueueTyped'
  <2>. DEFINE c == [run[w] EXCEPT !.at = step]
  <2>1. run[w] \in Filings
    BY <1>5, FilingRun
  <2>2. c \in Filings /\ c.job = run[w].job
    BY <2>1 DEF Filings
  <2>3. Goto(w, c)
    BY <1>5 DEF Step
  <2>. HIDE DEF c
  <2>4. RunOK(ask, w, c)
    BY <1>2, <1>5, <2>2 DEF RunOK
  <2>. QED
    BY <1>1, <2>3, <2>4, OneRun, SameQueue
<1>6. CASE RpWrite(w)
  BY <1>5, <1>6 DEF RpWrite, At
<1>7. CASE RpComplete(w)
  BY <1>5, <1>7 DEF RpComplete, At
<1>8. CASE Dispatch(w)
  <2>. DEFINE c == [run[w] EXCEPT !.at = "ack"]
  <2>1. QueueOf[w] = "outbox" /\ run[w].at = "start" /\ Goto(w, c)
    BY <1>8 DEF Dispatch, At, Step
  <2>2. run[w] \in Begins
    BY <2>1 DEF RunTyped, RunOK, Idle
  <2>3. c \in Begins /\ c.at = "ack" /\ c.job = run[w].job
    BY <2>2 DEF Begins
  <2>. HIDE DEF c
  <2>4. RunOK(ask, w, c)
    BY <1>2, <2>1, <2>3 DEF RunOK
  <2>. QED
    BY <1>1, <2>1, <2>4, OneRun, SameQueue
<1>. QED
  BY <1>3, <1>4, <1>6, <1>7, <1>8 DEF ExportStep

LEMMA AckRun ==
    ASSUME NEW w \in Workers, Typed, Ack(w)
    PROVE  RunTyped' /\ QueueTyped'
<1>1. ask' = ask /\ UNCHANGED queue /\ Goto(w, Idle) /\ RunOK(ask, w, Idle)
  BY DEF Ack, RunOK
<1>. QED
  BY <1>1, OneRun, SameQueue DEF Typed

LEMMA FaultRun ==
    ASSUME NEW w \in Workers, Typed, Fault(w)
    PROVE  RunTyped' /\ QueueTyped'
<1>1. ask' = ask /\ Throw(w) /\ run[w].at # "idle"
  BY DEF Fault
<1>. QED
  BY <1>1, ThrowTyped DEF Typed

-----------------------------------------------------------------------------
(* Requests: the jobs they make and the runs they disturb. *)

LEMMA DisturbRun ==
    ASSUME NEW s, Typed, Disturb(s), UNCHANGED <<ask, queue>>
    PROVE  RunTyped' /\ QueueTyped'
<1>. USE DEF Typed
<1>1. run' = Disturbed(s) /\ ask' = ask
  BY DEF Disturb
<1>2. /\ Disturbed(s) = [w \in Workers |-> Disturbed(s)[w]]
      /\ \A w \in Workers : RunOK(ask, w, Disturbed(s)[w])
  BY DisturbedRuns
<1>. QED
  BY <1>1, <1>2, SameQueue DEF RunTyped

LEMMA EnqueueRun ==
    ASSUME NEW q \in Requests, Typed, Enqueue(q)
    PROVE  RunTyped' /\ QueueTyped'
<1>. USE DEF Typed
<1>1. PICK kind : kind = CASE Op(q) = "report" -> "report"
                           [] Op(q) # "report" /\ ask[q].source \in Sheets -> "sheets"
                           [] OTHER -> "sync"
  OBVIOUS
<1>2. PICK actor : actor = IF Op(q) \in {"sync", "report"} THEN "admin" ELSE "system"
  OBVIOUS
<1>3. ask' = ask /\ UNCHANGED run /\ q \in DOMAIN ask /\ req[q].at = "enqueue" /\ Add(kind, Job(q, actor))
  BY <1>1, <1>2 DEF Enqueue, Waits
<1>4. Op(q) \in Makers /\ (Op(q) \in {"tick", "push"} => ask[q].source \in Sheets)
  BY <1>3 DEF ReqTyped, ReqOK, Op
<1>5. /\ kind \in Queues /\ kind # "outbox"
      /\ kind = "report" <=> Op(q) = "report"
      /\ kind # "report" => (ask[q].source \in Sheets <=> kind = "sheets")
  BY <1>1 DEF Queues
<1>6. Job(q, actor) \in JobType /\ Job(q, actor).of = q /\ Job(q, actor).tries = 0 /\ Job(q, actor).stalls = 0
  BY <1>2 DEF Job, JobType
<1>7. 0 < Tries(kind) /\ 0 <= MaxStalledCount
  BY SyncAssumption DEF Tries, MaxStalledCount
<1>8. Fits(ask, kind, Job(q, actor))
  BY <1>3, <1>4, <1>5, <1>6, <1>7 DEF Fits, Op
<1>. QED
  BY <1>3, <1>5, <1>8, AddTyped DEF RunTyped

LEMMA EnqueueEventRun ==
    ASSUME NEW q \in Requests, Typed, EnqueueEvent(q)
    PROVE  RunTyped' /\ QueueTyped'
<1>. USE DEF Typed
<1>1. ask' = ask /\ UNCHANGED run /\ q \in DOMAIN ask /\ req[q].at = "eventJob" /\ Add("outbox", Job(q, "admin"))
  BY DEF EnqueueEvent, Waits
<1>2. Op(q) \in {"sync", "report"}
  BY <1>1 DEF ReqTyped, ReqOK, Op
<1>3. /\ Job(q, "admin") \in JobType /\ Job(q, "admin").of = q
      /\ Job(q, "admin").tries = 0 /\ Job(q, "admin").stalls = 0
  BY DEF Job, JobType
<1>4. Fits(ask, "outbox", Job(q, "admin"))
  BY <1>1, <1>2, <1>3 DEF Fits, Op, Tries, MaxStalledCount
<1>. QED
  BY <1>1, <1>4, AddTyped DEF RunTyped, Queues

-----------------------------------------------------------------------------
(* The tables. *)

Tables == /\ AskTyped /\ FeedTyped /\ MayTyped /\ SourcesTyped /\ BatchesTyped /\ RecordsTyped
          /\ SumsTyped /\ ReportsTyped /\ ReqTyped

(* What a step leaves alone keeps its type. *)
LEMMA Frame ==
    ASSUME Typed
    PROVE  /\ ask' = ask => AskTyped'
           /\ feed' = feed => FeedTyped'
           /\ may' = may => MayTyped'
           /\ sources' = sources /\ tabsOn' = tabsOn /\ fresh' = fresh => SourcesTyped'
           /\ batches' = batches /\ errors' = errors => BatchesTyped'
           /\ records' = records => RecordsTyped'
           /\ sums' = sums => SumsTyped'
           /\ reports' = reports /\ files' = files /\ events' = events => ReportsTyped'
           /\ ask' = ask /\ req' = req => ReqTyped'
<1>1. ask' = ask => AskTyped'
  BY DEF Typed, AskTyped
<1>2. feed' = feed => FeedTyped'
  BY DEF Typed, FeedTyped
<1>3. may' = may => MayTyped'
  BY DEF Typed, MayTyped
<1>4. sources' = sources /\ tabsOn' = tabsOn /\ fresh' = fresh => SourcesTyped'
  BY DEF Typed, SourcesTyped
<1>5. batches' = batches /\ errors' = errors => BatchesTyped'
  BY DEF Typed, BatchesTyped
<1>6. records' = records => RecordsTyped'
  BY DEF Typed, RecordsTyped
<1>7. sums' = sums => SumsTyped'
  BY DEF Typed, SumsTyped
<1>8. reports' = reports /\ files' = files /\ events' = events => ReportsTyped'
  BY DEF Typed, ReportsTyped
<1>9. ask' = ask /\ req' = req => ReqTyped'
  BY DEF Typed, ReqTyped
<1>. QED
  BY <1>1, <1>2, <1>3, <1>4, <1>5, <1>6, <1>7, <1>8, <1>9

(* A step of a sheets worker leaves these alone. *)
LEMMA SheetsFrame ==
    ASSUME NEW w \in Workers, Typed, SheetsStep(w)
    PROVE  /\ AskTyped' /\ FeedTyped' /\ MayTyped' /\ ReportsTyped' /\ ReqTyped'
           /\ QueueOf[w] = "sheets" /\ run[w].at # "idle"
<1>1. UNCHANGED Rest /\ QueueOf[w] = "sheets" /\ run[w].at # "idle"
  <2>1. CASE ShStart(w) \/ ShTabs(w) \/ ShFetch(w) \/ ShCompare(w) \/ ShError(w) \/ ShLookup(w)
    BY <2>1 DEF ShStart, ShTabs, ShFetch, ShCompare, ShError, ShLookup, At, Rest
  <2>2. CASE ShUpdate(w) \/ ShInsert(w) \/ ShStore(w) \/ ShTabDone(w) \/ ShFinish(w) \/ ShStamp(w)
    BY <2>2 DEF ShUpdate, ShInsert, ShStore, ShTabDone, ShFinish, ShStamp, At, Rest
  <2>. QED
    BY <2>1, <2>2 DEF SheetsStep
<1>2. /\ ask' = ask /\ feed' = feed /\ may' = may /\ reports' = reports /\ files' = files
      /\ events' = events /\ req' = req
  BY <1>1 DEF Rest
<1>. QED
  BY <1>1, <1>2, Frame

(* The batch a run reports on, and what it has counted. *)
LEMMA CountsBound ==
    ASSUME NEW w \in Workers, Typed, QueueOf[w] = "sheets", run[w].at = "fetch"
    PROVE  /\ run[w].valid \in Nat /\ run[w].invalid \in Nat
           /\ run[w].valid + run[w].invalid <= MaxLines * (1 + Cardinality(Tabs))
<1>1. /\ run[w].valid \in Nat /\ run[w].invalid \in Nat /\ run[w].left \in SUBSET Tabs
      /\ run[w].valid + run[w].invalid <= Allowance(run[w].left)
  BY CountRun DEF Typed, Counts, Lines, OnSheet
<1>2. /\ MaxLines \in Nat /\ Cardinality(Tabs) \in Nat /\ Allowance(run[w].left) \in Nat
      /\ Allowance(run[w].left) <= MaxLines * Cardinality(Tabs)
  BY <1>1, AllowanceFacts
<1>3. \A m, n \in Nat : m * n \in Nat /\ m * n <= m * (1 + n)
  OBVIOUS
<1>. QED
  BY <1>1, <1>2, <1>3

LEMMA PostsBound ==
    ASSUME NEW w \in Workers, Typed, QueueOf[w] = "sync", run[w].at = "row"
    PROVE  /\ run[w].valid \in Nat /\ run[w].invalid \in Nat
           /\ run[w].valid + run[w].invalid <= MaxLines * (1 + Cardinality(Tabs))
<1>1. run[w] \in Posts /\ OnFeed(run[w])
  BY PostRun DEF Typed
<1>2. /\ run[w].valid \in Nat /\ run[w].invalid \in Nat /\ Len(run[w].rows) \in Nat
      /\ run[w].line \in Nat
  BY <1>1, LenProperties DEF Posts
<1>3. run[w].valid + run[w].invalid <= MaxLines
  BY <1>1, <1>2, AllowanceFacts DEF OnFeed
<1>4. \A m, n \in Nat : m * (1 + n) \in Nat /\ m <= m * (1 + n)
  <2>1. \A m, n \in Nat : m * n \in Nat /\ m * (1 + n) = m + m * n
    OBVIOUS
  <2>. QED
    BY <2>1
<1>. QED
  BY <1>2, <1>3, <1>4, AllowanceFacts

(* Writing the status, or all of a batch. *)
LEMMA BatchWritten ==
    ASSUME NEW q \in Requests, BatchesTyped, errors' \in [Requests -> Nat],
           \/ \E s \in SyncStatus : batches' = [batches EXCEPT ![q].status = s]
           \/ \E s \in SyncStatus, v, i \in Nat :
                /\ v + i <= MaxLines * (1 + Cardinality(Tabs))
                /\ batches' = [batches EXCEPT ![q] = [status |-> s, valid |-> v, invalid |-> i]]
    PROVE  BatchesTyped'
<1>1. ASSUME NEW s \in SyncStatus, batches' = [batches EXCEPT ![q].status = s]
      PROVE  BatchesTyped'
  BY <1>1 DEF BatchesTyped, BatchRow
<1>2. ASSUME NEW s \in SyncStatus, NEW v \in Nat, NEW i \in Nat,
             v + i <= MaxLines * (1 + Cardinality(Tabs)),
             batches' = [batches EXCEPT ![q] = [status |-> s, valid |-> v, invalid |-> i]]
      PROVE  BatchesTyped'
  BY <1>2 DEF BatchesTyped, BatchRow
<1>. QED
  BY <1>1, <1>2

(* The UPDATE keeps a record's key and reference, and writes the rest.     *)
LEMMA UpdatedRecord ==
    ASSUME NEW w, NEW r \in RecordType, Line(w).text \in Texts
    PROVE  /\ Updated(r, w).id = r.id /\ Updated(r, w).ref = r.ref
           /\ Updated(r, w).hash = HashOf(Line(w)) /\ Updated(r, w).batch = Of(w)
           /\ Updated(r, w).text.updatable = Line(w).text.updatable
           /\ HashOf(Line(w)) \in HashType /\ Of(w) \in Requests => Updated(r, w) \in RecordType
<1>1. PICK h, b, u, new : /\ h = HashOf(Line(w)) /\ b = Of(w) /\ u = Line(w).text.updatable
                          /\ new = [r EXCEPT !.hash = h, !.batch = b, !.text = [@ EXCEPT !.updatable = u]]
  OBVIOUS
<1>2. Updated(r, w) = new
  BY <1>1 DEF Updated
<1>3. u \in Updatable
  BY <1>1 DEF Texts
<1>4. PICK text : text = [r.text EXCEPT !.updatable = u]
  OBVIOUS
<1>5. text \in Texts /\ text.updatable = u
  BY <1>3, <1>4 DEF RecordType, Texts
<1>6. new = [r EXCEPT !.hash = h, !.batch = b, !.text = text]
  BY <1>1, <1>4
<1>7. /\ new.id = r.id /\ new.ref = r.ref /\ new.hash = h /\ new.batch = b /\ new.text = text
      /\ h \in HashType /\ b \in Requests => new \in RecordType
  BY <1>5, <1>6 DEF RecordType
<1>. QED
  BY <1>1, <1>2, <1>5, <1>7

LEMMA SheetsTables ==
    ASSUME NEW w \in Workers, Typed, SheetsStep(w)
    PROVE  Tables'
<1>1. /\ AskTyped' /\ FeedTyped' /\ MayTyped' /\ ReportsTyped' /\ ReqTyped'
      /\ QueueOf[w] = "sheets" /\ run[w].at # "idle"
  BY SheetsFrame
<1>2. Of(w) \in Requests /\ Source(w) \in Sheets
  BY <1>1, SheetJob DEF Typed
<1>3. CASE ShStart(w)
  <2>1. /\ batches' = [batches EXCEPT ![Of(w)].status = "running"]
        /\ UNCHANGED <<sources, tabsOn, errors, records, sums, fresh>>
    BY <1>3 DEF ShStart, Rest
  <2>2. BatchesTyped'
    BY <1>2, <2>1, BatchWritten DEF Typed, BatchesTyped, SyncStatus
  <2>. QED
    BY <1>1, <2>1, <2>2, Frame DEF Tables
<1>4. CASE ShTabs(w) \/ ShFetch(w) \/ ShCompare(w) \/ ShLookup(w) \/ ShTabDone(w)
  <2>1. UNCHANGED <<sources, tabsOn, batches, errors, records, sums, fresh>>
    BY <1>4 DEF ShTabs, ShFetch, ShCompare, ShLookup, ShTabDone, Rest
  <2>. QED
    BY <1>1, <2>1, Frame DEF Tables
<1>5. CASE ShError(w)
  <2>1. /\ errors' = [errors EXCEPT ![Of(w)] = @ + 1]
        /\ UNCHANGED <<sources, tabsOn, batches, records, sums, fresh>>
    BY <1>5 DEF ShError, Rest
  <2>2. BatchesTyped'
    BY <1>2, <2>1 DEF Typed, BatchesTyped
  <2>. QED
    BY <1>1, <2>1, <2>2, Frame DEF Tables
<1>6. CASE ShUpdate(w)
  <2>1. /\ UNCHANGED <<sources, tabsOn, batches, errors, sums>>
        /\ fresh' \subseteq fresh
        /\ run[w].at = "post"
    BY <1>6 DEF ShUpdate, Rest, At
  <2>2. HashOf(Line(w)) \in HashType /\ Line(w).text \in Texts
    BY <1>1, <2>1, LineType DEF Typed, HashType, OnRow, Row
  <2>3. records' \subseteq RecordType
    <3>1. \A r \in RecordType : Updated(r, w) \in RecordType
      BY <1>2, <2>2, UpdatedRecord
    <3>2. records \subseteq RecordType
      BY DEF Typed, RecordsTyped
    <3>3. \/ records' = records
          \/ \E hit \in SUBSET records :
               records' = (records \ hit) \cup {Updated(r, w) : r \in hit}
      <4>1. {r \in records : r.id \in run[w].found} \in SUBSET records
        OBVIOUS
      <4>. QED
        BY <1>6, <4>1 DEF ShUpdate
    <3>. QED
      BY <3>1, <3>2, <3>3
  <2>4. RecordsTyped' /\ SourcesTyped'
    BY <2>1, <2>3 DEF Typed, RecordsTyped, SourcesTyped
  <2>. QED
    BY <1>1, <2>1, <2>4, Frame DEF Tables
<1>7. CASE ShInsert(w)
  <2>. DEFINE new == [id |-> RecordId(w), ref |-> Line(w).ref, text |-> Line(w).text,
                      hash |-> HashOf(Line(w)), batch |-> Of(w)]
  <2>1. /\ UNCHANGED <<sources, tabsOn, batches, errors, sums, fresh>>
        /\ run[w].at = "post"
        /\ records' = records \/ records' = records \cup {new}
    BY <1>7 DEF ShInsert, Rest, At
  <2>2. /\ HashOf(Line(w)) \in HashType /\ Line(w).ref \in Refs \cup {NoRef} /\ Line(w).text \in Texts
        /\ Origin(w) \in Origins /\ run[w].line \in Nat /\ run[w].job \in JobType
    BY <1>1, <2>1, LineType, SheetJob DEF Typed, HashType, OnRow, Row
  <2>3. new \in RecordType
    BY <1>2, <2>2 DEF RecordType, RecordId, IdType
  <2>4. RecordsTyped'
    BY <2>1, <2>3 DEF Typed, RecordsTyped
  <2>. QED
    BY <1>1, <2>1, <2>4, Frame DEF Tables
<1>8. CASE ShStore(w)
  <2>1. /\ UNCHANGED <<sources, tabsOn, batches, errors, records, fresh>>
        /\ run[w].at = "sum"
        /\ sums' = sums \/ sums' = [sums EXCEPT ![Origin(w)][run[w].line] = {HashOf(Line(w))}]
    BY <1>8 DEF ShStore, Rest, At
  <2>2. HashOf(Line(w)) \in HashType /\ Origin(w) \in Tabs /\ run[w].line \in 1 .. MaxLines
    BY <1>1, <2>1, LineType DEF Typed, HashType, OnRow
  <2>3. PICK h \in HashType, t \in Tabs, i \in 1 .. MaxLines :
          h = HashOf(Line(w)) /\ t = Origin(w) /\ i = run[w].line
    BY <2>2
  <2>4. sums' = sums \/ sums' = [sums EXCEPT ![t] = [sums[t] EXCEPT ![i] = {h}]]
    BY <2>1, <2>3
  <2>5. sums[t] \in [1 .. MaxLines -> SUBSET HashType] /\ {h} \in SUBSET HashType
    BY DEF Typed, SumsTyped
  <2>6. [sums[t] EXCEPT ![i] = {h}] \in [1 .. MaxLines -> SUBSET HashType]
    BY <2>5
  <2>7. SumsTyped'
    BY <2>4, <2>6 DEF Typed, SumsTyped
  <2>. QED
    BY <1>1, <2>1, <2>7, Frame DEF Tables
<1>9. CASE ShFinish(w)
  <2>1. /\ batches' = [batches EXCEPT ![Of(w)] = [status |-> FinalStatus(w), valid |-> run[w].valid,
                                                  invalid |-> run[w].invalid]]
        /\ UNCHANGED <<sources, tabsOn, errors, records, sums>>
        /\ fresh' \subseteq fresh \cup {Source(w)}
        /\ run[w].at = "fetch"
    BY <1>9 DEF ShFinish, Rest, At
  <2>2. FinalStatus(w) \in SyncStatus
    BY DEF FinalStatus, SyncStatus
  <2>3. BatchesTyped'
    BY <1>1, <1>2, <2>1, <2>2, CountsBound, BatchWritten DEF Typed, BatchesTyped
  <2>4. SourcesTyped'
    BY <1>2, <2>1 DEF Typed, SourcesTyped
  <2>. QED
    BY <1>1, <2>1, <2>3, <2>4, Frame DEF Tables
<1>10. CASE ShStamp(w)
  <2>1. /\ sources' = [sources EXCEPT ![Source(w)].recent = TRUE]
        /\ UNCHANGED <<tabsOn, batches, errors, records, sums, fresh>>
    BY <1>10 DEF ShStamp, Rest
  <2>2. SourcesTyped'
    BY <2>1 DEF Typed, SourcesTyped, SourceRow
  <2>. QED
    BY <1>1, <2>1, <2>2, Frame DEF Tables
<1>. QED
  BY <1>3, <1>4, <1>5, <1>6, <1>7, <1>8, <1>9, <1>10 DEF SheetsStep

LEMMA SourceTables ==
    ASSUME NEW w \in Workers, Typed, SourceStep(w)
    PROVE  Tables'
<1>1. UNCHANGED Kept /\ QueueOf[w] = "sync" /\ run[w].at # "idle"
  BY DEF SourceStep, SyStart, SyError, SyInsert, SyFinish, At
<1>2. /\ AskTyped' /\ FeedTyped' /\ MayTyped' /\ SourcesTyped' /\ SumsTyped' /\ ReportsTyped' /\ ReqTyped'
  BY <1>1, Frame DEF Kept
<1>3. Of(w) \in Requests /\ run[w].job \in JobType /\ Source(w) \in Origins
  BY <1>1, SyncJob DEF Typed
<1>4. CASE SyStart(w)
  <2>1. batches' = [batches EXCEPT ![Of(w)].status = "running"] /\ UNCHANGED <<errors, records>>
    BY <1>4 DEF SyStart
  <2>2. BatchesTyped'
    BY <1>3, <2>1, BatchWritten DEF Typed, BatchesTyped, SyncStatus
  <2>. QED
    BY <1>2, <2>1, <2>2, Frame DEF Tables
<1>5. CASE SyError(w)
  <2>1. errors' = [errors EXCEPT ![Of(w)] = @ + 1] /\ UNCHANGED <<batches, records>>
    BY <1>5 DEF SyError
  <2>2. BatchesTyped'
    BY <1>3, <2>1 DEF Typed, BatchesTyped
  <2>. QED
    BY <1>2, <2>1, <2>2, Frame DEF Tables
<1>6. CASE SyInsert(w)
  <2>. DEFINE new == [id |-> [batch |-> Of(w), job |-> run[w].job, origin |-> Source(w),
                              line |-> run[w].line],
                      ref |-> Current(w).ref, text |-> Current(w).text, hash |-> SyHash(w),
                      batch |-> Of(w)]
  <2>1. /\ UNCHANGED <<batches, errors>> /\ run[w].at = "row" /\ More(w)
        /\ records' = records \/ records' = records \cup {new}
    BY <1>6 DEF SyInsert, At
  <2>2. /\ Current(w).ref \in Refs \cup {NoRef} /\ Current(w).text \in Texts
        /\ run[w].line \in Nat /\ run[w].valid \in Nat
    BY <1>1, <2>1, CurrentType DEF Typed, Row, Posts
  <2>3. SyHash(w) \in HashType
    BY <1>3, <2>2 DEF SyHash, HashType
  <2>4. new \in RecordType
    BY <1>3, <2>2, <2>3 DEF RecordType, IdType
  <2>5. RecordsTyped'
    BY <2>1, <2>4 DEF Typed, RecordsTyped
  <2>. QED
    BY <1>2, <2>1, <2>5, Frame DEF Tables
<1>7. CASE SyFinish(w)
  <2>. DEFINE status == IF run[w].invalid > 0 THEN "partial_success" ELSE "success"
  <2>1. /\ batches' = [batches EXCEPT ![Of(w)] = [status |-> status, valid |-> run[w].valid,
                                                  invalid |-> run[w].invalid]]
        /\ UNCHANGED <<errors, records>> /\ run[w].at = "row"
    BY <1>7 DEF SyFinish, At
  <2>2. status \in SyncStatus
    BY DEF SyncStatus
  <2>. HIDE DEF status
  <2>3. BatchesTyped'
    BY <1>1, <1>3, <2>1, <2>2, PostsBound, BatchWritten DEF Typed, BatchesTyped
  <2>. QED
    BY <1>2, <2>1, <2>3, Frame DEF Tables
<1>. QED
  BY <1>4, <1>5, <1>6, <1>7 DEF SourceStep

LEMMA ExportTables ==
    ASSUME NEW w \in Workers, Typed, ExportStep(w)
    PROVE  Tables'
<1>1. UNCHANGED Aside
  BY DEF ExportStep, RpMark, RpSelect, RpWrite, RpComplete, Dispatch
<1>2. /\ AskTyped' /\ FeedTyped' /\ MayTyped' /\ SourcesTyped' /\ SumsTyped' /\ BatchesTyped'
      /\ RecordsTyped' /\ ReqTyped'
  BY <1>1, Frame DEF Aside
<1>3. run[w].at # "idle" => Of(w) \in Requests
  BY Running DEF Typed, Fits, JobType, Of
<1>4. ASSUME RpMark(w) PROVE ReportsTyped'
  BY <1>3, <1>4 DEF RpMark, At, Marked, Typed, ReportsTyped, ReportRow, ReportStatus
<1>5. ASSUME RpSelect(w) PROVE ReportsTyped'
  BY <1>5 DEF RpSelect, Typed, ReportsTyped
<1>6. ASSUME RpWrite(w) PROVE ReportsTyped'
  <2>1. run[w].picked \in SUBSET RecordType
    BY <1>6, FilingRun DEF RpWrite, At, Typed, Filings
  <2>2. files' = [files EXCEPT ![Of(w)] = run[w].picked] /\ UNCHANGED <<reports, events>>
    BY <1>6 DEF RpWrite
  <2>. QED
    BY <2>1, <2>2 DEF Typed, ReportsTyped
<1>7. ASSUME RpComplete(w) PROVE ReportsTyped'
  <2>1. run[w].picked \in SUBSET RecordType
    BY <1>7, FilingRun DEF RpComplete, At, Typed, Filings
  <2>2. /\ reports' = [reports EXCEPT ![Of(w)] = [status |-> "completed", size |-> run[w].picked]]
        /\ UNCHANGED <<files, events>>
    BY <1>7 DEF RpComplete
  <2>. QED
    BY <2>1, <2>2 DEF Typed, ReportsTyped, ReportRow, ReportStatus
<1>8. ASSUME Dispatch(w) PROVE ReportsTyped'
  BY <1>8 DEF Dispatch, Typed, ReportsTyped
<1>9. ReportsTyped'
  BY <1>4, <1>5, <1>6, <1>7, <1>8 DEF ExportStep
<1>. QED
  BY <1>2, <1>9 DEF Tables

LEMMA PodTables ==
    ASSUME NEW w \in Workers, Typed, Take(w) \/ Ack(w) \/ Fault(w) \/ CrashWorker(w)
    PROVE  Tables'
<1>1. UNCHANGED <<feed, sources, tabsOn, batches, errors, records, sums, reports, files, events,
                  ask, req, fresh>>
  BY DEF Take, Ack, Fault, CrashWorker
<1>2. MayTyped'
  <2>1. CASE Take(w) \/ Ack(w)
    BY <2>1, Frame DEF Take, Ack
  <2>2. CASE Fault(w)
    <3>1. may.faults > 0 /\ may' = [may EXCEPT !.faults = @ - 1, !.failed = TRUE]
      BY <2>2 DEF Fault
    <3>2. may \in [edits : Nat, crashes : Nat, faults : Nat, failed : BOOLEAN]
      BY DEF Typed, MayTyped
    <3>3. PICK n \in Nat : n = may.faults - 1
      BY <3>1, <3>2
    <3>4. may' = [may EXCEPT !.faults = n, !.failed = TRUE]
      BY <3>1, <3>3
    <3>. QED
      BY <3>2, <3>4 DEF MayTyped
  <2>3. CASE CrashWorker(w)
    BY <2>3 DEF CrashWorker, Typed, MayTyped
  <2>. QED
    BY <2>1, <2>2, <2>3
<1>. QED
  BY <1>1, <1>2, Frame DEF Tables

-----------------------------------------------------------------------------
(* The tables that requests write. *)

(* A request moves on. *)
LEMMA ReqMoved ==
    ASSUME NEW q \in Requests, NEW step \in ReqStep, Typed, ask' = ask, Move(q, step), q \in DOMAIN ask,
           step \in {"insert", "enqueue"}
             => Op(q) \in Makers /\ (Op(q) \in {"tick", "push"} => ask[q].source \in Sheets),
           step \in {"event", "eventJob"} => Op(q) \in {"sync", "report"},
           step \notin {"write", "tabs"}
    PROVE  ReqTyped'
<1>. DEFINE r == [req[q] EXCEPT !.at = step]
<1>1. req[q] \in ReqType /\ req = [p \in Requests |-> req[p]]
  BY DEF Typed, ReqTyped, ReqOK
<1>2. r \in ReqType /\ r.at = step
  <2>1. CASE req[q] \in [at : ReqStep]
    BY <2>1 DEF ReqType
  <2>2. CASE req[q] \in [at : ReqStep, row : SourceRow]
    BY <2>2 DEF ReqType
  <2>3. CASE req[q] \in [at : ReqStep, tabs : SUBSET Tabs]
    BY <2>3 DEF ReqType
  <2>. QED
    BY <1>1, <2>1, <2>2, <2>3 DEF ReqType
<1>3. req' = [req EXCEPT ![q] = r]
  BY DEF Move
<1>. HIDE DEF r
<1>4. ReqOK(ask, q, r)
  BY <1>2 DEF ReqOK, Op
<1>. QED
  BY <1>1, <1>3, <1>4 DEF Typed, ReqTyped

LEMMA WaitsType ==
    ASSUME NEW q \in Requests, NEW step, Typed, Waits(q, step)
    PROVE  q \in DOMAIN ask /\ ReqOK(ask, q, req[q]) /\ req[q].at = step /\ WellAsked(ask[q])
  BY DEF Waits, Typed, ReqTyped, AskTyped

LEMMA AcceptTables ==
    ASSUME NEW q \in Requests, Typed, Accept(q)
    PROVE  Tables'
<1>1. PICK step \in {"insert", "refused"} : step = IF Wanted(q) THEN "insert" ELSE "refused"
  OBVIOUS
<1>2. /\ UNCHANGED <<errors, sums, files, feed, sources, tabsOn, batches, records, reports, events, ask, may, fresh>>
      /\ Move(q, step) /\ q \in DOMAIN ask /\ Op(q) \in Makers
  BY <1>1 DEF Accept, WorkerSide, Waits
<1>3. step = "insert" => (Op(q) \in {"tick", "push"} => ask[q].source \in Sheets)
  BY <1>1 DEF Wanted
<1>4. ReqTyped'
  BY <1>2, <1>3, ReqMoved DEF ReqStep
<1>. QED
  BY <1>2, <1>4, Frame DEF Tables

LEMMA InsertRowTables ==
    ASSUME NEW q \in Requests, Typed, InsertRow(q)
    PROVE  Tables'
<1>1. /\ UNCHANGED <<errors, sums, files, feed, sources, tabsOn, records, events, ask, may, fresh>>
      /\ Move(q, "enqueue") /\ Waits(q, "insert")
  BY DEF InsertRow, WorkerSide
<1>2. /\ q \in DOMAIN ask /\ Op(q) \in Makers /\ (Op(q) \in {"tick", "push"} => ask[q].source \in Sheets)
  BY <1>1, WaitsType DEF ReqOK, Op
<1>3. ReqTyped'
  BY <1>1, <1>2, ReqMoved DEF ReqStep
<1>4. CASE reports' = [reports EXCEPT ![q].status = "pending"] /\ UNCHANGED batches
  <2>1. ReportsTyped'
    BY <1>1, <1>4 DEF Typed, ReportsTyped, ReportRow, ReportStatus
  <2>. QED
    BY <1>1, <1>3, <1>4, <2>1, Frame DEF Tables
<1>5. CASE batches' = [batches EXCEPT ![q].status = "pending"] /\ UNCHANGED reports
  <2>1. BatchesTyped'
    BY <1>1, <1>5, BatchWritten DEF Typed, BatchesTyped, SyncStatus
  <2>. QED
    BY <1>1, <1>3, <1>5, <2>1, Frame DEF Tables
<1>. QED
  BY <1>4, <1>5 DEF InsertRow

LEMMA JobTables ==
    ASSUME NEW q \in Requests, Typed, Enqueue(q) \/ InsertEvent(q) \/ EnqueueEvent(q)
    PROVE  Tables'
<1>1. /\ UNCHANGED <<errors, sums, files, feed, sources, tabsOn, batches, records, reports, ask, may, fresh>>
      /\ q \in DOMAIN ask
  BY DEF Enqueue, InsertEvent, EnqueueEvent, WorkerSide, Waits
<1>2. CASE Enqueue(q)
  <2>1. /\ UNCHANGED events
        /\ (Op(q) \in {"sync", "report"} /\ Move(q, "event")) \/ Move(q, "ok")
    BY <1>2 DEF Enqueue
  <2>2. ReqTyped'
    BY <1>1, <2>1, ReqMoved DEF ReqStep
  <2>. QED
    BY <1>1, <2>1, <2>2, Frame DEF Tables
<1>3. CASE InsertEvent(q)
  <2>1. events' = [events EXCEPT ![q] = "pending"] /\ Move(q, "eventJob") /\ Waits(q, "event")
    BY <1>3 DEF InsertEvent
  <2>2. Op(q) \in {"sync", "report"}
    BY <2>1, WaitsType DEF ReqOK, Op
  <2>3. ReqTyped'
    BY <1>1, <2>1, <2>2, ReqMoved DEF ReqStep
  <2>4. ReportsTyped'
    BY <1>1, <2>1 DEF Typed, ReportsTyped
  <2>. QED
    BY <1>1, <2>3, <2>4, Frame DEF Tables
<1>4. CASE EnqueueEvent(q)
  <2>1. UNCHANGED events /\ Move(q, "ok")
    BY <1>4 DEF EnqueueEvent
  <2>2. ReqTyped'
    BY <1>1, <2>1, ReqMoved DEF ReqStep
  <2>. QED
    BY <1>1, <2>1, <2>2, Frame DEF Tables
<1>. QED
  BY <1>2, <1>3, <1>4

LEMMA SourceRequestTables ==
    ASSUME NEW q \in Requests, Typed, FindSource(q) \/ WriteSource(q)
    PROVE  Tables'
<1>1. /\ UNCHANGED <<errors, sums, files, feed, tabsOn, batches, records, reports, events, ask, may, fresh>>
      /\ q \in DOMAIN ask
  BY DEF FindSource, WriteSource, WorkerSide, Waits
<1>2. CASE FindSource(q)
  <2>. DEFINE r == [at |-> "write", row |-> sources[ask[q].source]]
  <2>1. UNCHANGED sources /\ req' = [req EXCEPT ![q] = r] /\ Op(q) \in {"update", "disable"}
    BY <1>2 DEF FindSource
  <2>2. sources[ask[q].source] \in SourceRow
    BY <1>1 DEF Typed, AskTyped, WellAsked, SourcesTyped
  <2>3. r \in ReqType /\ r.at = "write" /\ "row" \in DOMAIN r
    BY <2>2 DEF ReqType, ReqStep
  <2>. HIDE DEF r
  <2>4. ReqOK(ask, q, r)
    BY <1>1, <2>1, <2>3 DEF ReqOK, Op
  <2>5. ReqTyped'
    BY <1>1, <2>1, <2>4 DEF Typed, ReqTyped
  <2>. QED
    BY <1>1, <2>1, <2>5, Frame DEF Tables
<1>3. CASE WriteSource(q)
  <2>1. /\ sources' = [sources EXCEPT ![ask[q].source] =
                         [req[q].row EXCEPT !.on = IF Op(q) = "disable" THEN FALSE ELSE @]]
        /\ Move(q, "ok") /\ Waits(q, "write")
    BY <1>3 DEF WriteSource
  <2>2. req[q].row \in SourceRow
    <3>1. req[q] \in ReqType /\ "row" \in DOMAIN req[q]
      BY <2>1, WaitsType DEF ReqOK
    <3>. QED
      BY <3>1 DEF ReqType
  <2>3. [req[q].row EXCEPT !.on = IF Op(q) = "disable" THEN FALSE ELSE @] \in SourceRow
    BY <2>2 DEF SourceRow
  <2>4. SourcesTyped'
    BY <1>1, <2>1, <2>3 DEF Typed, SourcesTyped
  <2>5. ReqTyped'
    BY <1>1, <2>1, ReqMoved DEF ReqStep
  <2>. QED
    BY <1>1, <2>4, <2>5, Frame DEF Tables
<1>. QED
  BY <1>2, <1>3

LEMMA DisturbTables ==
    ASSUME NEW q \in Requests, Typed, SetTab(q) \/ Discover(q) \/ DeleteInvestment(q)
    PROVE  Tables'
<1>1. /\ UNCHANGED <<errors, sums, files, feed, sources, batches, reports, events, ask, may>>
      /\ q \in DOMAIN ask
  BY DEF SetTab, Discover, DeleteInvestment, WorkerSide, Waits
<1>2. CASE SetTab(q)
  <2>1. /\ Op(q) \in {"ignore", "listen"} /\ Move(q, "ok") /\ UNCHANGED records
        /\ tabsOn' \subseteq tabsOn \cup {ask[q].tab}
        /\ fresh' \subseteq fresh
    BY <1>2 DEF SetTab, Disturb
  <2>2. ask[q].tab \in Tabs
    BY <1>1, <2>1 DEF Typed, AskTyped, WellAsked, Op
  <2>3. SourcesTyped'
    BY <1>1, <2>1, <2>2 DEF Typed, SourcesTyped
  <2>4. ReqTyped'
    BY <1>1, <2>1, ReqMoved DEF ReqStep
  <2>. QED
    BY <1>1, <2>1, <2>3, <2>4, Frame DEF Tables
<1>3. CASE Discover(q)
  <2>. DEFINE tabs == {t \in Tabs : SourceOf[t] = ask[q].source}
              left == IF req[q].at = "waiting" THEN tabs ELSE req[q].tabs
  <2>1. /\ UNCHANGED records /\ fresh' \subseteq fresh /\ req[q].at \in {"waiting", "tabs"}
    BY <1>3 DEF Discover, Disturb
  <2>2. PICK t \in left : /\ tabsOn' = tabsOn \cup {t}
                          /\ req' = [req EXCEPT ![q] = [at |-> IF left = {t} THEN "ok" ELSE "tabs",
                                                        tabs |-> left \ {t}]]
    BY <1>3 DEF Discover
  <2>3. left \in SUBSET Tabs /\ \A u \in left : SourceOf[u] = ask[q].source
    <3>1. req[q].at = "tabs" => /\ req[q] \in ReqType /\ "tabs" \in DOMAIN req[q]
                                /\ \A u \in req[q].tabs : SourceOf[u] = ask[q].source
      BY DEF Typed, ReqTyped, ReqOK
    <3>2. req[q].at = "tabs" => req[q].tabs \in SUBSET Tabs
      BY <3>1 DEF ReqType
    <3>. QED
      BY <2>1, <3>1, <3>2
  <2>. HIDE DEF left
  <2>4. PICK r : r = [at |-> IF left = {t} THEN "ok" ELSE "tabs", tabs |-> left \ {t}]
    OBVIOUS
  <2>5. r \in ReqType /\ r.at \in {"ok", "tabs"} /\ "tabs" \in DOMAIN r
        /\ \A u \in r.tabs : SourceOf[u] = ask[q].source
    BY <2>3, <2>4 DEF ReqType, ReqStep
  <2>6. ReqOK(ask, q, r)
    BY <1>1, <2>5 DEF ReqOK
  <2>7. ReqTyped'
    BY <1>1, <2>2, <2>4, <2>6 DEF Typed, ReqTyped
  <2>8. SourcesTyped'
    BY <1>1, <2>1, <2>2, <2>3 DEF Typed, SourcesTyped
  <2>. QED
    BY <1>1, <2>1, <2>7, <2>8, Frame DEF Tables
<1>4. CASE DeleteInvestment(q)
  <2>1. Move(q, "ok") /\ UNCHANGED tabsOn /\ fresh' \subseteq fresh /\ records' \subseteq records
    BY <1>4 DEF DeleteInvestment, Disturb
  <2>2. SourcesTyped' /\ RecordsTyped'
    BY <1>1, <2>1 DEF Typed, SourcesTyped, RecordsTyped
  <2>3. ReqTyped'
    BY <1>1, <2>1, ReqMoved DEF ReqStep
  <2>. QED
    BY <1>1, <2>2, <2>3, Frame DEF Tables
<1>. QED
  BY <1>2, <1>3, <1>4

(* A row of a tab is changed or taken out. *)
LEMMA EditTables ==
    ASSUME NEW t \in Tabs, Typed, Edit(t)
    PROVE  Tables'
<1>1. /\ UNCHANGED <<errors, sums, files, sources, tabsOn, batches, records, reports, events, ask, req>>
      /\ fresh' \subseteq fresh /\ may.edits > 0 /\ may' = [may EXCEPT !.edits = @ - 1]
  BY DEF Edit, WorkerSide, Disturb
<1>2. MayTyped'
  BY <1>1 DEF Typed, MayTyped
<1>3. SourcesTyped'
  BY <1>1 DEF Typed, SourcesTyped
<1>4. PICK i \in DOMAIN feed[t] :
        \/ \E x \in Texts : feed' = [feed EXCEPT ![t][i].text = x]
        \/ feed' = [feed EXCEPT ![t] = SubSeq(@, 1, i - 1) \o SubSeq(@, i + 1, Len(@))]
  BY DEF Edit
<1>5. PICK rows \in Seq(Row) : rows = feed[t] /\ Len(rows) <= MaxLines
  BY DEF Typed, FeedTyped, Origins
<1>6. /\ i \in 1 .. Len(rows) /\ Len(rows) \in Nat
      /\ \A j \in 1 .. Len(rows) : rows[j] \in Row
  BY <1>4, <1>5, LenProperties, ElementOfSeq
<1>7. ASSUME NEW new \in Seq(Row), Len(new) <= MaxLines, feed' = [feed EXCEPT ![t] = new]
      PROVE  FeedTyped'
  BY <1>7 DEF Typed, FeedTyped
<1>8. ASSUME \E x \in Texts : feed' = [feed EXCEPT ![t][i].text = x]
      PROVE  FeedTyped'
  <2>1. PICK x \in Texts : feed' = [feed EXCEPT ![t][i].text = x]
    BY <1>8
  <2>2. PICK row \in Row : row = [rows[i] EXCEPT !.text = x]
    BY <1>6 DEF Row
  <2>3. feed' = [feed EXCEPT ![t] = [rows EXCEPT ![i] = row]]
    BY <1>5, <2>1, <2>2
  <2>4. [rows EXCEPT ![i] = row] \in Seq(Row) /\ Len([rows EXCEPT ![i] = row]) = Len(rows)
    BY <1>6, ExceptSeq
  <2>. QED
    BY <1>5, <1>7, <2>3, <2>4
<1>9. ASSUME feed' = [feed EXCEPT ![t] = SubSeq(@, 1, i - 1) \o SubSeq(@, i + 1, Len(@))]
      PROVE  FeedTyped'
  <2>1. /\ SubSeq(rows, 1, i - 1) \in Seq(Row) /\ Len(SubSeq(rows, 1, i - 1)) = i - 1
    BY <1>6, SubSeqProperties
  <2>2. /\ SubSeq(rows, i + 1, Len(rows)) \in Seq(Row)
        /\ Len(SubSeq(rows, i + 1, Len(rows))) = Len(rows) - i
    BY <1>6, SubSeqProperties
  <2>3. PICK new : new = SubSeq(rows, 1, i - 1) \o SubSeq(rows, i + 1, Len(rows))
    OBVIOUS
  <2>4. new \in Seq(Row) /\ Len(new) = (i - 1) + (Len(rows) - i)
    BY <2>1, <2>2, <2>3, ConcatProperties
  <2>5. Len(new) <= MaxLines
    BY <1>5, <1>6, <2>4, AllowanceFacts
  <2>6. feed' = [feed EXCEPT ![t] = new]
    BY <1>5, <1>9, <2>3
  <2>. QED
    BY <1>7, <2>4, <2>5, <2>6
<1>10. FeedTyped'
  BY <1>4, <1>8, <1>9
<1>. QED
  BY <1>1, <1>2, <1>3, <1>10, Frame DEF Tables

LEMMA CrashApiTables ==
    ASSUME Typed, CrashApi
    PROVE  Tables'
<1>1. /\ UNCHANGED <<errors, sums, files, feed, sources, tabsOn, batches, records, reports, events, ask, fresh>>
      /\ may.crashes > 0 /\ may' = [may EXCEPT !.crashes = @ - 1]
  BY DEF CrashApi, WorkerSide
<1>2. MayTyped'
  BY <1>1 DEF Typed, MayTyped
<1>3. PICK lost \in SUBSET Underway :
        req' = [q \in Requests |-> IF q \in lost THEN [at |-> "lost"] ELSE req[q]]
  BY DEF CrashApi
<1>4. \A q \in Requests : ReqOK(ask, q, [at |-> "lost"])
  BY DEF ReqOK, ReqType, ReqStep
<1>5. ReqTyped'
  BY <1>1, <1>3, <1>4 DEF Typed, ReqTyped
<1>. QED
  BY <1>1, <1>2, <1>5, Frame DEF Tables

LEMMA ElapseTables ==
    ASSUME NEW s \in Sources, Typed, Elapse(s)
    PROVE  Tables'
<1>1. /\ UNCHANGED <<errors, sums, files, feed, tabsOn, batches, records, reports, events, ask, req, may, fresh>>
      /\ sources' = [sources EXCEPT ![s].recent = FALSE]
  BY DEF Elapse, WorkerSide
<1>2. SourcesTyped'
  BY <1>1 DEF Typed, SourcesTyped, SourceRow
<1>. QED
  BY <1>1, <1>2, Frame DEF Tables

-----------------------------------------------------------------------------
(* Typed holds at first and is kept, and it implies TypeOK. *)

LEMMA InitTyped == Init => Typed
<1>. SUFFICES ASSUME Init PROVE Typed
  OBVIOUS
<1>1. PICK s \in Scenarios :
         /\ ask = s.ask /\ feed = s.feed /\ may = s.may
         /\ batches = [q \in Requests |-> [status |-> IF q \in s.begun THEN "pending" ELSE "none",
                                           valid |-> 0, invalid |-> 0]]
         /\ queue = [k \in Queues |-> IF k = "sheets" THEN Jobs(s.begun) ELSE <<>>]
         /\ events = [q \in Requests |-> IF q \in s.begun THEN "dispatched" ELSE "none"]
         /\ req = [q \in Requests |-> [at |-> IF q \in s.begun THEN "ok" ELSE "waiting"]]
  BY DEF Init
<1>2. /\ DOMAIN s.ask \subseteq Requests /\ \A q \in DOMAIN s.ask : WellAsked(s.ask[q])
      /\ IsFiniteSet(s.begun) /\ s.begun \subseteq DOMAIN s.ask
      /\ \A q \in s.begun : s.ask[q].op = "sync" /\ s.ask[q].source \in Sheets
      /\ s.feed \in [Origins -> Seq(Row)] /\ \A o \in Origins : Len(s.feed[o]) <= MaxLines
      /\ s.may \in [edits : Nat, crashes : Nat, faults : Nat, failed : {FALSE}]
  BY ScenarioAssumption
<1>3. AskTyped /\ FeedTyped
  BY <1>1, <1>2 DEF AskTyped, FeedTyped
<1>4. MayTyped
  BY <1>1, <1>2 DEF MayTyped
<1>5. SourcesTyped
  BY DEF Init, SourcesTyped, SourceRow
<1>6. BatchesTyped
  <2>1. batches \in [Requests -> BatchRow] /\ errors \in [Requests -> Nat]
    BY <1>1 DEF Init, BatchRow, SyncStatus
  <2>2. \A q \in Requests : batches[q].valid = 0 /\ batches[q].invalid = 0
    BY <1>1
  <2>3. \A m, n \in Nat : 0 + 0 <= m * (1 + n)
    <3>1. \A m, n \in Nat : m * n \in Nat /\ m * (1 + n) = m + m * n
      OBVIOUS
    <3>. QED
      BY <3>1
  <2>. QED
    BY <2>1, <2>2, <2>3, AllowanceFacts DEF BatchesTyped
<1>7. RecordsTyped /\ SumsTyped
  BY DEF Init, RecordsTyped, SumsTyped
<1>8. ReportsTyped
  BY <1>1 DEF Init, ReportsTyped, ReportRow, ReportStatus
<1>9. QueueTyped
  <2>. DEFINE J == {Job(q, "admin") : q \in s.begun}
  <2>1. IsFiniteSet(J)
    <3>. DEFINE f == [q \in s.begun |-> Job(q, "admin")]
    <3>1. f \in Surjection(s.begun, J)
      BY DEF Surjection
    <3>. QED
      BY <1>2, <3>1, FS_Surjection
  <2>2. /\ Jobs(s.begun) = SetToSeq(J) /\ Cardinality(J) \in Nat
        /\ SetToSeq(J) \in [1 .. Cardinality(J) -> J]
    BY <2>1, Listed DEF Jobs
  <2>3. ASSUME NEW j \in J
        PROVE  j \in JobType /\ Fits(ask, "sheets", j)
    <3>1. PICK q \in s.begun : j = Job(q, "admin")
      OBVIOUS
    <3>2. q \in DOMAIN ask /\ q \in Requests /\ ask[q].op = "sync" /\ ask[q].source \in Sheets
      BY <1>1, <1>2
    <3>3. j \in JobType /\ j.of = q /\ j.tries = 0 /\ j.stalls = 0
      BY <3>1, <3>2 DEF Job, JobType
    <3>4. 0 < Tries("sheets") /\ 0 <= MaxStalledCount
      BY SyncAssumption DEF Tries, MaxStalledCount
    <3>. QED
      BY <3>2, <3>3, <3>4 DEF Fits, Makers
  <2>. HIDE DEF J
  <2>4. PICK n \in Nat : n = Cardinality(J)
    BY <2>2
  <2>5. SetToSeq(J) \in [1 .. n -> JobType] /\ \A i \in 1 .. n : Fits(ask, "sheets", SetToSeq(J)[i])
    BY <2>2, <2>3, <2>4
  <2>6. SetToSeq(J) \in Seq(JobType) /\ DOMAIN SetToSeq(J) = 1 .. n
    BY <2>5
  <2>7. ASSUME NEW k \in Queues
        PROVE  queue[k] \in Seq(JobType) /\ \A i \in DOMAIN queue[k] : Fits(ask, k, queue[k][i])
    <3>1. CASE k = "sheets"
      BY <1>1, <2>2, <2>5, <2>6, <3>1
    <3>2. CASE k # "sheets"
      <4>1. queue[k] = <<>>
        BY <1>1, <3>2
      <4>2. <<>> \in Seq(JobType) /\ DOMAIN <<>> = {}
        BY EmptySeq, LenProperties
      <4>. QED
        BY <4>1, <4>2
    <3>. QED
      BY <3>1, <3>2
  <2>8. queue = [k \in Queues |-> queue[k]]
    BY <1>1
  <2>. QED
    BY <2>7, <2>8 DEF QueueTyped
<1>10. RunTyped
  BY DEF Init, RunTyped, RunOK
<1>11. ReqTyped
  <2>1. \A q \in Requests : ReqOK(ask, q, [at |-> "ok"]) /\ ReqOK(ask, q, [at |-> "waiting"])
    BY DEF ReqOK, ReqType, ReqStep
  <2>2. \A q \in Requests : req[q] = [at |-> "ok"] \/ req[q] = [at |-> "waiting"]
    BY <1>1
  <2>3. req = [q \in Requests |-> req[q]]
    BY <1>1
  <2>. QED
    BY <2>1, <2>2, <2>3 DEF ReqTyped
<1>. QED
  BY <1>3, <1>4, <1>5, <1>6, <1>7, <1>8, <1>9, <1>10, <1>11 DEF Typed

LEMMA TypedParts == Typed' <=> Tables' /\ RunTyped' /\ QueueTyped'
  BY DEF Typed, Tables

(* Requests that leave the runs and the queues alone. *)
LEMMA QuietRun == ASSUME Typed, UNCHANGED <<run, queue, ask>> PROVE RunTyped' /\ QueueTyped'
  BY DEF Typed, RunTyped, QueueTyped

LEMMA WorkerTyped ==
    ASSUME NEW w \in Workers, Typed, Work(w) \/ Fault(w) \/ CrashWorker(w)
    PROVE  Typed'
<1>1. CASE SheetsStep(w)
  BY <1>1, SheetsTables, ShStartRun, ShTabsRun, ShFetchRun, ShCompareRun, ShErrorRun, ShLookupRun,
     ShUpdateRun, ShInsertRun, ShStoreRun, ShTabDoneRun, ShFinishRun, ShStampRun, TypedParts
     DEF SheetsStep
<1>2. CASE SourceStep(w)
  BY <1>2, SourceTables, SyStartRun, SyErrorRun, SyInsertRun, SyFinishRun, TypedParts DEF SourceStep
<1>3. CASE ExportStep(w)
  BY <1>3, ExportTables, ExportRun, TypedParts
<1>4. CASE Take(w)
  BY <1>4, PodTables, TakeTyped, TypedParts DEF Typed
<1>5. CASE Ack(w)
  BY <1>5, PodTables, AckRun, TypedParts
<1>6. CASE Fault(w)
  BY <1>6, PodTables, FaultRun, TypedParts
<1>7. CASE CrashWorker(w)
  BY <1>7, PodTables, CrashTyped, TypedParts DEF Typed
<1>. QED
  BY <1>1, <1>2, <1>3, <1>4, <1>5, <1>6, <1>7 DEF Work

LEMMA RequestTyped ==
    ASSUME NEW q \in Requests, Typed, Ask(q) \/ Proceed(q) \/ Discover(q)
    PROVE  Typed'
<1>1. CASE Accept(q)
  BY <1>1, AcceptTables, QuietRun, TypedParts DEF Accept
<1>2. CASE FindSource(q) \/ WriteSource(q)
  BY <1>2, SourceRequestTables, QuietRun, TypedParts DEF FindSource, WriteSource
<1>3. CASE SetTab(q) \/ Discover(q) \/ DeleteInvestment(q)
  <2>1. UNCHANGED <<ask, queue>> /\ \E s \in {{SourceOf[ask[q].tab]}, {ask[q].source}, Sources} : Disturb(s)
    BY <1>3 DEF SetTab, Discover, DeleteInvestment
  <2>. QED
    BY <1>3, <2>1, DisturbTables, DisturbRun, TypedParts
<1>4. CASE InsertRow(q)
  BY <1>4, InsertRowTables, QuietRun, TypedParts DEF InsertRow
<1>5. CASE Enqueue(q)
  BY <1>5, JobTables, EnqueueRun, TypedParts
<1>6. CASE InsertEvent(q)
  BY <1>6, JobTables, QuietRun, TypedParts DEF InsertEvent
<1>7. CASE EnqueueEvent(q)
  BY <1>7, JobTables, EnqueueEventRun, TypedParts
<1>. QED
  BY <1>1, <1>2, <1>3, <1>4, <1>5, <1>6, <1>7 DEF Ask, Proceed

LEMMA NextTyped == Typed /\ [Next]_vars => Typed'
<1>. SUFFICES ASSUME Typed, [Next]_vars PROVE Typed'
  OBVIOUS
<1>1. ASSUME NEW t \in Tabs, Edit(t) PROVE Typed'
  <2>1. UNCHANGED <<ask, queue>> /\ Disturb({SourceOf[t]})
    BY <1>1 DEF Edit
  <2>. QED
    BY <1>1, <2>1, EditTables, DisturbRun, TypedParts
<1>2. ASSUME NEW s \in Sources, Elapse(s) PROVE Typed'
  BY <1>2, ElapseTables, QuietRun, TypedParts DEF Elapse
<1>3. CASE CrashApi
  BY <1>3, CrashApiTables, QuietRun, TypedParts DEF CrashApi
<1>4. CASE UNCHANGED vars
  BY <1>4, Frame, QuietRun, TypedParts DEF vars, Tables
<1>. QED
  BY <1>1, <1>2, <1>3, <1>4, WorkerTyped, RequestTyped DEF Next

LEMMA TypedIsTypeOK == Typed => TypeOK
<1>. SUFFICES ASSUME Typed PROVE TypeOK
  OBVIOUS
<1>1. ASSUME NEW o \in Origins
      PROVE  Len(feed[o]) <= MaxLines /\ \A i \in DOMAIN feed[o] : feed[o][i] \in Row
  <2>1. feed[o] \in Seq(Row) /\ Len(feed[o]) <= MaxLines
    BY DEF Typed, FeedTyped
  <2>. QED
    BY <2>1, LenProperties, ElementOfSeq
<1>2. sources \in [Sources -> [on : BOOLEAN, recent : BOOLEAN]] /\ tabsOn \subseteq Tabs /\ fresh \subseteq Sheets
  BY DEF Typed, SourcesTyped, SourceRow
<1>3. ASSUME NEW q \in Requests
      PROVE  /\ batches[q].status \in SyncStatus /\ reports[q].status \in ReportStatus
             /\ batches[q].valid + batches[q].invalid <= MaxLines * (1 + Cardinality(Tabs))
             /\ events[q] \in {"none", "pending", "dispatched"}
  BY DEF Typed, BatchesTyped, BatchRow, ReportsTyped, ReportRow
<1>4. ASSUME NEW k \in Queues, NEW i \in DOMAIN queue[k]
      PROVE  queue[k][i].tries < Tries(k) /\ queue[k][i].stalls <= MaxStalledCount
  BY DEF Typed, QueueTyped, Fits
<1>. QED
  BY <1>1, <1>2, <1>3, <1>4 DEF TypeOK

(* Typed is an invariant. *)
THEOREM SyncIsTyped == Spec => []Typed
<1>1. Init => Typed
  BY InitTyped
<1>2. Typed /\ [Next]_vars => Typed'
  BY NextTyped
<1>. QED
  BY <1>1, <1>2, PTL DEF Spec

(* Whatever is asked, edited, crashes or fails, on however many workers,   *)
(* no column holds a value that it does not admit, no batch reports more   *)
(* rows than its tabs may have, and no job is tried or delivered more      *)
(* often than its queue allows.                                            *)
THEOREM SyncTypes == Spec => []TypeOK
  BY SyncIsTyped, TypedIsTypeOK, PTL
=============================================================================

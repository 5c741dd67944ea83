------------------------------ MODULE SyncStore ------------------------------
(***************************************************************************)
(* Tables, BullMQ queues and workers behind the integrations, the reports  *)
(* and the outbox.  A worker runs one job of its queue at a time, one      *)
(* statement after the other and without a transaction.                    *)
(***************************************************************************)
EXTENDS Naturals, Sequences, FiniteSets, SequencesExt

CONSTANTS
    Sources, Sheets,    \* integration sources; those of type google_sheets
    Tabs, SourceOf,     \* tabs of the sheets and their source
    Refs,               \* investment references
    Updatable, Lasting, \* what else a row says: in the columns that an UPDATE of the
                        \* record writes (name, amount, tenor, maturity date), and in
                        \* those that only its INSERT does (customer, type, fund,
                        \* mobilisation date, category, currency, channel, manager, cost)
    Workers, QueueOf,   \* workers of all pods and the queue each serves
    Requests,           \* requests; each also names the batch or report it makes
    Scenarios,          \* starts: what is asked and was answered before (begun),
                        \* the rows of tabs and other sources, and how many
                        \* edits, crashes and faults there may be
    MaxLines,           \* bound on the rows of a tab
    MaxTries            \* attempts of a job of the sheets' queue

Origins == Tabs \cup (Sources \ Sheets)
NoRef == "none"
Texts == [updatable : Updatable, lasting : Lasting]
Row == [ref : Refs \cup {NoRef}, text : Texts, kind : {"full", "short", "blank"}]
Queues == {"sheets", "sync", "report", "outbox"}
SyncStatus == {"none", "pending", "running", "success", "partial_success"}
ReportStatus == {"none", "pending", "processing", "completed"}

ASSUME SyncAssumption ==
    /\ Sheets \subseteq Sources /\ SourceOf \in [Tabs -> Sheets] /\ IsFiniteSet(Tabs)
    /\ Tabs \cap Sources = {} /\ Refs \cap (Requests \cup {NoRef}) = {}
    /\ QueueOf \in [Workers -> Queues]
    /\ MaxLines \in Nat /\ MaxTries \in Nat \ {0}

Ops == {"sync", "tick", "push", "report", "update", "disable", "discover", "ignore", "listen", "remove"}
WellAsked(a) == a.op \in Ops /\ a.source \in Sources /\ (a.op \in {"ignore", "listen"} => a.tab \in Tabs)

ASSUME ScenarioAssumption == \A s \in Scenarios :
    /\ DOMAIN s.ask \subseteq Requests /\ \A q \in DOMAIN s.ask : WellAsked(s.ask[q])
    /\ IsFiniteSet(s.begun) /\ s.begun \subseteq DOMAIN s.ask
    /\ \A q \in s.begun : s.ask[q].op = "sync" /\ s.ask[q].source \in Sheets
    /\ s.feed \in [Origins -> Seq(Row)] /\ \A o \in Origins : Len(s.feed[o]) <= MaxLines
    /\ s.may \in [edits : Nat, crashes : Nat, faults : Nat, failed : {FALSE}]

VARIABLES
    feed,       \* rows of the spreadsheets and of connection_config.records
    sources,    \* integration_sources: switched on, synchronised recently
    tabsOn,     \* google_sheet_tabs with status active
    batches,    \* sync_batches, by request
    errors,     \* how many sync_batch_errors a batch has
    records,    \* investment_records
    sums,       \* google_sheet_row_checksums, by tab and line
    reports,    \* report_exports, by request
    files,      \* the written report files
    events,     \* outbox_events, by request
    queue,      \* the waiting jobs of each queue
    run,        \* what each worker is doing
    ask, req,   \* what is asked, and how far each request is
    may,        \* edits, crashes and faults that may still happen; failed: one did
    fresh       \* history: sheets mirrored by a sync that nothing disturbed

vars == <<feed, sources, tabsOn, batches, errors, records, sums, reports, files,
          events, queue, run, ask, req, may, fresh>>

-----------------------------------------------------------------------------
(* Jobs and workers *)

Job(q, actor) == [of |-> q, actor |-> actor, tries |-> 0, stalls |-> 0]
Idle == [at |-> "idle", calm |-> FALSE]
At(w, kind, step) == QueueOf[w] = kind /\ run[w].at = step
Of(w) == run[w].job.of
Source(w) == ask[Of(w)].source

Add(k, job) == queue' = [queue EXCEPT ![k] = Append(@, job)]
Goto(w, r) == run' = [run EXCEPT ![w] = r]
Step(w, step) == Goto(w, [run[w] EXCEPT !.at = step])

(* Runs of other workers on the sheet of source s, which reads or writes   *)
(* of w disturb.                                                           *)
OthersOn(w, s) == {v \in Workers \ {w} : /\ QueueOf[v] = "sheets" /\ run[v].at # "idle"
                                         /\ Source(v) = s}

(* What changes under a sync of a source in s makes it no mirror.          *)
Disturbed(s) == [w \in Workers |->
                   IF QueueOf[w] = "sheets" /\ run[w].at # "idle" /\ Source(w) \in s
                   THEN [run[w] EXCEPT !.calm = FALSE] ELSE run[w]]

Take(w) ==
    LET k == QueueOf[w]
    IN  /\ run[w].at = "idle" /\ queue[k] # <<>>
        /\ Goto(w, [at |-> "start", job |-> Head(queue[k]), calm |-> TRUE])
        /\ queue' = [queue EXCEPT ![k] = Tail(@)]
        /\ UNCHANGED <<feed, sources, tabsOn, batches, errors, records, sums, reports, files,
                       events, ask, req, may, fresh>>

Ack(w) ==
    /\ run[w].at = "ack"
    /\ Goto(w, Idle)
    /\ UNCHANGED <<feed, sources, tabsOn, batches, errors, records, sums, reports, files,
                   events, queue, ask, req, may, fresh>>

(* Mutant: attempts are not counted. *)
RetriedForEver(job) == job

(* The handler throws: a job of the sheets' queue is tried again, a job of *)
(* the other queues is given up.  Nothing is written.                      *)
Tries(k) == IF k = "sheets" THEN MaxTries ELSE 1
Retried(job) == [job EXCEPT !.tries = @ + 1]
Throw(w) ==
    LET k == QueueOf[w]
        job == Retried(run[w].job)
    IN  /\ IF job.tries < Tries(k) THEN Add(k, job) ELSE UNCHANGED queue
        /\ Goto(w, Idle)

(* A statement, the Sheets API or the file service fails.                  *)
Fault(w) ==
    /\ may.faults > 0 /\ run[w].at \notin {"idle", "ack"}
    /\ Throw(w)
    /\ may' = [may EXCEPT !.faults = @ - 1, !.failed = TRUE]
    /\ UNCHANGED <<feed, sources, tabsOn, batches, errors, records, sums, reports, files,
                   events, ask, req, fresh>>

(* Mutant: a stalled job is given up at once. *)
MaxStalledCountNone == 0

(* The pod of w dies: BullMQ puts the stalled job back, before the others, *)
(* and once only.                                                          *)
MaxStalledCount == 1
CrashWorker(w) ==
    LET job == run[w].job
    IN  /\ may.crashes > 0 /\ run[w].at # "idle"
        /\ IF job.stalls < MaxStalledCount
           THEN queue' = [queue EXCEPT ![QueueOf[w]] = <<[job EXCEPT !.stalls = @ + 1]>> \o @]
           ELSE UNCHANGED queue
        /\ Goto(w, Idle)
        /\ may' = [may EXCEPT !.crashes = @ - 1]
        /\ UNCHANGED <<feed, sources, tabsOn, batches, errors, records, sums, reports, files,
                       events, ask, req, fresh>>

-----------------------------------------------------------------------------
(* investment_records.  The hash of a sheet's row is the checksum of all   *)
(* its cells; the actor of scheduled syncs, 'system', is not a user.       *)
IsUser(actor) == actor # "system"

(* Mutant: no UNIQUE keys on investment_records. *)
InsertableTwice(r, actor) == IsUser(actor)

Insertable(r, actor) ==
    /\ IsUser(actor)
    /\ \A s \in records : s.hash # r.hash /\ (r.ref = NoRef \/ s.ref # r.ref)

(* Syncs of sheets that users asked for before: their jobs wait.           *)
Jobs(begun) == SetToSeq({Job(q, "admin") : q \in begun})

Init ==
    /\ tabsOn = Tabs
    /\ \E s \in Scenarios :
         /\ ask = s.ask /\ feed = s.feed /\ may = s.may
         /\ batches = [q \in Requests |-> [status |-> IF q \in s.begun THEN "pending" ELSE "none",
                                           valid |-> 0, invalid |-> 0]]
         /\ queue = [k \in Queues |-> IF k = "sheets" THEN Jobs(s.begun) ELSE <<>>]
         /\ events = [q \in Requests |-> IF q \in s.begun THEN "dispatched" ELSE "none"]
         /\ req = [q \in Requests |-> [at |-> IF q \in s.begun THEN "ok" ELSE "waiting"]]
    /\ sources = [s \in Sources |-> [on |-> TRUE, recent |-> FALSE]]
    /\ errors = [q \in Requests |-> 0] /\ records = {}
    /\ sums = [t \in Tabs |-> [i \in 1 .. MaxLines |-> {}]]
    /\ reports = [q \in Requests |-> [status |-> "none", size |-> {}]]
    /\ files = [q \in Requests |-> {}]
    /\ run = [w \in Workers |-> Idle]
    /\ fresh = {}
=============================================================================

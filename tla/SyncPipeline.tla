---------------------------- MODULE SyncPipeline ----------------------------
(***************************************************************************)
(* Integrations, reports and the outbox: requests, schedulers, workers on  *)
(* several pods and the tables they share.                                 *)
(***************************************************************************)
EXTENDS SheetsSync, SourceSync, Exports, SyncRequests

Work(w) == Take(w) \/ SheetsStep(w) \/ SourceStep(w) \/ ExportStep(w) \/ Ack(w)

Next ==
    \/ \E w \in Workers : Work(w) \/ Fault(w) \/ CrashWorker(w)
    \/ \E q \in Requests : Ask(q) \/ Proceed(q) \/ Discover(q)
    \/ \E t \in Tabs : Edit(t)
    \/ \E s \in Sources : Elapse(s)
    \/ CrashApi

(* Workers poll their queue while they run, and a service method goes on   *)
(* once it has begun.  Nobody has to ask, edit or restart anything.        *)
Fairness == /\ WF_vars(\E w \in Workers : Work(w))
            /\ WF_vars(\E q \in Requests : Proceed(q) \/ (req[q].at = "tabs" /\ Discover(q)))

Spec == Init /\ [][Next]_vars /\ Fairness

-----------------------------------------------------------------------------
(* Tables, queues and workers hold what their columns and jobs allow.      *)
TypeOK ==
    /\ \A o \in Origins : Len(feed[o]) <= MaxLines /\ \A i \in DOMAIN feed[o] : feed[o][i] \in Row
    /\ sources \in [Sources -> [on : BOOLEAN, recent : BOOLEAN]]
    /\ tabsOn \subseteq Tabs /\ fresh \subseteq Sheets
    /\ \A q \in Requests :
         /\ batches[q].status \in SyncStatus /\ reports[q].status \in ReportStatus
         /\ batches[q].valid + batches[q].invalid <= MaxLines * (1 + Cardinality(Tabs))
         /\ events[q] \in {"none", "pending", "dispatched"}
    /\ \A k \in Queues : \A i \in DOMAIN queue[k] :
         queue[k][i].tries < Tries(k) /\ queue[k][i].stalls <= MaxStalledCount

Rows(t) == {feed[t][i] : i \in DOMAIN feed[t]}
Unambiguous(r) == r = NoRef \/ \A t, u \in Tabs : \A i \in DOMAIN feed[t], j \in DOMAIN feed[u] :
                                 feed[t][i].ref = r /\ feed[u][j].ref = r => t = u /\ i = j

(* After a sync that finished while nothing else touched its sheet or the  *)
(* investments, every complete row of its active tabs has its record, with *)
(* the row's checksum and with what an UPDATE writes as the sheet has it,  *)
(* until the sheet is edited or records are deleted: no earlier crash,     *)
(* half-done sync, retry or stored checksum hides a row.  Of the columns   *)
(* that only an INSERT writes nothing is said: they may be older.          *)
QuietSyncMirrors ==
    \A t \in tabsOn : SourceOf[t] \in fresh =>
        \A row \in Rows(t) :
            row.kind = "full" /\ Unambiguous(row.ref) =>
                \E r \in records : /\ r.ref = row.ref /\ r.hash = HashOf(row)
                                   /\ r.text.updatable = row.text.updatable

(* However often the job of one sync is tried or delivered, a row of the   *)
(* source that was not edited in between is posted once.                   *)
RetryPostsOnce ==
    \A r, s \in records :
        /\ r # s /\ r.id.batch = s.id.batch
        /\ r.id.origin = s.id.origin /\ r.id.line = s.id.line
        => r.hash # s.hash /\ r.id.origin \in Tabs

(* A finished sync that reports invalid rows left a trace of each of them  *)
(* in sync_batch_errors, whatever attempt found them.                      *)
InvalidRowsTraced ==
    \A q \in Requests : batches[q].status = "partial_success" => errors[q] >= batches[q].invalid

(* The size of a completed report is that of its file, although the job    *)
(* may be delivered again after the report was completed and write the     *)
(* file anew from other records.                                           *)
CompletedReportMatchesFile ==
    \A q \in Requests : reports[q].status = "completed" => reports[q].size = files[q]

AtRest == /\ \A k \in Queues : queue[k] = <<>>
          /\ \A w \in Workers : run[w].at = "idle"
          /\ Underway = {}

(* What a user was told has started is done once the system has come to    *)
(* rest, although a process crashed: the event is dispatched and a report  *)
(* is complete, unless a statement failed.                                 *)
AnsweredIsDone ==
    AtRest => \A q \in DOMAIN ask : req[q].at = "ok" /\ Op(q) \in {"sync", "report"} =>
                 \/ may.failed
                 \/ events[q] = "dispatched" /\ (Op(q) = "report" => reports[q].status = "completed")

(* Whatever is asked, edited, crashes or fails: jobs are not tried, or     *)
(* delivered, for ever, and requests that began are over at last.          *)
JobsEnd == <>[]AtRest

(* One sync at a time, no statement that fails, and a reference in each    *)
(* complete row of the sheets.                                             *)
Calm ==
    /\ ~may.failed
    /\ \A t \in Tabs : \A row \in Rows(t) : row.kind = "full" => row.ref # NoRef
    /\ \A w, v \in Workers : QueueOf[w] \in {"sheets", "sync"} /\ QueueOf[v] \in {"sheets", "sync"} =>
         w = v \/ run[w].at = "idle" \/ run[v].at = "idle"

(* While it stays calm, each sync of a sheet that a user was told has      *)
(* started ends, although its job may be delivered again with a part of    *)
(* the rows posted, and rows, tabs and records change under it.            *)
CalmSyncsEnd ==
    []Calm => <>[](\A q \in DOMAIN ask :
        Op(q) = "sync" /\ ask[q].source \in Sheets /\ req[q].at = "ok" =>
            batches[q].status \in {"success", "partial_success"})
(* A sync that has begun ends, when nothing fails and nothing restarts.    *)
SyncsEnd ==
    \A q \in Requests : batches[q].status = "running" ~>
                          batches[q].status \in {"success", "partial_success"}
=============================================================================

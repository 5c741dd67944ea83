------------------------------- MODULE Exports -------------------------------
(***************************************************************************)
(* ReportProcessor.handle and OutboxProcessor.handle.                      *)
(***************************************************************************)
EXTENDS SyncStore

Aside == <<feed, sources, tabsOn, batches, errors, records, sums, queue, ask, req, may, fresh>>

(* Mutant: the status of a sync batch is written to a report. *)
MarkedRunning(report) == [report EXCEPT !.status = "running"]

(* Mutant: a report whose size is known stays completed. *)
MarkedOnce(report) == IF report.status = "completed" THEN report ELSE [report EXCEPT !.status = "processing"]

Marked(report) == [report EXCEPT !.status = "processing"]

RpMark(w) ==
    /\ At(w, "report", "start")
    /\ reports' = [reports EXCEPT ![Of(w)] = Marked(@)]
    /\ Step(w, "select")
    /\ UNCHANGED <<Aside, files, events>>

RpSelect(w) ==
    /\ At(w, "report", "select")
    /\ Goto(w, [at |-> "file", job |-> run[w].job, calm |-> FALSE, picked |-> records])
    /\ UNCHANGED <<Aside, reports, files, events>>

(* The name of the file is the id of the report: a second run overwrites.  *)
RpWrite(w) ==
    /\ At(w, "report", "file")
    /\ files' = [files EXCEPT ![Of(w)] = run[w].picked]
    /\ Step(w, "complete")
    /\ UNCHANGED <<Aside, reports, events>>

(* file_size_bytes stands for what the file held.                          *)
RpComplete(w) ==
    /\ At(w, "report", "complete")
    /\ reports' = [reports EXCEPT ![Of(w)] = [status |-> "completed", size |-> run[w].picked]]
    /\ Step(w, "ack")
    /\ UNCHANGED <<Aside, files, events>>

Dispatch(w) ==
    /\ At(w, "outbox", "start")
    /\ events' = [events EXCEPT ![Of(w)] = "dispatched"]
    /\ Step(w, "ack")
    /\ UNCHANGED <<Aside, reports, files>>

ExportStep(w) == RpMark(w) \/ RpSelect(w) \/ RpWrite(w) \/ RpComplete(w) \/ Dispatch(w)
=============================================================================

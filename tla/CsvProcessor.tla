---------------------------- MODULE CsvProcessor ----------------------------
(***************************************************************************)
(* The CSV worker: CsvProcessingProcessor.handle, run by the one BullMQ    *)
(* worker of each pod on the csv-processing queue (concurrency 1), and the *)
(* "failed" listener that WorkerRuntimeService puts on that worker.        *)
(* A pod's run is at the await named by its csvPc.                         *)
(***************************************************************************)
EXTENDS UploadStore

VARIABLES
    csvPc,      \* where the pod's run is, "idle" between two jobs
    csvJob,     \* the job it runs
    csvRow,     \* parse number and next line of the row to write
    failedEvents    \* <<pod, batch>>: a failed event whose UPDATE is not sent yet

csvVars == <<csvPc, csvJob, csvRow, failedEvents>>

CsvSteps == {"find", "mark", "read", "dropErrors", "dropRows",
             "stage", "complain", "finish", "ack", "fail", "reject"}

GoCsv(p, step) == csvPc' = [csvPc EXCEPT ![p] = step]

(* The run is over: nothing of it is kept. *)
LeaveCsv(p) ==
    /\ GoCsv(p, "idle")
    /\ csvJob' = [csvJob EXCEPT ![p] = NoJob]
    /\ csvRow' = [csvRow EXCEPT ![p] = <<0, 0>>]

CsvBatch(p) == csvJob[p].batch
CsvRowId(p) == <<csvRow[p][1], csvRow[p][2]>>
SetCsvLine(p, l) == csvRow' = [csvRow EXCEPT ![p] = <<csvRow[p][1], l>>]

(* Lines of b from line l on that failed validation, duplicates included.  *)
FailingFrom(b, l) == {k \in DOMAIN File[b] : k >= l /\ File[b][k].failing}
FirstOf(lines) == CHOOSE l \in lines : \A k \in lines : l <= k

(* The worker takes the job at the head of the queue. *)
CsvTake(p) ==
    /\ csvPc[p] = "idle"
    /\ csvQueue # <<>>
    /\ csvJob' = [csvJob EXCEPT ![p] = Head(csvQueue)]
    /\ csvQueue' = Tail(csvQueue)
    /\ GoCsv(p, "find")
    /\ UNCHANGED <<tables, csvStalled, importQueue, importStalled, importJobs,
                   outboxQueue, csvRow, failedEvents>>

(* The job fails: BullMQ emits "failed", and the listener has an UPDATE to *)
(* send.  attempts is 1, so the job is not retried.                        *)
CsvThrow(p) ==
    /\ LeaveCsv(p)
    /\ failedEvents' = failedEvents \cup {<<p, CsvBatch(p)>>}

(* Mutant: the processor takes only batches that read "pending". *)
CsvFindPending(p) ==
    /\ csvPc[p] = "find"
    /\ \/ /\ status[CsvBatch(p)] = "pending"
          /\ GoCsv(p, "mark")
          /\ UNCHANGED <<csvJob, csvRow, failedEvents>>
       \/ /\ status[CsvBatch(p)] # "pending"
          /\ LeaveCsv(p)
          /\ UNCHANGED failedEvents
    /\ UNCHANGED <<tables, queues>>

CsvFind(p) ==
    /\ csvPc[p] = "find"
    /\ \/ /\ Exists(CsvBatch(p))
          /\ GoCsv(p, "mark")
          /\ UNCHANGED <<csvJob, csvRow, failedEvents>>
       \/ /\ ~Exists(CsvBatch(p))
          /\ CsvThrow(p)
    /\ UNCHANGED <<tables, queues>>

CsvMark(p) ==
    /\ csvPc[p] = "mark"
    /\ SetStatus(CsvBatch(p), "processing")
    /\ GoCsv(p, "read")
    /\ UNCHANGED <<parses, staged, validationErrors, records, outside, keys, outbox,
                   queues, csvJob, csvRow, failedEvents>>

(* Mutant: the first line of the file is taken for its header. *)
CsvReadFromTwo(p) ==
    /\ csvPc[p] = "read"
    /\ parses' = [parses EXCEPT ![CsvBatch(p)] = @ + 1]
    /\ csvRow' = [csvRow EXCEPT ![p] = <<parses[CsvBatch(p)] + 1, 2>>]
    /\ GoCsv(p, "dropErrors")
    /\ UNCHANGED <<status, staged, validationErrors, records, outside, keys, outbox,
                   queues, csvJob, failedEvents>>

(* The file is read, parsed and classified in memory, with a fresh id for  *)
(* every row; from here on an error lands in the catch block.              *)
CsvRead(p) ==
    /\ csvPc[p] = "read"
    /\ parses' = [parses EXCEPT ![CsvBatch(p)] = @ + 1]
    /\ csvRow' = [csvRow EXCEPT ![p] = <<parses[CsvBatch(p)] + 1, 1>>]
    /\ GoCsv(p, "dropErrors")
    /\ UNCHANGED <<status, staged, validationErrors, records, outside, keys, outbox,
                   queues, csvJob, failedEvents>>

CsvDropErrors(p) ==
    /\ csvPc[p] = "dropErrors"
    /\ validationErrors' = [validationErrors EXCEPT ![CsvBatch(p)] = {}]
    /\ GoCsv(p, "dropRows")
    /\ UNCHANGED <<status, parses, staged, records, outside, keys, outbox,
                   queues, csvJob, csvRow, failedEvents>>

(* After the last row come the validation errors, then the final UPDATE.   *)
AfterStaging(p) ==
    LET errors == FailingFrom(CsvBatch(p), 1) IN
    IF errors = {}
    THEN GoCsv(p, "finish") /\ UNCHANGED csvRow
    ELSE GoCsv(p, "complain") /\ SetCsvLine(p, FirstOf(errors))

CsvDropRows(p) ==
    LET b == CsvBatch(p) IN
    /\ csvPc[p] = "dropRows"
    /\ \/ /\ staged[b] \cap Referenced(b) = {}
          /\ staged' = [staged EXCEPT ![b] = {}]
          /\ IF File[b] = <<>> THEN AfterStaging(p)
             ELSE GoCsv(p, "stage") /\ UNCHANGED csvRow
       \/ /\ staged[b] \cap Referenced(b) # {}
          /\ GoCsv(p, "fail")
          /\ UNCHANGED <<staged, csvRow>>
    /\ UNCHANGED <<status, parses, validationErrors, records, outside, keys, outbox,
                   queues, csvJob, failedEvents>>

(* INSERT INTO upload_batch_rows: the batch must exist, the line must not  *)
(* be staged already (UNIQUE (batch, row number)), its values must fit.    *)
Stageable(b, row) ==
    /\ Exists(b)
    /\ \A other \in staged[b] : LineOf(other) # LineOf(row)
    /\ File[b][LineOf(row)].stageable

CsvStage(p) ==
    LET b == CsvBatch(p)
        l == csvRow[p][2] IN
    /\ csvPc[p] = "stage"
    /\ \/ /\ Stageable(b, CsvRowId(p))
          /\ staged' = [staged EXCEPT ![b] = @ \cup {CsvRowId(p)}]
          /\ IF l = Len(File[b]) THEN AfterStaging(p)
             ELSE SetCsvLine(p, l + 1) /\ UNCHANGED csvPc
       \/ /\ ~Stageable(b, CsvRowId(p))
          /\ GoCsv(p, "fail")
          /\ UNCHANGED <<staged, csvRow>>
    /\ UNCHANGED <<status, parses, validationErrors, records, outside, keys, outbox,
                   queues, csvJob, failedEvents>>

(* INSERT INTO upload_validation_errors, its row must still be there.      *)
CsvComplain(p) ==
    LET b == CsvBatch(p)
        later == FailingFrom(b, csvRow[p][2] + 1) IN
    /\ csvPc[p] = "complain"
    /\ \/ /\ CsvRowId(p) \in staged[b]
          /\ validationErrors' = [validationErrors EXCEPT ![b] = @ \cup {CsvRowId(p)}]
          /\ IF later = {} THEN GoCsv(p, "finish") /\ UNCHANGED csvRow
             ELSE SetCsvLine(p, FirstOf(later)) /\ UNCHANGED csvPc
       \/ /\ CsvRowId(p) \notin staged[b]
          /\ GoCsv(p, "fail")
          /\ UNCHANGED <<validationErrors, csvRow>>
    /\ UNCHANGED <<status, parses, staged, records, outside, keys, outbox,
                   queues, csvJob, failedEvents>>

CsvFinish(p) ==
    /\ csvPc[p] = "finish"
    /\ SetStatus(CsvBatch(p), "validated")
    /\ GoCsv(p, "ack")
    /\ UNCHANGED <<parses, staged, validationErrors, records, outside, keys, outbox,
                   queues, csvJob, csvRow, failedEvents>>

(* BullMQ moves the job to the completed set. *)
CsvAck(p) ==
    /\ csvPc[p] = "ack"
    /\ LeaveCsv(p)
    /\ UNCHANGED <<tables, queues, failedEvents>>

(* The catch block writes "failed" and rethrows.                           *)
CsvFail(p) ==
    /\ csvPc[p] = "fail"
    /\ SetStatus(CsvBatch(p), "failed")
    /\ GoCsv(p, "reject")
    /\ UNCHANGED <<parses, staged, validationErrors, records, outside, keys, outbox,
                   queues, csvJob, csvRow, failedEvents>>

CsvReject(p) ==
    /\ csvPc[p] = "reject"
    /\ CsvThrow(p)
    /\ UNCHANGED <<tables, queues>>

(* The listener does not wait for its UPDATE: the worker may be on its     *)
(* next job by the time the statement runs.                                *)
CsvFailedEvent(p, b) ==
    /\ <<p, b>> \in failedEvents
    /\ failedEvents' = failedEvents \ {<<p, b>>}
    /\ SetStatus(b, "failed")
    /\ UNCHANGED <<parses, staged, validationErrors, records, outside, keys, outbox,
                   queues, csvPc, csvJob, csvRow>>

(* A statement or the file service fails.  Before the try block, and in    *)
(* the catch block, the job fails at once; in between, the catch runs.     *)
(* When the listener's UPDATE fails, that is logged and nothing more.      *)
CsvError(p) ==
    /\ \/ /\ csvPc[p] \in {"find", "mark", "fail"}
          /\ CsvThrow(p)
       \/ /\ csvPc[p] \in CsvSteps \ {"find", "mark", "fail", "ack", "reject"}
          /\ GoCsv(p, "fail")
          /\ UNCHANGED <<csvJob, csvRow, failedEvents>>
       \/ /\ \E e \in failedEvents : e[1] = p /\ failedEvents' = failedEvents \ {e}
          /\ UNCHANGED <<csvPc, csvJob, csvRow>>
    /\ UNCHANGED <<tables, queues>>

CsvStep(p) ==
    \/ CsvTake(p) \/ CsvFind(p) \/ CsvMark(p) \/ CsvRead(p)
    \/ CsvDropErrors(p) \/ CsvDropRows(p) \/ CsvStage(p) \/ CsvComplain(p)
    \/ CsvFinish(p) \/ CsvAck(p) \/ CsvFail(p) \/ CsvReject(p)
    \/ \E b \in Batches : CsvFailedEvent(p, b)

CsvInit ==
    /\ csvPc = [p \in Pods |-> "idle"]
    /\ csvJob = [p \in Pods |-> NoJob]
    /\ csvRow = [p \in Pods |-> <<0, 0>>]
    /\ failedEvents = {}

CsvTypeOK ==
    /\ csvPc \in [Pods -> CsvSteps \cup {"idle"}]
    /\ csvJob \in [Pods -> CsvJob \cup {NoJob}]
    /\ \A p \in Pods : csvPc[p] # "idle" => csvJob[p] # NoJob
    /\ csvRow \in [Pods -> RowId]
    /\ \A p \in Pods : csvPc[p] \in {"dropErrors", "dropRows"} => csvRow[p][2] = 1
    /\ \A p \in Pods : csvPc[p] = "stage" => csvRow[p][2] \in DOMAIN File[CsvBatch(p)]
    /\ failedEvents \subseteq Pods \X Batches
=============================================================================

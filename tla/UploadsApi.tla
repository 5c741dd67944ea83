----------------------------- MODULE UploadsApi -----------------------------
(***************************************************************************)
(* The API's upload requests: UploadsService (upload, cancel, delete) and  *)
(* ImportsService.confirmBatch.  Requests are handled concurrently, by one *)
(* or several API processes; a client is one request, at the await its     *)
(* reqPc names, and ends in the outcome its reqPc then names.              *)
(***************************************************************************)
EXTENDS UploadStore

CONSTANTS
    Clients,        \* the requests
    Ops,            \* what each may ask for
    ActorOf,        \* the user each comes from
    ConfirmWhen     \* the statuses a user confirms in

Operations == {"upload", "confirm", "cancel", "delete", "deleteAll"}

ASSUME ClientAssumption == /\ Ops \in [Clients -> SUBSET Operations]
                           /\ ActorOf \in [Clients -> Actors]
                           /\ ConfirmWhen \subseteq BatchStatus \cup {"deleted"}

VARIABLES
    reqOp,      \* the operation asked for
    reqPc,      \* "new", the next step of the handler, or the outcome
    reqBatch,   \* the batch it is about
    reqIds,     \* the batches a delete names
    reqNr       \* the import job a confirmation added

reqVars == <<reqOp, reqPc, reqBatch, reqIds, reqNr>>

RequestSteps == {"enqueueCsv", "queueEvent", "markFailed",
                 "recheck", "dropKey", "load", "putKey", "enqueueImport", "writeCancel",
                 "dropErrors", "dropRecords", "dropRows", "dropBatches"}
Outcomes == {"created", "queued", "cached", "cancelled", "removed", "error"}

Go(c, step) == reqPc' = [reqPc EXCEPT ![c] = step]
KeyOf(c) == <<reqBatch[c], ActorOf[c]>>

Ask(c, op, step) ==
    /\ reqPc[c] = "new" /\ op \in Ops[c]
    /\ reqOp' = [reqOp EXCEPT ![c] = op]
    /\ Go(c, step)

EventOf(c) ==
    [type |-> IF reqOp[c] = "upload" THEN "csv.uploaded" ELSE "investment.import.requested",
     batch |-> reqBatch[c], nr |-> reqNr[c]]

-----------------------------------------------------------------------------
(* createCsvUpload and ingestCsv: INSERT the batch, add the CSV job, then  *)
(* outboxService.queue, which INSERTs an event and adds its job.           *)

Upload(c, b) ==
    /\ status[b] = "unborn"
    /\ Ask(c, "upload", "enqueueCsv")
    /\ status' = [status EXCEPT ![b] = "pending"]
    /\ reqBatch' = [reqBatch EXCEPT ![c] = b]
    /\ UNCHANGED <<parses, staged, validationErrors, records, outside, keys, outbox,
                   queues, reqIds, reqNr>>

EnqueueCsv(c) ==
    /\ reqPc[c] = "enqueueCsv"
    /\ csvQueue' = Append(csvQueue, [batch |-> reqBatch[c], stalls |-> 0])
    /\ Go(c, "queueEvent")
    /\ UNCHANGED <<tables, csvStalled, importQueue, importStalled, importJobs,
                   outboxQueue, reqOp, reqBatch, reqIds, reqNr>>

(* The INSERT into outbox_events and the job are two awaits that no other  *)
(* handler here looks at: one step when both succeed (see ApiError).       *)
QueueEvent(c) ==
    /\ reqPc[c] = "queueEvent"
    /\ outbox' = outbox \cup {EventOf(c)}
    /\ outboxQueue' = Append(outboxQueue, EventOf(c))
    /\ Go(c, IF reqOp[c] = "upload" THEN "created" ELSE "queued")
    /\ UNCHANGED <<status, parses, staged, validationErrors, records, outside, keys,
                   csvQueue, csvStalled, importQueue, importStalled, importJobs,
                   reqOp, reqBatch, reqIds, reqNr>>

(* The catch block of an upload: whatever failed, and although the CSV job *)
(* may be in the queue.                                                    *)
MarkFailed(c) ==
    /\ reqPc[c] = "markFailed"
    /\ SetStatus(reqBatch[c], "failed")
    /\ Go(c, "error")
    /\ UNCHANGED <<parses, staged, validationErrors, records, outside, keys, outbox,
                   queues, reqOp, reqBatch, reqIds, reqNr>>

-----------------------------------------------------------------------------
(* confirmBatch, under the idempotency key `batch:actor`. *)

Confirm(c, b) ==
    /\ status[b] \in ConfirmWhen
    /\ Ask(c, "confirm", IF <<b, ActorOf[c]>> \in keys THEN "recheck" ELSE "load")
    /\ reqBatch' = [reqBatch EXCEPT ![c] = b]
    /\ UNCHANGED <<tables, queues, reqIds, reqNr>>

(* A key was found: its response stands unless the batch's status shows    *)
(* that the import it stands for has not finished.                         *)
Unfinished == {"validated", "importing", "partially_imported"}

Recheck(c) ==
    /\ reqPc[c] = "recheck"
    /\ Go(c, IF status[reqBatch[c]] \in Unfinished THEN "dropKey" ELSE "cached")
    /\ UNCHANGED <<tables, queues, reqOp, reqBatch, reqIds, reqNr>>

DropKey(c) ==
    /\ reqPc[c] = "dropKey"
    /\ keys' = keys \ {KeyOf(c)}
    /\ Go(c, "load")
    /\ UNCHANGED <<status, parses, staged, validationErrors, records, outside, outbox,
                   queues, reqOp, reqBatch, reqIds, reqNr>>

Load(c) ==
    /\ reqPc[c] = "load"
    /\ Go(c, IF Exists(reqBatch[c]) THEN "putKey" ELSE "error")
    /\ UNCHANGED <<tables, queues, reqOp, reqBatch, reqIds, reqNr>>

(* UNIQUE (scope, idempotency_key): the second of two INSERTs fails. *)
PutKey(c) ==
    /\ reqPc[c] = "putKey"
    /\ keys' = keys \cup {KeyOf(c)}
    /\ Go(c, IF KeyOf(c) \in keys THEN "error" ELSE "enqueueImport")
    /\ UNCHANGED <<status, parses, staged, validationErrors, records, outside, outbox,
                   queues, reqOp, reqBatch, reqIds, reqNr>>

EnqueueImport(c) ==
    /\ reqPc[c] = "enqueueImport"
    /\ importJobs' = importJobs + 1
    /\ importQueue' = Append(importQueue, [batch |-> reqBatch[c], actor |-> ActorOf[c],
                                           nr |-> importJobs + 1, stalls |-> 0])
    /\ reqNr' = [reqNr EXCEPT ![c] = importJobs + 1]
    /\ Go(c, "queueEvent")
    /\ UNCHANGED <<tables, csvQueue, csvStalled, importStalled, outboxQueue,
                   reqOp, reqBatch, reqIds>>

-----------------------------------------------------------------------------
(* cancel: any batch that is found, whatever its status. *)

Cancel(c, b) ==
    /\ status[b] # "unborn"
    /\ Ask(c, "cancel", IF Exists(b) THEN "writeCancel" ELSE "error")
    /\ reqBatch' = [reqBatch EXCEPT ![c] = b]
    /\ UNCHANGED <<tables, queues, reqIds, reqNr>>

WriteCancel(c) ==
    /\ reqPc[c] = "writeCancel"
    /\ SetStatus(reqBatch[c], "cancelled")
    /\ Go(c, "cancelled")
    /\ UNCHANGED <<parses, staged, validationErrors, records, outside, keys, outbox,
                   queues, reqOp, reqBatch, reqIds, reqNr>>

-----------------------------------------------------------------------------
(* deleteByIds and deleteAll: four DELETEs in foreign-key order.  Each one *)
(* names the batches again, and fails as a whole on a dangling reference.  *)
(* deleteAll has no WHERE clause: every batch, and every other record.     *)

Delete(c, ids) ==
    /\ ids # {} /\ \A b \in ids : status[b] # "unborn"
    /\ Ask(c, "delete", "dropErrors")
    /\ reqIds' = [reqIds EXCEPT ![c] = ids]
    /\ UNCHANGED <<tables, queues, reqBatch, reqNr>>

DeleteAll(c) ==
    /\ Ask(c, "deleteAll", "dropErrors")
    /\ reqIds' = [reqIds EXCEPT ![c] = Batches]
    /\ UNCHANGED <<tables, queues, reqBatch, reqNr>>

DropErrors(c) ==
    /\ reqPc[c] = "dropErrors"
    /\ validationErrors' = [b \in Batches |-> IF b \in reqIds[c] THEN {}
                                              ELSE validationErrors[b]]
    /\ Go(c, "dropRecords")
    /\ UNCHANGED <<status, parses, staged, records, outside, keys, outbox,
                   queues, reqOp, reqBatch, reqIds, reqNr>>

(* The outside records go with a deleteAll only. *)
DropRecords(c) ==
    /\ reqPc[c] = "dropRecords"
    /\ records' = {r \in records : r.job.batch \notin reqIds[c]}
    /\ outside' = IF reqOp[c] = "deleteAll" THEN {} ELSE outside
    /\ Go(c, "dropRows")
    /\ UNCHANGED <<status, parses, staged, validationErrors, keys, outbox,
                   queues, reqOp, reqBatch, reqIds, reqNr>>

DropRows(c) ==
    /\ reqPc[c] = "dropRows"
    /\ \/ /\ \A b \in reqIds[c] : staged[b] \cap Referenced(b) = {}
          /\ staged' = [b \in Batches |-> IF b \in reqIds[c] THEN {} ELSE staged[b]]
          /\ Go(c, "dropBatches")
       \/ /\ \E b \in reqIds[c] : staged[b] \cap Referenced(b) # {}
          /\ Go(c, "error")
          /\ UNCHANGED staged
    /\ UNCHANGED <<status, parses, validationErrors, records, outside, keys, outbox,
                   queues, reqOp, reqBatch, reqIds, reqNr>>

(* Something in the tables still belongs to batch b. *)
InUse(b) == staged[b] # {} \/ validationErrors[b] # {} \/ Posted(b) # {}

DropBatches(c) ==
    /\ reqPc[c] = "dropBatches"
    /\ \/ /\ \A b \in reqIds[c] : ~InUse(b)
          /\ status' = [b \in Batches |-> IF b \in reqIds[c] /\ Exists(b) THEN "deleted"
                                          ELSE status[b]]
          /\ Go(c, "removed")
       \/ /\ \E b \in reqIds[c] : InUse(b)
          /\ Go(c, "error")
          /\ UNCHANGED status
    /\ UNCHANGED <<parses, staged, validationErrors, records, outside, keys, outbox,
                   queues, reqOp, reqBatch, reqIds, reqNr>>

-----------------------------------------------------------------------------
(* A request stops halfway through outboxService.queue: the event may be in *)
(* the table already, its job is not in the queue.                         *)
EventLeftBehind(c) ==
    \/ UNCHANGED outbox
    \/ reqPc[c] = "queueEvent" /\ outbox' = outbox \cup {EventOf(c)}

(* A statement or a queue fails: an upload past its INSERT goes to its     *)
(* catch block, every other request answers with an error.                 *)
ApiError(c) ==
    /\ reqPc[c] \in RequestSteps
    /\ Go(c, IF reqPc[c] \in {"enqueueCsv", "queueEvent"} /\ reqOp[c] = "upload"
             THEN "markFailed" ELSE "error")
    /\ EventLeftBehind(c)
    /\ UNCHANGED <<status, parses, staged, validationErrors, records, outside, keys,
                   queues, reqOp, reqBatch, reqIds, reqNr>>

(* The API process dies: the request goes no further. *)
ApiCrash(c) ==
    /\ reqPc[c] \in RequestSteps
    /\ Go(c, "error")
    /\ EventLeftBehind(c)
    /\ UNCHANGED <<status, parses, staged, validationErrors, records, outside, keys,
                   queues, reqOp, reqBatch, reqIds, reqNr>>

(* A user asks for something. *)
Request(c) ==
    \/ \E b \in Batches : Upload(c, b) \/ Confirm(c, b) \/ Cancel(c, b)
    \/ \E ids \in SUBSET Batches : Delete(c, ids)
    \/ DeleteAll(c)

(* The handler of a request runs on to its next await. *)
Handle(c) ==
    \/ EnqueueCsv(c) \/ QueueEvent(c) \/ MarkFailed(c)
    \/ Recheck(c) \/ DropKey(c) \/ Load(c) \/ PutKey(c) \/ EnqueueImport(c)
    \/ WriteCancel(c)
    \/ DropErrors(c) \/ DropRecords(c) \/ DropRows(c) \/ DropBatches(c)

ApiInit ==
    /\ reqOp = [c \in Clients |-> "none"]
    /\ reqPc = [c \in Clients |-> "new"]
    /\ reqBatch = [c \in Clients |-> CHOOSE b \in Batches : TRUE]
    /\ reqIds = [c \in Clients |-> {}]
    /\ reqNr = [c \in Clients |-> 0]

ApiTypeOK ==
    /\ reqOp \in [Clients -> Operations \cup {"none"}]
    /\ reqPc \in [Clients -> RequestSteps \cup Outcomes \cup {"new"}]
    /\ reqBatch \in [Clients -> Batches]
    /\ reqIds \in [Clients -> SUBSET Batches]
    /\ reqNr \in [Clients -> Nat]
=============================================================================

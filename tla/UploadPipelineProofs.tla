------------------------ MODULE UploadPipelineProofs ------------------------
(***************************************************************************)
(* The safety of the upload pipeline, for every choice of the constants:   *)
(* nothing dangles, what is posted was confirmed, the pipeline implements  *)
(* the ledger, a batch that reads validated is whole, one that reads       *)
(* imported is in the ledger.                                              *)
(***************************************************************************)
EXTENDS UploadTyping, FiniteSetTheorems

-----------------------------------------------------------------------------
(* Who touches what.                                                       *)

(* Of the steps, only an INSERT of the import worker adds to the ledger,   *)
(* and only the second DELETE of a deletion takes from it.                 *)
LEMMA LedgerSteps ==
    ASSUME [Next]_vars
    PROVE  \/ UNCHANGED <<records, outside>>
           \/ \E p \in Pods : ImportWork(p) /\ ImpInsert(p)
           \/ \E c \in Clients : ApiWork(c) /\ DropRecords(c)
<1>1. ASSUME NEW p \in Pods, CsvStep(p) \/ CsvError(p)
      PROVE  UNCHANGED <<records, outside>>
  BY <1>1 DEF CsvStep, CsvTake, CsvFind, CsvMark, CsvRead, CsvDropErrors, CsvDropRows,
       CsvStage, CsvComplain, CsvFinish, CsvAck, CsvFail, CsvReject, CsvFailedEvent,
       CsvError, tables
<1>2. ASSUME NEW p \in Pods, ImpStep(p) \/ ImpError(p)
      PROVE  UNCHANGED <<records, outside>> \/ ImpInsert(p)
  BY <1>2 DEF ImpStep, ImpTake, ImpMark, ImpSelect, ImpNone, ImpPreload, ImpSkip,
       ImpFinish, ImpAck, ImpError, tables
<1>3. ASSUME NEW p \in Pods, ImpError(p)
      PROVE  UNCHANGED <<records, outside>>
  BY <1>3 DEF ImpError, tables
<1>4. ASSUME NEW c \in Clients, Request(c) \/ ApiError(c) \/ ApiCrash(c)
      PROVE  UNCHANGED <<records, outside>>
  BY <1>4 DEF Request, Upload, Confirm, Cancel, Delete, DeleteAll, ApiError, ApiCrash, tables
<1>5. ASSUME NEW c \in Clients, Handle(c)
      PROVE  UNCHANGED <<records, outside>> \/ DropRecords(c)
  BY <1>5 DEF Handle, EnqueueCsv, QueueEvent, MarkFailed, Recheck, DropKey, Load, PutKey,
       EnqueueImport, WriteCancel, DropErrors, DropRows, DropBatches, tables
<1>6. ASSUME NEW p \in Pods, Crash(p)
      PROVE  UNCHANGED <<records, outside>>
  BY <1>6 DEF Crash, tables
<1>7. CASE Requeue
  BY <1>7 DEF Requeue, RequeueCsv, RequeueImport, tables
<1>8. CASE Quiet \/ UNCHANGED vars
  BY <1>8 DEF Quiet, vars, tables
<1>. QED
  BY <1>1, <1>2, <1>3, <1>4, <1>5, <1>6, <1>7, <1>8
     DEF Next, CsvWork, ImportWork, WorkerFault, UserAsks, ApiWork, ApiMishap

-----------------------------------------------------------------------------
(* Nothing dangles. *)

(* A step that leaves the three child tables alone and keeps every batch.  *)
Keeps == /\ UNCHANGED <<staged, validationErrors, records>>
         /\ \A b \in Batches : Exists(b) => Exists(b)'

LEMMA KeepsOrphanFree == NoOrphans /\ Keeps => NoOrphans'
  BY DEF NoOrphans, Keeps

LEMMA SetStatusKeeps ==
    ASSUME NEW b \in Batches, NEW s \in BatchStatus, StoreTypeOK, SetStatus(b, s),
           UNCHANGED <<staged, validationErrors, records>>
    PROVE  Keeps
  BY DEF StoreTypeOK, SetStatus, Exists, BatchStatus, Keeps

LEMMA TablesKeep == UNCHANGED tables => Keeps
  BY DEF tables, Keeps, Exists

LEMMA CsvOrphanFree ==
    ASSUME NEW p \in Pods, StoreTypeOK, CsvTypeOK, NoOrphans, CsvStep(p) \/ CsvError(p)
    PROVE  NoOrphans'
<1>. DEFINE b == CsvBatch(p)
<1>1. csvPc[p] # "idle" => b \in Batches
  BY CsvBatchType
<1>2. CASE CsvDropErrors(p)
  BY <1>1, <1>2 DEF CsvDropErrors, NoOrphans, StoreTypeOK, Exists
<1>3. CASE CsvDropRows(p)
  <2>1. b \in Batches
    BY <1>1, <1>3 DEF CsvDropRows
  <2>2. CASE staged[b] \cap Referenced(b) = {} /\ staged' = [staged EXCEPT ![b] = {}]
    <3>1. validationErrors[b] = {} /\ Posted(b) = {}
      BY <2>1, <2>2 DEF NoOrphans, Referenced, Posted
    <3>. QED
      BY <1>3, <2>1, <2>2, <3>1 DEF CsvDropRows, NoOrphans, Posted, StoreTypeOK, Exists, Record, ImportJob
  <2>3. CASE UNCHANGED staged
    BY <1>3, <2>3, KeepsOrphanFree DEF CsvDropRows, Keeps, Exists
  <2>. QED
    BY <1>3, <2>2, <2>3 DEF CsvDropRows
<1>4. CASE CsvStage(p)
  <2>1. b \in Batches
    BY <1>1, <1>4 DEF CsvStage
  <2>2. CASE Exists(b) /\ staged' = [staged EXCEPT ![b] = @ \cup {CsvRowId(p)}]
    BY <1>4, <2>1, <2>2 DEF CsvStage, NoOrphans, StoreTypeOK, Exists, Record, ImportJob
  <2>3. CASE UNCHANGED staged
    BY <1>4, <2>3, KeepsOrphanFree DEF CsvStage, Keeps, Exists
  <2>. QED
    BY <1>4, <2>2, <2>3 DEF CsvStage, Stageable
<1>5. CASE CsvComplain(p)
  <2>1. b \in Batches
    BY <1>1, <1>5 DEF CsvComplain
  <2>2. CASE /\ CsvRowId(p) \in staged[b]
             /\ validationErrors' = [validationErrors EXCEPT ![b] = @ \cup {CsvRowId(p)}]
    BY <1>5, <2>1, <2>2 DEF CsvComplain, NoOrphans, StoreTypeOK, Exists
  <2>3. CASE UNCHANGED validationErrors
    BY <1>5, <2>3, KeepsOrphanFree DEF CsvComplain, Keeps, Exists
  <2>. QED
    BY <1>5, <2>2, <2>3 DEF CsvComplain
<1>6. CASE CsvMark(p) \/ CsvFinish(p) \/ CsvFail(p) \/ \E x \in Batches : CsvFailedEvent(p, x)
  <2>1. PICK x \in Batches, s \in BatchStatus : SetStatus(x, s)
    BY <1>1, <1>6 DEF CsvMark, CsvFinish, CsvFail, CsvFailedEvent, BatchStatus
  <2>2. UNCHANGED <<staged, validationErrors, records>>
    BY <1>6 DEF CsvMark, CsvFinish, CsvFail, CsvFailedEvent
  <2>. QED
    BY <2>1, <2>2, SetStatusKeeps, KeepsOrphanFree
<1>7. CASE CsvRead(p)
  BY <1>7, KeepsOrphanFree DEF CsvRead, Keeps, Exists
<1>8. CASE CsvTake(p) \/ CsvFind(p) \/ CsvAck(p) \/ CsvReject(p) \/ CsvError(p)
  BY <1>8, TablesKeep, KeepsOrphanFree DEF CsvTake, CsvFind, CsvAck, CsvReject, CsvError
<1>. QED
  BY <1>2, <1>3, <1>4, <1>5, <1>6, <1>7, <1>8 DEF CsvStep

LEMMA ImportOrphanFree ==
    ASSUME NEW p \in Pods, StoreTypeOK, ImpTypeOK, NoOrphans, ImpStep(p) \/ ImpError(p)
    PROVE  NoOrphans'
<1>1. impPc[p] # "idle" => ImportBatch(p) \in Batches
  BY ImportBatchType
<1>2. CASE ImpInsert(p)
  BY <1>2 DEF ImpInsert, Insertable, ImportBatch, NoOrphans, Exists
<1>3. CASE ImpMark(p) \/ ImpNone(p) \/ ImpFinish(p)
  <2>1. FinalStatus(p) \in BatchStatus
    BY DEF FinalStatus, BatchStatus
  <2>2. CASE UNCHANGED status
    BY <1>3, <2>2, KeepsOrphanFree DEF ImpMark, ImpNone, ImpFinish, Keeps, Exists
  <2>3. CASE \E s \in BatchStatus : SetStatus(ImportBatch(p), s)
    BY <1>1, <1>3, <2>3, SetStatusKeeps, KeepsOrphanFree DEF ImpMark, ImpNone, ImpFinish
  <2>. QED
    BY <1>3, <2>1, <2>2, <2>3 DEF ImpMark, ImpNone, ImpFinish, BatchStatus
<1>4. CASE ImpTake(p) \/ ImpSelect(p) \/ ImpPreload(p) \/ ImpSkip(p) \/ ImpAck(p) \/ ImpError(p)
  BY <1>4, TablesKeep, KeepsOrphanFree
     DEF ImpTake, ImpSelect, ImpPreload, ImpSkip, ImpAck, ImpError
<1>. QED
  BY <1>2, <1>3, <1>4 DEF ImpStep

LEMMA ApiOrphanFree ==
    ASSUME NEW c \in Clients, StoreTypeOK, ApiTypeOK, NoOrphans,
           Request(c) \/ Handle(c) \/ ApiError(c) \/ ApiCrash(c)
    PROVE  NoOrphans'
<1>1. reqBatch[c] \in Batches /\ reqIds[c] \subseteq Batches
  BY DEF ApiTypeOK
<1>2. CASE \E b \in Batches : Upload(c, b)
  BY <1>2, KeepsOrphanFree DEF Upload, Keeps, Exists, StoreTypeOK
<1>3. CASE MarkFailed(c) \/ WriteCancel(c)
  BY <1>1, <1>3, SetStatusKeeps, KeepsOrphanFree DEF MarkFailed, WriteCancel, BatchStatus
<1>4. CASE DropErrors(c)
  BY <1>4 DEF DropErrors, NoOrphans, Exists
<1>5. CASE DropRecords(c)
  BY <1>5 DEF DropRecords, NoOrphans, Exists
<1>6. CASE DropRows(c)
  <2>1. CASE /\ \A b \in reqIds[c] : staged[b] \cap Referenced(b) = {}
             /\ staged' = [b \in Batches |-> IF b \in reqIds[c] THEN {} ELSE staged[b]]
    <3>1. \A b \in reqIds[c] : validationErrors[b] = {} /\ Posted(b) = {}
      BY <1>1, <2>1 DEF NoOrphans, Referenced, Posted
    <3>. QED
      BY <1>6, <2>1, <3>1 DEF DropRows, NoOrphans, Posted, StoreTypeOK, Exists, Record, ImportJob
  <2>2. CASE UNCHANGED staged
    BY <1>6, <2>2, KeepsOrphanFree DEF DropRows, Keeps, Exists
  <2>. QED
    BY <1>6, <2>1, <2>2 DEF DropRows
<1>7. CASE DropBatches(c)
  BY <1>7 DEF DropBatches, InUse, NoOrphans, StoreTypeOK, Exists
<1>8. CASE \/ \E b \in Batches : Confirm(c, b) \/ Cancel(c, b)
           \/ \E ids \in SUBSET Batches : Delete(c, ids)
           \/ DeleteAll(c) \/ EnqueueCsv(c) \/ Recheck(c) \/ Load(c) \/ EnqueueImport(c)
  BY <1>8, TablesKeep, KeepsOrphanFree
     DEF Confirm, Cancel, Delete, DeleteAll, EnqueueCsv, Recheck, Load, EnqueueImport
<1>9. CASE QueueEvent(c) \/ DropKey(c) \/ PutKey(c) \/ ApiError(c) \/ ApiCrash(c)
  BY <1>9, KeepsOrphanFree DEF QueueEvent, DropKey, PutKey, ApiError, ApiCrash, Keeps, Exists
<1>. QED
  BY <1>2, <1>3, <1>4, <1>5, <1>6, <1>7, <1>8, <1>9 DEF Request, Handle

LEMMA NextOrphanFree == TypeOK /\ NoOrphans /\ [Next]_vars => NoOrphans'
<1>. SUFFICES ASSUME TypeOK, NoOrphans, [Next]_vars PROVE NoOrphans'
  OBVIOUS
<1>1. StoreTypeOK /\ CsvTypeOK /\ ImpTypeOK /\ ApiTypeOK
  BY DEF TypeOK
<1>2. ASSUME NEW p \in Pods, CsvWork(p) \/ ImportWork(p) \/ WorkerFault(p) PROVE NoOrphans'
  BY <1>1, <1>2, CsvOrphanFree, ImportOrphanFree DEF CsvWork, ImportWork, WorkerFault
<1>3. ASSUME NEW c \in Clients, UserAsks(c) \/ ApiWork(c) \/ ApiMishap(c) PROVE NoOrphans'
  BY <1>1, <1>3, ApiOrphanFree DEF UserAsks, ApiWork, ApiMishap
<1>4. CASE Requeue \/ Quiet \/ UNCHANGED vars \/ \E p \in Pods : Crash(p)
  <2>1. UNCHANGED tables
    BY <1>4 DEF Requeue, RequeueCsv, RequeueImport, Quiet, vars, Crash
  <2>. QED
    BY <2>1, TablesKeep, KeepsOrphanFree
<1>. QED
  BY <1>2, <1>3, <1>4 DEF Next

(* In the middle of any deletion, second parse or import, and whatever     *)
(* crashes: a posted record leads back to a staged row of a batch that     *)
(* exists, a validation error to a row, a row to a batch.  The handlers    *)
(* delete in an order that the foreign keys accept, and what they race     *)
(* with is refused by the keys.                                            *)
THEOREM OrphanFree == Spec => []NoOrphans
<1>1. Init => NoOrphans
  BY DEF Init, StoreInit, NoOrphans
<1>. QED
  BY <1>1, TypeCorrect, NextOrphanFree, PTL DEF Spec

-----------------------------------------------------------------------------
(* What is posted was confirmed.                                           *)
(*                                                                         *)
(* A record alone does not show that its confirmation exists: the invariant*)
(* follows the job from the request that adds it through the queue, the    *)
(* stalled jobs and the pods, and the rows from the SELECT to the INSERT.  *)

Confirmed(job) ==
    \E c \in Clients : /\ reqOp[c] = "confirm"
                       /\ reqBatch[c] = job.batch
                       /\ ActorOf[c] = job.actor
                       /\ reqNr[c] = job.nr

ConfirmSteps == {"recheck", "dropKey", "load", "putKey", "enqueueImport"}

(* A request has no job until it adds one, and adds one as a confirmation. *)
RequestsInOrder ==
    \A c \in Clients :
        /\ reqPc[c] \in ConfirmSteps => reqOp[c] = "confirm"
        /\ reqPc[c] \in ConfirmSteps \cup {"new"} => reqNr[c] = 0

Genuine(job) == job.nr # 0 /\ Confirmed(job)

JobsConfirmed ==
    /\ \A i \in DOMAIN importQueue : Genuine(importQueue[i])
    /\ \A job \in importStalled : Genuine(job)
    /\ \A p \in Pods : impPc[p] # "idle" => Genuine(impJob[p])

RowsValid ==
    \A p \in Pods : \A row \in impLeft[p] :
        impPc[p] # "idle" /\ LineOf(row) \in Valid(ImportBatch(p))

RecordsConfirmed ==
    \A r \in records : Genuine(r.job) /\ LineOf(r.row) \in Valid(r.job.batch)

ConfirmInv == RequestsInOrder /\ JobsConfirmed /\ RowsValid /\ RecordsConfirmed

(* A confirmation that added its job is never taken back: no step touches  *)
(* what a request with a job is about.                                     *)
RequestsKept ==
    \A c \in Clients : reqNr[c] # 0 =>
        reqOp'[c] = reqOp[c] /\ reqBatch'[c] = reqBatch[c] /\ reqNr'[c] = reqNr[c]

LEMMA GenuineStays ==
    ASSUME RequestsKept, NEW job, Genuine(job)
    PROVE  Genuine(job)'
  BY DEF RequestsKept, Genuine, Confirmed

LEMMA ApiRequestsInOrder ==
    ASSUME NEW c \in Clients, ApiTypeOK, StoreTypeOK, RequestsInOrder,
           Request(c) \/ Handle(c) \/ ApiError(c) \/ ApiCrash(c)
    PROVE  RequestsInOrder' /\ RequestsKept
<1>1. CASE \E b \in Batches : Upload(c, b)
  BY <1>1 DEF Upload, Ask, Go, ApiTypeOK, RequestsInOrder, RequestsKept, ConfirmSteps
<1>2. CASE \E b \in Batches : Confirm(c, b)
  BY <1>2 DEF Confirm, Ask, Go, ApiTypeOK, RequestsInOrder, RequestsKept, ConfirmSteps
<1>3. CASE \E b \in Batches : Cancel(c, b)
  BY <1>3 DEF Cancel, Ask, Go, ApiTypeOK, RequestsInOrder, RequestsKept, ConfirmSteps
<1>4. CASE (\E ids \in SUBSET Batches : Delete(c, ids)) \/ DeleteAll(c)
  BY <1>4 DEF Delete, DeleteAll, Ask, Go, ApiTypeOK, RequestsInOrder, RequestsKept, ConfirmSteps
<1>5. CASE EnqueueImport(c)
  BY <1>5 DEF EnqueueImport, Go, ApiTypeOK, RequestsInOrder, RequestsKept, ConfirmSteps
<1>6. CASE \/ EnqueueCsv(c) \/ QueueEvent(c) \/ MarkFailed(c) \/ WriteCancel(c)
           \/ DropErrors(c) \/ DropRecords(c) \/ DropRows(c) \/ DropBatches(c)
           \/ ApiError(c) \/ ApiCrash(c)
  <2>1. UNCHANGED <<reqOp, reqBatch, reqNr>>
    BY <1>6 DEF EnqueueCsv, QueueEvent, MarkFailed, WriteCancel, DropErrors, DropRecords,
         DropRows, DropBatches, ApiError, ApiCrash
  <2>2. PICK step \in (RequestSteps \cup Outcomes) \ ConfirmSteps : Go(c, step)
    BY <1>6 DEF EnqueueCsv, QueueEvent, MarkFailed, WriteCancel, DropErrors, DropRecords,
         DropRows, DropBatches, ApiError, ApiCrash, RequestSteps, Outcomes, ConfirmSteps
  <2>. QED
    BY <2>1, <2>2 DEF Go, ApiTypeOK, RequestsInOrder, RequestsKept, ConfirmSteps, RequestSteps, Outcomes
<1>7. CASE Recheck(c) \/ DropKey(c) \/ Load(c) \/ PutKey(c)
  <2>1. reqPc[c] \in ConfirmSteps /\ UNCHANGED <<reqOp, reqBatch, reqNr>>
    BY <1>7 DEF Recheck, DropKey, Load, PutKey, ConfirmSteps
  <2>2. PICK step : Go(c, step)
    BY <1>7 DEF Recheck, DropKey, Load, PutKey
  <2>. QED
    BY <2>1, <2>2 DEF Go, ApiTypeOK, RequestsInOrder, RequestsKept
<1>. QED
  BY <1>1, <1>2, <1>3, <1>4, <1>5, <1>6, <1>7 DEF Request, Handle

(* The row the import loop comes to is one of those it has not come to.    *)
LEMMA NextRowMember ==
    ASSUME NEW p \in Pods, ImpTypeOK, impLeft[p] # {}
    PROVE  NextRow(p) \in impLeft[p]
<1>. DEFINE lines == {LineOf(row) : row \in impLeft[p]}
<1>1. \A row \in impLeft[p] : LineOf(row) \in Nat
  BY DEF ImpTypeOK, RowId, LineOf
<1>2. lines \in SUBSET Nat /\ lines # {}
  BY <1>1
<1>3. PICK row \in impLeft[p] : LineOf(row) = FirstOf(lines)
  BY <1>2, FirstOfMember
<1>4. \A other \in impLeft[p] : LineOf(row) <= LineOf(other)
  BY <1>2, <1>3, FirstOfMember
<1>. QED
  BY <1>4 DEF NextRow

(* The job keeps its confirmation on the way to the ledger.                *)
LEMMA ConfirmedOnTheWay ==
    ASSUME ConfirmInv, RequestsInOrder', RequestsKept,
           \A i \in DOMAIN importQueue' : Genuine(importQueue'[i]),
           \A job \in importStalled' : Genuine(job),
           \A p \in Pods : impPc'[p] # "idle" => Genuine(impJob'[p]),
           RowsValid',
           \A r \in records' : Genuine(r.job) /\ LineOf(r.row) \in Valid(r.job.batch)
    PROVE  ConfirmInv'
<1>1. JobsConfirmed'
  <2>1. \A job : Genuine(job) => Genuine(job)'
    BY GenuineStays
  <2>2. ASSUME NEW i \in DOMAIN importQueue' PROVE Genuine(importQueue[i])'
    BY <2>1
  <2>3. ASSUME NEW p \in Pods, impPc'[p] # "idle" PROVE Genuine(impJob[p])'
    BY <2>1, <2>3
  <2>. QED
    BY <2>1, <2>2, <2>3 DEF JobsConfirmed
<1>2. RecordsConfirmed'
  BY GenuineStays DEF RecordsConfirmed, Valid, RowStatus, Ref
<1>. QED
  BY <1>1, <1>2 DEF ConfirmInv

LEMMA ConfirmFrame ==
    ASSUME ConfirmInv, UNCHANGED <<importQueue, importStalled, records, impVars, reqVars>>
    PROVE  ConfirmInv'
  BY DEF ConfirmInv, RequestsInOrder, JobsConfirmed, RowsValid, RecordsConfirmed, Genuine,
         Confirmed, impVars, reqVars, ImportBatch

LEMMA ImportConfirmed ==
    ASSUME NEW p \in Pods, StoreTypeOK, ImpTypeOK, ConfirmInv,
           ImpStep(p) \/ ImpError(p), UNCHANGED reqVars
    PROVE  ConfirmInv'
<1>1. RequestsKept /\ RequestsInOrder'
  BY DEF RequestsKept, RequestsInOrder, reqVars, ConfirmInv
<1>2. UNCHANGED importStalled
  BY DEF ImpStep, ImpTake, ImpMark, ImpSelect, ImpNone, ImpPreload, ImpInsert, ImpSkip,
         ImpFinish, ImpAck, ImpError, queues
<1>3. \A i \in DOMAIN importQueue' : Genuine(importQueue'[i])
  <2>1. CASE ImpTake(p)
    <3>1. /\ importQueue' = Tail(importQueue)
          /\ importQueue \in Seq(ImportJob)
          /\ importQueue # <<>>
      BY <2>1 DEF ImpTake, StoreTypeOK
    <3>2. \A i \in DOMAIN importQueue' : /\ i + 1 \in DOMAIN importQueue
                                        /\ importQueue'[i] = importQueue[i + 1]
      BY <3>1, HeadTailProperties, LenProperties
    <3>. QED
      BY <3>2 DEF ConfirmInv, JobsConfirmed
  <2>2. CASE UNCHANGED importQueue
    BY <2>2 DEF ConfirmInv, JobsConfirmed
  <2>. QED
    BY <2>1, <2>2 DEF ImpStep, ImpMark, ImpSelect, ImpNone, ImpPreload, ImpInsert,
         ImpSkip, ImpFinish, ImpAck, ImpError, queues
<1>4. \A q \in Pods : impPc'[q] # "idle" => Genuine(impJob'[q])
  <2>1. CASE ImpTake(p)
    <3>1. importQueue # <<>> /\ importQueue \in Seq(ImportJob)
      BY <2>1 DEF ImpTake, StoreTypeOK
    <3>2. 1 \in DOMAIN importQueue /\ Head(importQueue) = importQueue[1]
      BY <3>1, LenProperties, EmptySeq
    <3>. QED
      BY <2>1, <3>2 DEF ImpTake, GoImport, ImpTypeOK, ConfirmInv, JobsConfirmed
  <2>2. CASE LeaveImport(p)
    BY <2>2 DEF LeaveImport, GoImport, ImpTypeOK, ConfirmInv, JobsConfirmed
  <2>3. CASE impPc[p] # "idle" /\ UNCHANGED impJob /\ (UNCHANGED impPc \/ \E step : GoImport(p, step))
    BY <2>3 DEF GoImport, ImpTypeOK, ConfirmInv, JobsConfirmed
  <2>. QED
    BY <2>1, <2>2, <2>3 DEF ImpStep, ImpMark, ImpSelect, ImpNone, ImpPreload, ImpInsert,
         ImpSkip, Advance, ImpFinish, ImpAck, ImpError
<1>5. RowsValid'
  <2>1. CASE ImpTake(p)
    BY <2>1 DEF ImpTake, GoImport, ImpTypeOK, ConfirmInv, RowsValid, ImportBatch
  <2>2. CASE ImpSelect(p)
    <3>1. /\ impLeft' = [impLeft EXCEPT ![p] = ValidRows(ImportBatch(p))]
          /\ UNCHANGED impJob
      BY <2>2 DEF ImpSelect
    <3>2. PICK step \in {"none", "insert", "preload"} : GoImport(p, step)
      BY <2>2 DEF ImpSelect
    <3>3. \A q \in Pods : (q # p /\ impPc'[q] = impPc[q]) \/ (q = p /\ impPc'[q] # "idle")
      BY <3>2 DEF GoImport, ImpTypeOK
    <3>. QED
      BY <3>1, <3>3 DEF ValidRows, ImpTypeOK, ConfirmInv, RowsValid, ImportBatch
  <2>3. CASE LeaveImport(p)
    BY <2>3 DEF LeaveImport, GoImport, ImpTypeOK, ConfirmInv, RowsValid, ImportBatch
  <2>4. CASE /\ \A q \in Pods : impLeft'[q] \subseteq impLeft[q]
             /\ UNCHANGED impJob
             /\ UNCHANGED impPc \/ \E step \in ImportSteps : GoImport(p, step)
    BY <2>4 DEF GoImport, ImportSteps, ImpTypeOK, ConfirmInv, RowsValid, ImportBatch
  <2>5. ASSUME Advance(p)
        PROVE  /\ \A q \in Pods : impLeft'[q] \subseteq impLeft[q]
               /\ UNCHANGED impPc \/ \E step \in ImportSteps : GoImport(p, step)
    BY <2>5 DEF Advance, ImpTypeOK, ImportSteps
  <2>6. CASE ImpInsert(p) \/ ImpSkip(p)
    BY <2>4, <2>5, <2>6 DEF ImpInsert, ImpSkip
  <2>7. CASE ImpMark(p) \/ ImpNone(p) \/ ImpPreload(p) \/ ImpFinish(p)
    BY <2>4, <2>7 DEF ImpMark, ImpNone, ImpPreload, ImpFinish, ImportSteps
  <2>8. CASE ImpError(p)
    BY <2>3, <2>4, <2>5, <2>8 DEF ImpError
  <2>. QED
    BY <2>1, <2>2, <2>3, <2>6, <2>7, <2>8 DEF ImpStep, ImpAck
<1>6. \A r \in records' : Genuine(r.job) /\ LineOf(r.row) \in Valid(r.job.batch)
  <2>1. CASE ImpInsert(p)
    <3>1. impPc[p] = "insert" /\ impLeft[p] # {}
      BY <2>1 DEF ImpInsert, ImpTypeOK
    <3>2. Genuine(impJob[p])
      BY <3>1 DEF ConfirmInv, JobsConfirmed
    <3>3. LineOf(NextRow(p)) \in Valid(impJob[p].batch)
      BY <3>1, NextRowMember DEF ConfirmInv, RowsValid, ImportBatch
    <3>4. records' = records \cup {[job |-> impJob[p], row |-> NextRow(p)]}
      BY <2>1 DEF ImpInsert
    <3>. QED
      BY <3>2, <3>3, <3>4 DEF ConfirmInv, RecordsConfirmed
  <2>2. CASE UNCHANGED records
    BY <2>2 DEF ConfirmInv, RecordsConfirmed
  <2>. QED
    BY <2>1, <2>2 DEF ImpStep, ImpTake, ImpMark, ImpSelect, ImpNone, ImpPreload,
         ImpSkip, ImpFinish, ImpAck, ImpError, tables
<1>. QED
  BY <1>1, <1>2, <1>3, <1>4, <1>5, <1>6, ConfirmedOnTheWay DEF ConfirmInv, JobsConfirmed

LEMMA ApiConfirmed ==
    ASSUME NEW c \in Clients, StoreTypeOK, ApiTypeOK, ConfirmInv, UNCHANGED impVars,
           Request(c) \/ Handle(c) \/ ApiError(c) \/ ApiCrash(c)
    PROVE  ConfirmInv'
<1>1. RequestsInOrder' /\ RequestsKept
  BY ApiRequestsInOrder DEF ConfirmInv
<1>2. UNCHANGED importStalled
  BY DEF Request, Upload, Confirm, Cancel, Delete, DeleteAll, Handle, EnqueueCsv, QueueEvent,
         MarkFailed, Recheck, DropKey, Load, PutKey, EnqueueImport, WriteCancel, DropErrors,
         DropRecords, DropRows, DropBatches, ApiError, ApiCrash, queues
<1>3. \A i \in DOMAIN importQueue' : Genuine(importQueue[i])'
  <2>1. CASE EnqueueImport(c)
    <3>. PICK job : job = [batch |-> reqBatch[c], actor |-> ActorOf[c],
                           nr |-> importJobs + 1, stalls |-> 0]
      OBVIOUS
    <3>1. job \in ImportJob
      BY ClientAssumption DEF ApiTypeOK, StoreTypeOK, ImportJob
    <3>2. Genuine(job)'
      <4>1. /\ reqOp'[c] = "confirm" /\ reqBatch'[c] = reqBatch[c]
            /\ reqNr'[c] = importJobs + 1 /\ importJobs + 1 # 0
        BY <2>1 DEF EnqueueImport, ConfirmInv, RequestsInOrder, ConfirmSteps, ApiTypeOK,
             StoreTypeOK
      <4>. QED
        BY <4>1 DEF Genuine, Confirmed
    <3>3. importQueue' = Append(importQueue, job)
      BY <2>1 DEF EnqueueImport
    <3>4. \A i \in DOMAIN importQueue' :
              \/ i \in DOMAIN importQueue /\ importQueue'[i] = importQueue[i]
              \/ importQueue'[i] = job
      BY <3>1, <3>3, AppendProperties, LenProperties DEF StoreTypeOK
    <3>5. \A i \in DOMAIN importQueue : Genuine(importQueue[i])
      BY DEF ConfirmInv, JobsConfirmed
    <3>6. \A x : Genuine(x) => Genuine(x)'
      BY <1>1, GenuineStays
    <3>7. ASSUME NEW i \in DOMAIN importQueue' PROVE Genuine(importQueue[i])'
      <4>1. PICK x : x = importQueue'[i] /\ Genuine(x)'
        BY <3>2, <3>4, <3>5, <3>6
      <4>. QED
        BY <4>1
    <3>. QED
      BY <3>7
  <2>2. CASE UNCHANGED importQueue
    BY <1>1, <2>2, GenuineStays DEF ConfirmInv, JobsConfirmed
  <2>. QED
    BY <2>1, <2>2 DEF Request, Upload, Confirm, Cancel, Delete, DeleteAll, Handle,
         EnqueueCsv, QueueEvent, MarkFailed, Recheck, DropKey, Load, PutKey, WriteCancel,
         DropErrors, DropRecords, DropRows, DropBatches, ApiError, ApiCrash, queues
<1>4. JobsConfirmed'
  BY <1>1, <1>2, <1>3, GenuineStays DEF ConfirmInv, JobsConfirmed, impVars
<1>5. RowsValid'
  BY DEF ConfirmInv, RowsValid, impVars, ImportBatch
<1>6. records' \subseteq records
  BY DEF Request, Upload, Confirm, Cancel, Delete, DeleteAll, Handle, EnqueueCsv, QueueEvent,
         MarkFailed, Recheck, DropKey, Load, PutKey, EnqueueImport, WriteCancel, DropErrors,
         DropRecords, DropRows, DropBatches, ApiError, ApiCrash, tables
<1>7. RecordsConfirmed'
  BY <1>1, <1>6, GenuineStays DEF ConfirmInv, RecordsConfirmed
<1>. QED
  BY <1>1, <1>4, <1>5, <1>7 DEF ConfirmInv

(* A crash moves jobs to the stalled ones, a second delivery moves them    *)
(* back: neither forgets who confirmed.                                    *)
LEMMA CrashConfirmed ==
    ASSUME NEW p \in Pods, TypeOK, ConfirmInv, Crash(p)
    PROVE  ConfirmInv'
<1>1. /\ RequestsKept /\ RequestsInOrder'
      /\ UNCHANGED <<importQueue, records>>
  BY DEF Crash, RequestsKept, RequestsInOrder, reqVars, ConfirmInv, tables
<1>2. \A job \in importStalled' : Genuine(job)
  BY DEF Crash, ConfirmInv, JobsConfirmed
<1>3. \A q \in Pods : impPc'[q] # "idle" => Genuine(impJob'[q])
  BY DEF Crash, LeaveImport, GoImport, TypeOK, ImpTypeOK, ConfirmInv, JobsConfirmed
<1>4. RowsValid'
  BY DEF Crash, LeaveImport, GoImport, TypeOK, ImpTypeOK, ConfirmInv, RowsValid, ImportBatch
<1>. QED
  BY <1>1, <1>2, <1>3, <1>4, ConfirmedOnTheWay DEF ConfirmInv, JobsConfirmed, RecordsConfirmed

LEMMA RequeueConfirmed ==
    ASSUME NEW job \in importStalled, TypeOK, ConfirmInv, RequeueImport(job)
    PROVE  ConfirmInv'
<1>1. /\ RequestsKept /\ RequestsInOrder' /\ RowsValid'
      /\ UNCHANGED <<impPc, impJob, records>>
  BY DEF RequeueImport, RequestsKept, RequestsInOrder, RowsValid, reqVars, impVars,
         ConfirmInv, tables, ImportBatch
<1>2. Genuine(job)
  BY DEF ConfirmInv, JobsConfirmed
<1>3. /\ importQueue \in Seq(ImportJob) /\ Again(job) \in ImportJob
      /\ Genuine(Again(job))
  BY <1>2, AgainType DEF TypeOK, StoreTypeOK, Genuine, Confirmed
<1>4. \A i \in DOMAIN importQueue' : Genuine(importQueue'[i])
  <2>1. CASE importQueue' = <<Again(job)>> \o importQueue
    <3>. PICK again : again = Again(job)
      OBVIOUS
    <3>1. <<again>> \in Seq(ImportJob) /\ Len(<<again>>) = 1 /\ <<again>>[1] = again
      BY <1>3
    <3>2. \A i \in DOMAIN importQueue' :
              \/ importQueue'[i] = again
              \/ i - 1 \in DOMAIN importQueue /\ importQueue'[i] = importQueue[i - 1]
      BY <1>3, <2>1, <3>1, ConcatProperties, LenProperties
    <3>. QED
      BY <1>3, <3>2 DEF ConfirmInv, JobsConfirmed
  <2>2. CASE UNCHANGED importQueue
    BY <2>2 DEF ConfirmInv, JobsConfirmed
  <2>. QED
    BY <2>1, <2>2 DEF RequeueImport
<1>5. \A other \in importStalled' : Genuine(other)
  BY DEF RequeueImport, ConfirmInv, JobsConfirmed
<1>. QED
  BY <1>1, <1>4, <1>5, ConfirmedOnTheWay DEF ConfirmInv, JobsConfirmed, RecordsConfirmed

LEMMA NextConfirmed == TypeOK /\ ConfirmInv /\ [Next]_vars => ConfirmInv'
<1>. SUFFICES ASSUME TypeOK, ConfirmInv, [Next]_vars PROVE ConfirmInv'
  OBVIOUS
<1>1. StoreTypeOK /\ CsvTypeOK /\ ImpTypeOK /\ ApiTypeOK
  BY DEF TypeOK
<1>2. ASSUME NEW p \in Pods, CsvStep(p) \/ CsvError(p)
      PROVE  UNCHANGED <<importQueue, importStalled, records>>
  BY <1>2 DEF CsvStep, CsvTake, CsvFind, CsvMark, CsvRead, CsvDropErrors, CsvDropRows,
       CsvStage, CsvComplain, CsvFinish, CsvAck, CsvFail, CsvReject, CsvFailedEvent,
       CsvError, tables, queues
<1>3. ASSUME NEW p \in Pods, CsvWork(p) \/ ImportWork(p) \/ WorkerFault(p)
      PROVE  ConfirmInv'
  BY <1>1, <1>2, <1>3, ConfirmFrame, ImportConfirmed DEF CsvWork, ImportWork, WorkerFault
<1>4. ASSUME NEW c \in Clients, UserAsks(c) \/ ApiWork(c) \/ ApiMishap(c)
      PROVE  ConfirmInv'
  BY <1>1, <1>4, ApiConfirmed DEF UserAsks, ApiWork, ApiMishap
<1>5. ASSUME NEW job \in csvStalled, RequeueCsv(job) PROVE ConfirmInv'
  BY <1>5, ConfirmFrame DEF RequeueCsv, tables
<1>6. CASE Quiet \/ UNCHANGED vars
  BY <1>6, ConfirmFrame DEF Quiet, vars, tables, queues
<1>. QED
  BY <1>3, <1>4, <1>5, <1>6, CrashConfirmed, RequeueConfirmed DEF Next, Requeue

LEMMA AlwaysConfirmed == Spec => []ConfirmInv
<1>1. Init => ConfirmInv
  <2>. SUFFICES ASSUME Init PROVE ConfirmInv
    OBVIOUS
  <2>1. DOMAIN importQueue = {}
    BY DEF Init, StoreInit
  <2>. QED
    BY <2>1 DEF Init, StoreInit, ImpInit, ApiInit, ConfirmInv, RequestsInOrder, ConfirmSteps,
         JobsConfirmed, RowsValid, RecordsConfirmed
<1>. QED
  BY <1>1, TypeCorrect, NextConfirmed, PTL DEF Spec

(* Every posted record comes from a line that passed validation, and names *)
(* as its confirmer a user whose confirmation of that batch added the job: *)
(* through crashes, repeated deliveries, second parses and any race of     *)
(* confirmations with each other, with cancellations and with deletions.   *)
THEOREM PostedConfirmed == Spec => []PostedWasConfirmed
<1>1. ConfirmInv => PostedWasConfirmed
  BY DEF ConfirmInv, RecordsConfirmed, Genuine, Confirmed, PostedWasConfirmed
<1>. QED
  BY <1>1, AlwaysConfirmed, PTL

-----------------------------------------------------------------------------
(* The pipeline implements the ledger, for files whose valid lines carry a *)
(* reference: what has none can be posted twice.                           *)

FactRecords(f) == {r \in Posted(f[1]) : LineOf(r.row) = f[2]}
Approved == {b \in Batches : \E c \in Clients : reqOp[c] = "confirm" /\ reqBatch[c] = b /\ reqNr[c] # 0}
Booked == [f \in LedgerFacts |-> Cardinality(FactRecords(f))]
ForeignKeys == {Collate[x] : x \in outside}
Gone == {b \in Batches : status[b] = "deleted"}
AllNamed == \A c \in Clients : reqOp[c] = "deleteAll" => reqIds[c] = Batches
FactsReferenced == \A f \in LedgerFacts : Ref(f[1], f[2]) # NoRef

LEMMA FactType ==
    ASSUME NEW f \in LedgerFacts
    PROVE  f[1] \in Batches /\ f[2] \in Valid(f[1]) /\ f = <<f[1], f[2]>> /\ f[2] \in DOMAIN File[f[1]]
  BY DEF LedgerFacts, Valid

LEMMA BookedAlike ==
    ASSUME UNCHANGED records PROVE UNCHANGED Booked
  BY DEF Booked, FactRecords, Posted

LEMMA LedgerInit == Init => Ledger!Init
<1> SUFFICES ASSUME Init PROVE Ledger!Init
  OBVIOUS
<1>1. Approved = {}
  BY DEF Init, ApiInit, Approved
<1>2. \A f \in LedgerFacts : FactRecords(f) = {}
  BY DEF Init, StoreInit, FactRecords, Posted
<1>3. Booked = [f \in LedgerFacts |-> 0]
  BY <1>2, FS_EmptySet DEF Booked
<1>4. ForeignKeys = {Collate[x] : x \in Outside}
  BY DEF Init, StoreInit, ForeignKeys
<1>5. Gone = {}
  BY DEF Init, StoreInit, Gone
<1> QED BY <1>1, <1>3, <1>4, <1>5 DEF Ledger!Init, Approved, Booked, FactRecords, ForeignKeys, Gone

(* What a confirmation approved stays approved.                            *)
LEMMA ApprovedAlike ==
    ASSUME UNCHANGED <<reqOp, reqBatch, reqNr>> PROVE UNCHANGED Approved
  BY DEF Approved

LEMMA GoneAlike ==
    ASSUME StoreTypeOK, \A b \in Batches : status'[b] = status[b] \/ (status[b] # "deleted" /\ status'[b] # "deleted")
    PROVE  UNCHANGED Gone
  BY DEF Gone

LEMMA SetStatusGone ==
    ASSUME StoreTypeOK, NEW b \in Batches, NEW s \in BatchStatus, SetStatus(b, s)
    PROVE  UNCHANGED Gone
<1>1. \A x \in Batches : status'[x] = status[x] \/ (status[x] # "deleted" /\ status'[x] # "deleted")
  BY DEF StoreTypeOK, SetStatus, Exists, BatchStatus
<1> QED BY <1>1, GoneAlike

(* Of all steps, four touch what the ledger shows.                         *)
LEMMA ShownSteps ==
    ASSUME TypeOK, ConfirmInv, [Next]_vars
    PROVE  \/ UNCHANGED <<records, outside>> /\ UNCHANGED Approved /\ UNCHANGED Gone
           \/ \E p \in Pods : ImportWork(p) /\ ImpInsert(p)
           \/ \E c \in Clients : EnqueueImport(c) \/ DropRecords(c) \/ DropBatches(c)
<1>1. StoreTypeOK /\ CsvTypeOK /\ ImpTypeOK /\ ApiTypeOK
  BY DEF TypeOK
<1> DEFINE Calm == UNCHANGED Approved /\ UNCHANGED Gone
<1>2. ASSUME NEW p \in Pods, CsvWork(p) \/ ImportWork(p) \/ WorkerFault(p)
      PROVE  Calm
  <2>1. UNCHANGED Approved
    BY <1>2, ApprovedAlike DEF CsvWork, ImportWork, WorkerFault, reqVars
  <2>2. CASE UNCHANGED status
    BY <2>1, <2>2 DEF Gone
  <2>3. CASE CsvMark(p) \/ CsvFinish(p) \/ CsvFail(p)
    <3>1. CsvBatch(p) \in Batches
      BY <1>1, <2>3, CsvBatchType DEF CsvMark, CsvFinish, CsvFail
    <3> QED BY <1>1, <2>1, <2>3, <3>1, SetStatusGone DEF CsvMark, CsvFinish, CsvFail, BatchStatus
  <2>4. CASE \E b \in Batches : CsvFailedEvent(p, b)
    BY <1>1, <2>1, <2>4, SetStatusGone DEF CsvFailedEvent, BatchStatus
  <2>5. CASE ImpMark(p) \/ ImpNone(p) \/ ImpFinish(p)
    <3>1. ImportBatch(p) \in Batches /\ FinalStatus(p) \in BatchStatus
      BY <1>1, <2>5, ImportBatchType DEF ImpMark, ImpNone, ImpFinish, FinalStatus, BatchStatus
    <3>2. (\E s \in BatchStatus : SetStatus(ImportBatch(p), s)) \/ UNCHANGED status
      BY <2>5, <3>1 DEF ImpMark, ImpNone, ImpFinish, BatchStatus
    <3> QED BY <1>1, <2>1, <2>2, <3>1, <3>2, SetStatusGone
  <2>6. CASE CsvStep(p) \/ CsvError(p)
    BY <2>2, <2>3, <2>4, <2>6 DEF CsvStep, CsvTake, CsvFind, CsvRead, CsvDropErrors, CsvDropRows,
         CsvStage, CsvComplain, CsvAck, CsvReject, CsvError, tables
  <2>7. CASE ImpStep(p) \/ ImpError(p)
    BY <2>2, <2>5, <2>7 DEF ImpStep, ImpTake, ImpSelect, ImpPreload, ImpInsert, ImpSkip, ImpAck, ImpError, tables
  <2> QED BY <1>2, <2>6, <2>7 DEF CsvWork, ImportWork, WorkerFault
<1>3. ASSUME UNCHANGED <<status, reqVars>> PROVE Calm
  BY <1>3, ApprovedAlike DEF reqVars, Gone
<1>4. ASSUME Requeue \/ Quiet \/ UNCHANGED vars \/ \E p \in Pods : Crash(p) PROVE Calm
  BY <1>3, <1>4 DEF Requeue, RequeueCsv, RequeueImport, Quiet, vars, Crash, tables
<1>5. ASSUME NEW c \in Clients, UserAsks(c) PROVE Calm
  <2>1. /\ reqNr' = reqNr /\ reqNr[c] = 0
        /\ \A d \in Clients : d # c => reqOp'[d] = reqOp[d] /\ reqBatch'[d] = reqBatch[d]
    BY <1>1, <1>5 DEF UserAsks, Request, Upload, Confirm, Cancel, Delete, DeleteAll, Ask,
         ConfirmInv, RequestsInOrder, ApiTypeOK
  <2>2. UNCHANGED Approved
    <3>1. ASSUME NEW d \in Clients, reqNr[d] # 0
          PROVE  reqOp'[d] = reqOp[d] /\ reqBatch'[d] = reqBatch[d] /\ reqNr'[d] = reqNr[d]
      BY <2>1, <3>1
    <3> QED BY <2>1, <3>1 DEF Approved
  <2>3. CASE UNCHANGED status
    BY <2>2, <2>3 DEF Gone
  <2>4. ASSUME NEW b \in Batches, Upload(c, b) PROVE Calm
    <3>1. \A x \in Batches : status'[x] = status[x] \/ (status[x] # "deleted" /\ status'[x] # "deleted")
      BY <1>1, <2>4 DEF Upload, StoreTypeOK
    <3> QED BY <1>1, <2>2, <3>1, GoneAlike
  <2> QED BY <1>5, <2>3, <2>4 DEF UserAsks, Request, Confirm, Cancel, Delete, DeleteAll, tables
<1>6. ASSUME NEW c \in Clients, ApiMishap(c) PROVE Calm
  <2>1. UNCHANGED <<status, reqOp, reqBatch, reqNr>>
    BY <1>6 DEF ApiMishap, ApiError, ApiCrash
  <2> QED BY <2>1, ApprovedAlike DEF Gone
<1>7. ASSUME NEW c \in Clients, ApiWork(c), ~EnqueueImport(c), ~DropRecords(c), ~DropBatches(c) PROVE Calm
  <2>1. UNCHANGED <<reqOp, reqBatch, reqNr>>
    BY <1>7 DEF ApiWork, Handle, EnqueueCsv, QueueEvent, MarkFailed, Recheck, DropKey, Load, PutKey,
         WriteCancel, DropErrors, DropRows
  <2>2. UNCHANGED Approved
    BY <2>1, ApprovedAlike
  <2>3. CASE UNCHANGED status
    BY <2>2, <2>3 DEF Gone
  <2>4. CASE MarkFailed(c) \/ WriteCancel(c)
    <3>1. reqBatch[c] \in Batches
      BY <1>1 DEF ApiTypeOK
    <3> QED BY <1>1, <2>2, <2>4, <3>1, SetStatusGone DEF MarkFailed, WriteCancel, BatchStatus
  <2> QED BY <1>7, <2>3, <2>4 DEF ApiWork, Handle, EnqueueCsv, QueueEvent, Recheck, DropKey, Load, PutKey,
            DropErrors, DropRows, tables
<1>8. \/ Calm
      \/ \E c \in Clients : EnqueueImport(c) \/ DropRecords(c) \/ DropBatches(c)
  BY <1>2, <1>4, <1>5, <1>6, <1>7 DEF Next
<1> QED BY <1>8, LedgerSteps

LEMMA LedgerStep == TypeOK /\ ConfirmInv /\ AllNamed /\ FactsReferenced /\ [Next]_vars => [Ledger!Next]_(Ledger!vars)
<1> SUFFICES ASSUME TypeOK, ConfirmInv, AllNamed, FactsReferenced, [Next]_vars PROVE [Ledger!Next]_(Ledger!vars)
  OBVIOUS
<1> DEFINE Abstract == \/ UNCHANGED Approved /\ UNCHANGED Booked /\ UNCHANGED ForeignKeys /\ UNCHANGED Gone
<1>1. StoreTypeOK /\ CsvTypeOK /\ ImpTypeOK /\ ApiTypeOK
  BY DEF TypeOK
<1>2. CASE UNCHANGED <<records, outside>> /\ UNCHANGED Approved /\ UNCHANGED Gone
  <2>1. UNCHANGED Booked /\ UNCHANGED ForeignKeys
    BY <1>2, BookedAlike DEF ForeignKeys
  <2> QED BY <1>2, <2>1 DEF Ledger!vars, Approved, Booked, FactRecords, ForeignKeys, Gone
<1>3. ASSUME NEW c \in Clients, EnqueueImport(c) PROVE Ledger!Next
  <2>1. /\ reqOp[c] = "confirm" /\ reqBatch[c] \in Batches /\ reqNr[c] = 0
        /\ reqNr' = [reqNr EXCEPT ![c] = importJobs + 1] /\ importJobs \in Nat
        /\ UNCHANGED <<reqOp, reqBatch, records, outside, status>>
    BY <1>1, <1>3 DEF EnqueueImport, ConfirmInv, RequestsInOrder, ConfirmSteps, ApiTypeOK, StoreTypeOK, tables
  <2>2. reqNr'[c] # 0 /\ \A d \in Clients : d # c => reqNr'[d] = reqNr[d]
    BY <1>1, <2>1 DEF ApiTypeOK
  <2>3. Approved' = Approved \cup {reqBatch[c]}
    BY <2>1, <2>2 DEF Approved
  <2>4. UNCHANGED Booked /\ UNCHANGED ForeignKeys /\ UNCHANGED Gone
    BY <2>1, BookedAlike DEF ForeignKeys, Gone
  <2>5. PICK b \in Batches : b = reqBatch[c]
    BY <2>1
  <2>6. Ledger!Approve(b)
    BY <2>3, <2>4, <2>5 DEF Ledger!Approve, Approved, Booked, FactRecords, ForeignKeys, Gone
  <2> QED BY <2>6 DEF Ledger!Next
<1>4. ASSUME NEW c \in Clients, DropBatches(c) PROVE [Ledger!Next]_(Ledger!vars)
  <2>1. UNCHANGED <<records, outside, reqOp, reqBatch, reqNr>> /\ reqIds[c] \subseteq Batches
    BY <1>1, <1>4 DEF DropBatches, ApiTypeOK
  <2>2. UNCHANGED Booked /\ UNCHANGED ForeignKeys /\ UNCHANGED Approved
    BY <2>1, BookedAlike, ApprovedAlike DEF ForeignKeys
  <2>3. CASE UNCHANGED status
    <3>1. UNCHANGED Gone
      BY <2>3 DEF Gone
    <3> QED BY <2>2, <3>1 DEF Ledger!vars, Approved, Booked, FactRecords, ForeignKeys, Gone
  <2>4. CASE /\ \A b \in reqIds[c] : ~InUse(b)
             /\ status' = [b \in Batches |-> IF b \in reqIds[c] /\ Exists(b) THEN "deleted" ELSE status[b]]
    <3> DEFINE ids == {b \in reqIds[c] : Exists(b)}
    <3>1. Gone' = Gone \cup ids
      BY <2>1, <2>4 DEF Gone, Exists
    <3>2. ASSUME NEW f \in LedgerFacts, f[1] \in ids PROVE Booked[f] = 0
      <4>1. FactRecords(f) = {}
        BY <2>4, <3>2 DEF InUse, FactRecords
      <4> QED BY <4>1, FS_EmptySet DEF Booked
    <3>3. PICK s \in SUBSET Batches : s = ids
      BY <2>1
    <3>4. Ledger!Remove(s)
      BY <2>2, <3>1, <3>2, <3>3 DEF Ledger!Remove, Ledger!BatchOf, Approved, Booked, FactRecords, ForeignKeys, Gone
    <3> QED BY <3>4 DEF Ledger!Next
  <2> QED BY <1>4, <2>3, <2>4 DEF DropBatches
<1>5. ASSUME NEW c \in Clients, DropRecords(c) PROVE Ledger!Next
  <2>1. /\ UNCHANGED <<status, reqOp, reqBatch, reqNr>> /\ reqIds[c] \in SUBSET Batches
        /\ records' = {r \in records : r.job.batch \notin reqIds[c]}
        /\ outside' = IF reqOp[c] = "deleteAll" THEN {} ELSE outside
    BY <1>1, <1>5 DEF DropRecords, ApiTypeOK
  <2>2. UNCHANGED Approved /\ UNCHANGED Gone
    BY <2>1, ApprovedAlike DEF Gone
  <2>3. Booked' = [f \in LedgerFacts |-> IF f[1] \in reqIds[c] THEN 0 ELSE Booked[f]]
    <3>1. ASSUME NEW f \in LedgerFacts
          PROVE  Booked'[f] = IF f[1] \in reqIds[c] THEN 0 ELSE Booked[f]
      <4>1. FactRecords(f)' = IF f[1] \in reqIds[c] THEN {} ELSE FactRecords(f)
        BY <2>1 DEF FactRecords, Posted
      <4> QED BY <4>1, FS_EmptySet DEF Booked
    <3> QED BY <3>1 DEF Booked
  <2>4. UNCHANGED ForeignKeys \/ (reqIds[c] = Batches /\ ForeignKeys' = {})
    BY <2>1 DEF AllNamed, ForeignKeys
  <2>5. PICK ids \in SUBSET Batches : ids = reqIds[c]
    BY <2>1
  <2>6. Ledger!Unbook(ids)
    BY <2>2, <2>3, <2>4, <2>5 DEF Ledger!Unbook, Ledger!BatchOf, Approved, Booked, FactRecords, ForeignKeys, Gone
  <2> QED BY <2>6 DEF Ledger!Next
<1>6. ASSUME NEW p \in Pods, ImportWork(p), ImpInsert(p) PROVE Ledger!Next
  <2>1. PICK b, row : b = ImportBatch(p) /\ row = NextRow(p)
    OBVIOUS
  <2>2. PICK f : f = <<b, LineOf(row)>>
    OBVIOUS
  <2>3. PICK new : new = [job |-> impJob[p], row |-> row]
    OBVIOUS
  <2>4. /\ impPc[p] = "insert" /\ impLeft[p] # {} /\ Insertable(b, row)
        /\ records' = records \cup {new} /\ UNCHANGED <<outside, status, reqVars>>
    BY <1>1, <1>6, <2>1, <2>3 DEF ImpInsert, ImportWork, ImpTypeOK
  <2>5. new.job.batch = b /\ new.row = row /\ b \in Batches
    BY <1>1, <2>1, <2>3, <2>4, ImportBatchType DEF ImportBatch
  <2>6. LineOf(row) \in Valid(b)
    BY <1>1, <2>1, <2>4, NextRowMember DEF ConfirmInv, RowsValid
  <2>7. f \in LedgerFacts /\ f[1] = b /\ f[2] = LineOf(row)
    BY <2>2, <2>5, <2>6 DEF LedgerFacts
  <2>8. b \in Approved
    BY <2>1, <2>4, <2>5 DEF ConfirmInv, JobsConfirmed, Genuine, Confirmed, Approved, ImportBatch
  <2>9. b \notin Gone
    BY <2>4 DEF Insertable, Exists, Gone
  <2>10. Ref(b, f[2]) # NoRef /\ Collate[Ref(b, f[2])] \notin TakenKeys
    BY <2>4, <2>7 DEF Insertable, Taken, FactsReferenced
  <2>11. ASSUME NEW g \in LedgerFacts, FactRecords(g) # {}
         PROVE  Collate[Ref(g[1], g[2])] \in TakenKeys
    <3>1. PICK r \in records : r.job.batch = g[1] /\ LineOf(r.row) = g[2]
      BY <2>11 DEF FactRecords, Posted
    <3>2. RecordRef(r) = Ref(g[1], g[2]) /\ RecordRef(r) # NoRef
      BY <3>1 DEF RecordRef, FactsReferenced
    <3> QED BY <3>1, <3>2 DEF TakenKeys
  <2>12. FactRecords(f) = {} /\ Booked[f] = 0
    <3>1. FactRecords(f) = {}
      BY <2>7, <2>10, <2>11
    <3> QED BY <2>7, <3>1, FS_EmptySet DEF Booked
  <2>13. \A g \in LedgerFacts : LedgerKey[g] = Collate[Ref(g[1], g[2])]
    BY DEF LedgerKey, FactsReferenced
  <2>14. LedgerKey[f] \notin ForeignKeys
    BY <2>7, <2>10, <2>13 DEF ForeignKeys, TakenKeys
  <2>15. ASSUME NEW g \in LedgerFacts, Booked[g] > 0 PROVE LedgerKey[g] # LedgerKey[f]
    <3>1. FactRecords(g) # {}
      BY <2>15, FS_EmptySet DEF Booked
    <3> QED BY <2>7, <2>10, <2>11, <2>13, <3>1
  <2>16. Booked' = [Booked EXCEPT ![f] = 1]
    <3>1. FactRecords(f)' = {new}
      BY <2>4, <2>5, <2>7, <2>12 DEF FactRecords, Posted
    <3>2. ASSUME NEW g \in LedgerFacts, g # f PROVE FactRecords(g)' = FactRecords(g)
      <4>1. ~(g[1] = b /\ g[2] = LineOf(row))
        BY <2>2, <3>2, FactType
      <4> QED BY <2>4, <2>5, <4>1 DEF FactRecords, Posted
    <3> QED BY <2>7, <3>1, <3>2, FS_Singleton DEF Booked
  <2>17. UNCHANGED Approved /\ UNCHANGED ForeignKeys /\ UNCHANGED Gone
    BY <2>4, ApprovedAlike DEF ForeignKeys, Gone, reqVars
  <2>18. Ledger!Free(f)
    BY <2>14, <2>15 DEF Ledger!Free, Approved, Booked, FactRecords, ForeignKeys, Gone
  <2>19. Ledger!Book(f)
    BY <2>7, <2>8, <2>9, <2>12, <2>16, <2>17, <2>18
       DEF Ledger!Book, Ledger!BatchOf, Approved, Booked, FactRecords, ForeignKeys, Gone
  <2> QED BY <2>7, <2>19 DEF Ledger!Next
<1> QED BY <1>2, <1>3, <1>4, <1>5, <1>6, ShownSteps

LEMMA AlwaysNamed == Spec => []AllNamed
<1>1. Init => AllNamed
  BY DEF Init, ApiInit, AllNamed
<1>2. TypeOK /\ AllNamed /\ [Next]_vars => AllNamed'
  <2> SUFFICES ASSUME TypeOK, AllNamed, [Next]_vars PROVE AllNamed'
    OBVIOUS
  <2>1. ApiTypeOK
    BY DEF TypeOK
  <2>2. CASE UNCHANGED <<reqOp, reqIds>>
    BY <2>2 DEF AllNamed
  <2>3. ASSUME NEW c \in Clients, Request(c) PROVE AllNamed'
    <3>1. ASSUME NEW b \in Batches, Upload(c, b) \/ Confirm(c, b) \/ Cancel(c, b) PROVE AllNamed'
      BY <2>1, <3>1 DEF Upload, Confirm, Cancel, Ask, AllNamed, ApiTypeOK
    <3>2. ASSUME NEW ids \in SUBSET Batches, Delete(c, ids) PROVE AllNamed'
      BY <2>1, <3>2 DEF Delete, Ask, AllNamed, ApiTypeOK
    <3>3. CASE DeleteAll(c)
      BY <2>1, <3>3 DEF DeleteAll, Ask, AllNamed, ApiTypeOK
    <3> QED BY <2>3, <3>1, <3>2, <3>3 DEF Request
  <2>4. ASSUME NEW c \in Clients, ApiWork(c) \/ ApiMishap(c) PROVE AllNamed'
    BY <2>2, <2>4 DEF ApiWork, ApiMishap, ApiError, ApiCrash, Handle, EnqueueCsv, QueueEvent, MarkFailed, Recheck,
         DropKey, Load, PutKey, EnqueueImport, WriteCancel, DropErrors, DropRecords, DropRows, DropBatches
  <2>5. ASSUME NEW p \in Pods, CsvWork(p) \/ ImportWork(p) \/ WorkerFault(p) \/ Crash(p) PROVE AllNamed'
    BY <2>2, <2>5 DEF CsvWork, ImportWork, WorkerFault, Crash, reqVars
  <2>6. CASE Requeue \/ Quiet \/ UNCHANGED vars
    BY <2>2, <2>6 DEF Requeue, RequeueCsv, RequeueImport, Quiet, vars, reqVars
  <2> QED BY <2>3, <2>4, <2>5, <2>6 DEF Next, UserAsks
<1> QED BY <1>1, <1>2, TypeCorrect, PTL DEF Spec

(* Of files whose valid lines carry a reference, every fact is booked once,*)
(* approved first, and under a key that nobody else has: the handlers of   *)
(* the API and the workers of any number of pods, crashing and repeating   *)
(* themselves, do what the ledger promises and nothing else.               *)
THEOREM PipelineImplementsLedger ==
    ASSUME \A b \in Batches : \A l \in Valid(b) : Ref(b, l) # NoRef
    PROVE  Spec => ImplementsLedger
<1>1. FactsReferenced
  BY FactType DEF FactsReferenced
<1> HIDE DEF FactsReferenced
<1> QED
  BY <1>1, LedgerInit, LedgerStep, TypeCorrect, AlwaysConfirmed, AlwaysNamed, PTL
     DEF Spec, ImplementsLedger, Ledger!Spec

-----------------------------------------------------------------------------
(* One delivery of a csv job at a time. *)

(* Where a batch's csv job can be: still to be added by its upload, in the *)
(* queue, stalled, or in the hands of a pod.                               *)
Adding(b) == {c \in Clients : reqPc[c] = "enqueueCsv" /\ reqBatch[c] = b}
Waiting(b) == {i \in DOMAIN csvQueue : csvQueue[i].batch = b}
Stalled(b) == {job \in csvStalled : job.batch = b}
Parsing(b) == {p \in Pods : csvPc[p] # "idle" /\ CsvBatch(p) = b}

Lone(S) == \A x, y \in S : x = y

OneJob(b) ==
    /\ Lone(Adding(b)) /\ Lone(Waiting(b)) /\ Lone(Stalled(b)) /\ Lone(Parsing(b))
    /\ Adding(b) # {} => Waiting(b) = {} /\ Stalled(b) = {} /\ Parsing(b) = {}
    /\ Waiting(b) # {} => Stalled(b) = {} /\ Parsing(b) = {}
    /\ Stalled(b) # {} => Parsing(b) = {}
NoCsvJob(b) == Adding(b) = {} /\ Waiting(b) = {} /\ Stalled(b) = {} /\ Parsing(b) = {}

OneCsvJob == \A b \in Batches : OneJob(b) /\ (status[b] = "unborn" => NoCsvJob(b))

(* How a step may change what a batch reads.                               *)
Marks(b) ==
    \/ status'[b] = status[b]
    \/ status[b] = "unborn" /\ status'[b] = "pending"
    \/ status'[b] \in {"processing", "failed", "cancelled", "deleted"} /\ Exists(b)
    \/ status'[b] = "validated" /\ Exists(b) /\ \E p \in Pods : CsvWork(p) /\ CsvFinish(p) /\ CsvBatch(p) = b
    \/ status'[b] = "importing" /\ status[b] \in Importable
    \/ status'[b] \in {"imported", "partially_imported"} /\ Exists(b)
         /\ \E p \in Pods : ImportWork(p) /\ (ImpNone(p) \/ ImpFinish(p)) /\ ImportBatch(p) = b

LEMMA SetMarks ==
    ASSUME StoreTypeOK, NEW b \in Batches, NEW s \in BatchStatus, SetStatus(b, s), NEW x \in Batches
    PROVE  status'[x] = status[x] \/ (x = b /\ Exists(b) /\ status'[x] = s)
  BY DEF StoreTypeOK, SetStatus

LEMMA StatusSteps ==
    ASSUME TypeOK, [Next]_vars, NEW b \in Batches
    PROVE  Marks(b)
<1>1. StoreTypeOK /\ CsvTypeOK /\ ImpTypeOK /\ ApiTypeOK
  BY DEF TypeOK
<1>2. CASE UNCHANGED status
  BY <1>2 DEF Marks
<1>3. ASSUME NEW p \in Pods, CsvMark(p) \/ CsvFail(p) \/ \E x \in Batches : CsvFailedEvent(p, x) PROVE Marks(b)
  <2>1. PICK x \in Batches, s \in {"processing", "failed"} : SetStatus(x, s)
    BY <1>1, <1>3, CsvBatchType DEF CsvMark, CsvFail, CsvFailedEvent
  <2> QED BY <1>1, <2>1, SetMarks DEF Marks, BatchStatus
<1>4. ASSUME NEW p \in Pods, CsvWork(p), CsvFinish(p) PROVE Marks(b)
  <2>1. CsvBatch(p) \in Batches /\ SetStatus(CsvBatch(p), "validated")
    BY <1>1, <1>4, CsvBatchType DEF CsvFinish
  <2> QED BY <1>1, <1>4, <2>1, SetMarks DEF Marks, BatchStatus
<1>5. ASSUME NEW p \in Pods, ImpMark(p) PROVE Marks(b)
  <2>1. ImportBatch(p) \in Batches
    BY <1>1, <1>5, ImportBatchType DEF ImpMark
  <2>2. UNCHANGED status \/ (status[ImportBatch(p)] \in Importable /\ SetStatus(ImportBatch(p), "importing"))
    BY <1>5 DEF ImpMark
  <2> QED BY <1>1, <1>2, <2>1, <2>2, SetMarks DEF Marks, BatchStatus
<1>6. ASSUME NEW p \in Pods, ImportWork(p), ImpNone(p) \/ ImpFinish(p) PROVE Marks(b)
  <2>1. ImportBatch(p) \in Batches
    BY <1>1, <1>6, ImportBatchType DEF ImpNone, ImpFinish
  <2>2. PICK s \in {"imported", "partially_imported"} : SetStatus(ImportBatch(p), s)
    BY <1>6 DEF ImpNone, ImpFinish, FinalStatus
  <2> QED BY <1>1, <1>6, <2>1, <2>2, SetMarks DEF Marks, BatchStatus
<1>7. ASSUME NEW c \in Clients, NEW x \in Batches, Upload(c, x) PROVE Marks(b)
  BY <1>1, <1>7 DEF Upload, StoreTypeOK, Marks
<1>8. ASSUME NEW c \in Clients, MarkFailed(c) \/ WriteCancel(c) PROVE Marks(b)
  <2>1. reqBatch[c] \in Batches /\ \E s \in {"failed", "cancelled"} : SetStatus(reqBatch[c], s)
    BY <1>1, <1>8 DEF MarkFailed, WriteCancel, ApiTypeOK
  <2> QED BY <1>1, <2>1, SetMarks DEF Marks, BatchStatus
<1>9. ASSUME NEW c \in Clients, DropBatches(c) PROVE Marks(b)
  BY <1>1, <1>9 DEF DropBatches, StoreTypeOK, Marks
<1>10. ASSUME NEW p \in Pods, CsvWork(p) \/ ImportWork(p) \/ WorkerFault(p) \/ Crash(p) PROVE Marks(b)
  <2>1. CASE CsvWork(p)
    BY <1>2, <1>3, <1>4, <2>1 DEF CsvWork, CsvStep, CsvTake, CsvFind, CsvRead, CsvDropErrors, CsvDropRows,
         CsvStage, CsvComplain, CsvAck, CsvReject, tables
  <2>2. CASE ImportWork(p)
    BY <1>2, <1>5, <1>6, <2>2 DEF ImportWork, ImpStep, ImpTake, ImpSelect, ImpPreload, ImpInsert, ImpSkip, ImpAck, tables
  <2>3. CASE WorkerFault(p) \/ Crash(p)
    BY <1>2, <2>3 DEF WorkerFault, Crash, CsvError, ImpError, tables
  <2> QED BY <1>10, <2>1, <2>2, <2>3
<1>11. ASSUME NEW c \in Clients, UserAsks(c) \/ ApiWork(c) \/ ApiMishap(c) PROVE Marks(b)
  <2>1. CASE UserAsks(c)
    BY <1>2, <1>7, <2>1 DEF UserAsks, Request, Confirm, Cancel, Delete, DeleteAll, tables
  <2>2. CASE ApiWork(c)
    BY <1>2, <1>8, <1>9, <2>2 DEF ApiWork, Handle, EnqueueCsv, QueueEvent, Recheck, DropKey, Load, PutKey,
         EnqueueImport, DropErrors, DropRecords, DropRows, tables
  <2>3. CASE ApiMishap(c)
    BY <1>2, <2>3 DEF ApiMishap, ApiError, ApiCrash
  <2> QED BY <1>11, <2>1, <2>2, <2>3
<1>12. CASE Requeue \/ Quiet \/ UNCHANGED vars
  BY <1>2, <1>12 DEF Requeue, RequeueCsv, RequeueImport, Quiet, vars, tables
<1> QED BY <1>10, <1>11, <1>12 DEF Next

LEMMA UnbornStays ==
    ASSUME TypeOK, [Next]_vars, NEW b \in Batches, status'[b] = "unborn"
    PROVE  status[b] = "unborn"
  BY StatusSteps DEF Marks

(* The steps that neither add nor move a csv job.                          *)
LEMMA JobsShrink ==
    ASSUME TypeOK, OneCsvJob, [Next]_vars, UNCHANGED <<csvQueue, csvStalled>>,
           \A b \in Batches : Adding(b)' \subseteq Adding(b) /\ Parsing(b)' \subseteq Parsing(b)
    PROVE  OneCsvJob'
<1>1. ASSUME NEW b \in Batches PROVE OneJob(b)' /\ (status'[b] = "unborn" => NoCsvJob(b)')
  <2>1. Waiting(b)' = Waiting(b) /\ Stalled(b)' = Stalled(b)
    BY DEF Waiting, Stalled
  <2>2. OneJob(b) /\ (status'[b] = "unborn" => NoCsvJob(b))
    BY UnbornStays DEF OneCsvJob
  <2>3. OneJob(b)'
    BY <2>1, <2>2 DEF OneJob, Lone
  <2>4. status'[b] = "unborn" => NoCsvJob(b)'
    BY <2>1, <2>2 DEF NoCsvJob
  <2> QED BY <2>3, <2>4
<1> QED BY <1>1 DEF OneCsvJob

LEMMA AddingAlike ==
    ASSUME UNCHANGED <<reqPc, reqBatch>>, NEW b PROVE Adding(b)' = Adding(b)
  BY DEF Adding
LEMMA ParsingAlike ==
    ASSUME UNCHANGED <<csvPc, csvJob>>, NEW b PROVE Parsing(b)' = Parsing(b)
  BY DEF Parsing, CsvBatch

LEMMA LeaveParses ==
    ASSUME NEW p \in Pods, CsvTypeOK, LeaveCsv(p), NEW b \in Batches
    PROVE  Parsing(b)' = Parsing(b) \ {p}
  BY DEF LeaveCsv, GoCsv, CsvTypeOK, Parsing, CsvBatch

LEMMA MoveParses ==
    ASSUME NEW p \in Pods, CsvTypeOK, csvPc[p] # "idle", csvJob' = csvJob, NEW b,
           UNCHANGED csvPc \/ \E step \in CsvSteps : GoCsv(p, step)
    PROVE  Parsing(b)' = Parsing(b)
  BY DEF GoCsv, CsvSteps, CsvTypeOK, Parsing, CsvBatch

LEMMA CsvParses ==
    ASSUME NEW p \in Pods, CsvTypeOK, CsvStep(p) \/ CsvError(p), ~CsvTake(p), NEW b \in Batches
    PROVE  Parsing(b)' \subseteq Parsing(b) /\ UNCHANGED <<csvQueue, csvStalled>>
<1>1. UNCHANGED <<csvQueue, csvStalled>>
  BY DEF CsvStep, CsvFind, CsvMark, CsvRead, CsvDropErrors, CsvDropRows, CsvStage, CsvComplain, CsvFinish,
         CsvAck, CsvFail, CsvReject, CsvFailedEvent, CsvError, queues
<1>2. CASE LeaveCsv(p)
  BY <1>2, LeaveParses, <1>1
<1>3. CASE UNCHANGED <<csvPc, csvJob>>
  BY <1>1, <1>3, ParsingAlike
<1>4. ASSUME AfterStaging(p) PROVE \E step \in CsvSteps : GoCsv(p, step)
  BY <1>4 DEF AfterStaging, CsvSteps
<1>5. CASE /\ csvPc[p] # "idle" /\ csvJob' = csvJob
           /\ UNCHANGED csvPc \/ \E step \in CsvSteps : GoCsv(p, step)
  BY <1>1, <1>5, MoveParses
<1>6. CASE CsvFind(p) \/ CsvAck(p) \/ CsvReject(p) \/ CsvError(p) \/ \E x \in Batches : CsvFailedEvent(p, x)
  BY <1>2, <1>3, <1>5, <1>6 DEF CsvFind, CsvAck, CsvReject, CsvError, CsvThrow, CsvFailedEvent, CsvSteps
<1>7. CASE CsvMark(p) \/ CsvRead(p) \/ CsvDropErrors(p) \/ CsvFinish(p) \/ CsvFail(p)
  BY <1>5, <1>7 DEF CsvMark, CsvRead, CsvDropErrors, CsvFinish, CsvFail, CsvSteps
<1>8. CASE CsvDropRows(p)
  BY <1>4, <1>5, <1>8 DEF CsvDropRows, CsvSteps
<1>9. CASE CsvStage(p)
  BY <1>4, <1>5, <1>9 DEF CsvStage, CsvSteps
<1>10. CASE CsvComplain(p)
  BY <1>5, <1>10 DEF CsvComplain, CsvSteps
<1> QED BY <1>6, <1>7, <1>8, <1>9, <1>10 DEF CsvStep

LEMMA TakeKeepsOne ==
    ASSUME TypeOK, OneCsvJob, [Next]_vars, NEW p \in Pods, CsvWork(p), CsvTake(p)
    PROVE  OneCsvJob'
<1>1. StoreTypeOK /\ CsvTypeOK
  BY DEF TypeOK
<1>2. PICK job : job = Head(csvQueue)
  OBVIOUS
<1>3. /\ csvQueue \in Seq(CsvJob) /\ csvQueue # <<>> /\ csvQueue' = Tail(csvQueue) /\ csvPc[p] = "idle"
      /\ csvPc' = [csvPc EXCEPT ![p] = "find"] /\ csvJob' = [csvJob EXCEPT ![p] = job]
      /\ UNCHANGED <<csvStalled, reqPc, reqBatch>>
  BY <1>1, <1>2 DEF StoreTypeOK, CsvTake, GoCsv, CsvWork, reqVars
<1>4. 1 \in DOMAIN csvQueue /\ job = csvQueue[1]
  BY <1>2, <1>3, LenProperties, EmptySeq
<1>5. \A i \in DOMAIN csvQueue' : i \in Nat /\ i + 1 \in DOMAIN csvQueue /\ csvQueue'[i] = csvQueue[i + 1]
  BY <1>3, HeadTailProperties, LenProperties
<1>6. ASSUME NEW b \in Batches PROVE OneJob(b)' /\ (status'[b] = "unborn" => NoCsvJob(b)')
  <2>1. OneJob(b) /\ (status'[b] = "unborn" => NoCsvJob(b))
    BY UnbornStays DEF OneCsvJob
  <2>2. Adding(b)' = Adding(b) /\ Stalled(b)' = Stalled(b)
    BY <1>3, AddingAlike DEF Stalled
  <2>3. \A i \in Waiting(b)' : i \in Nat /\ i + 1 \in Waiting(b)
    BY <1>5 DEF Waiting
  <2>4. CASE job.batch = b
    <3>1. 1 \in Waiting(b)
      BY <1>4, <2>4 DEF Waiting
    <3>2. Waiting(b)' = {}
      <4>1. ASSUME NEW i \in Waiting(b)' PROVE FALSE
        <5>1. i + 1 = 1 /\ i \in Nat
          BY <2>1, <2>3, <3>1 DEF OneJob, Lone
        <5>2. i \in DOMAIN csvQueue'
          BY DEF Waiting
        <5>3. Tail(csvQueue) \in Seq(CsvJob)
          BY <1>3, HeadTailProperties
        <5>4. i >= 1
          BY <1>3, <5>2, <5>3, LenProperties
        <5> QED BY <5>1, <5>4
      <4> QED BY <4>1
    <3>3. Parsing(b)' = Parsing(b) \cup {p}
      BY <1>1, <1>3, <2>4 DEF Parsing, CsvBatch, CsvTypeOK
    <3>4. Adding(b) = {} /\ Stalled(b) = {} /\ Parsing(b) = {}
      BY <2>1, <3>1 DEF OneJob
    <3> QED BY <2>1, <2>2, <3>1, <3>2, <3>3, <3>4 DEF OneJob, NoCsvJob, Lone
  <2>5. CASE job.batch # b
    <3>1. Parsing(b)' = Parsing(b)
      BY <1>1, <1>3, <2>5 DEF Parsing, CsvBatch, CsvTypeOK
    <3>2. Waiting(b) = {} => Waiting(b)' = {}
      BY <2>3
    <3>3. Lone(Waiting(b)')
      <4>1. ASSUME NEW i \in Waiting(b)', NEW j \in Waiting(b)' PROVE i = j
        <5>1. i + 1 = j + 1
          BY <2>1, <2>3 DEF OneJob, Lone
        <5> QED BY <2>3, <5>1
      <4> QED BY <4>1 DEF Lone
    <3> QED BY <2>1, <2>2, <3>1, <3>2, <3>3 DEF OneJob, NoCsvJob
  <2> QED BY <2>4, <2>5
<1> QED BY <1>6 DEF OneCsvJob

LEMMA EnqueueKeepsOne ==
    ASSUME TypeOK, OneCsvJob, [Next]_vars, NEW c \in Clients, EnqueueCsv(c), UNCHANGED csvVars
    PROVE  OneCsvJob'
<1>1. StoreTypeOK /\ ApiTypeOK
  BY DEF TypeOK
<1>2. PICK job : job = [batch |-> reqBatch[c], stalls |-> 0]
  OBVIOUS
<1>3. /\ csvQueue \in Seq(CsvJob) /\ job \in CsvJob /\ csvQueue' = Append(csvQueue, job) /\ reqPc[c] = "enqueueCsv"
      /\ reqPc' = [reqPc EXCEPT ![c] = "queueEvent"] /\ UNCHANGED <<csvStalled, csvPc, csvJob, reqBatch>>
  BY <1>1, <1>2 DEF StoreTypeOK, ApiTypeOK, EnqueueCsv, Go, CsvJob, csvVars
<1>4. PICK n : n = Len(csvQueue) + 1
  OBVIOUS
<1>5. \A i \in DOMAIN csvQueue' : (i \in DOMAIN csvQueue /\ csvQueue'[i] = csvQueue[i]) \/ (i = n /\ csvQueue'[i] = job)
  BY <1>3, <1>4, AppendProperties, LenProperties
<1>6. job.batch = reqBatch[c]
  BY <1>2
<1>7. ASSUME NEW b \in Batches PROVE OneJob(b)' /\ (status'[b] = "unborn" => NoCsvJob(b)')
  <2>1. OneJob(b) /\ (status'[b] = "unborn" => NoCsvJob(b))
    BY UnbornStays DEF OneCsvJob
  <2>2. Parsing(b)' = Parsing(b) /\ Stalled(b)' = Stalled(b)
    BY <1>3, ParsingAlike DEF Stalled
  <2>3. Adding(b)' = Adding(b) \ {c}
    BY <1>1, <1>3 DEF Adding, ApiTypeOK
  <2>4. CASE reqBatch[c] = b
    <3>1. c \in Adding(b)
      BY <1>3, <2>4 DEF Adding
    <3>2. Waiting(b) = {} /\ Stalled(b) = {} /\ Parsing(b) = {} /\ Adding(b)' = {}
      BY <2>1, <2>3, <3>1 DEF OneJob, Lone
    <3>3. Waiting(b)' \subseteq {n}
      BY <1>5, <3>2 DEF Waiting
    <3> QED BY <2>1, <2>2, <3>1, <3>2, <3>3 DEF OneJob, NoCsvJob, Lone
  <2>5. CASE reqBatch[c] # b
    <3>1. Waiting(b)' \subseteq Waiting(b)
      BY <1>5, <1>6, <2>5 DEF Waiting
    <3>2. OneJob(b)'
      BY <2>1, <2>2, <2>3, <3>1 DEF OneJob, Lone
    <3>3. NoCsvJob(b) => NoCsvJob(b)'
      BY <2>2, <2>3, <3>1 DEF NoCsvJob
    <3> QED BY <2>1, <3>2, <3>3
  <2> QED BY <2>4, <2>5
<1> QED BY <1>7 DEF OneCsvJob

LEMMA UploadKeepsOne ==
    ASSUME TypeOK, OneCsvJob, [Next]_vars, NEW c \in Clients, NEW x \in Batches, Upload(c, x), UNCHANGED csvVars
    PROVE  OneCsvJob'
<1>1. /\ status[x] = "unborn" /\ status'[x] = "pending" /\ reqPc[c] = "new"
      /\ reqPc' = [reqPc EXCEPT ![c] = "enqueueCsv"] /\ reqBatch' = [reqBatch EXCEPT ![c] = x]
      /\ UNCHANGED <<csvQueue, csvStalled, csvPc, csvJob>> /\ ApiTypeOK
  BY DEF Upload, Ask, Go, queues, csvVars, TypeOK, StoreTypeOK
<1>2. ASSUME NEW b \in Batches PROVE OneJob(b)' /\ (status'[b] = "unborn" => NoCsvJob(b)')
  <2>1. OneJob(b) /\ (status[b] = "unborn" => NoCsvJob(b)) /\ (status'[b] = "unborn" => status[b] = "unborn")
    BY UnbornStays DEF OneCsvJob
  <2>2. Parsing(b)' = Parsing(b) /\ Stalled(b)' = Stalled(b) /\ Waiting(b)' = Waiting(b)
    BY <1>1, ParsingAlike DEF Stalled, Waiting
  <2>3. CASE b = x
    <3>1. Adding(b)' \subseteq Adding(b) \cup {c} /\ NoCsvJob(b)
      BY <1>1, <2>1, <2>3 DEF Adding, ApiTypeOK
    <3> QED BY <1>1, <2>2, <2>3, <3>1 DEF OneJob, NoCsvJob, Lone
  <2>4. CASE b # x
    <3>1. Adding(b)' = Adding(b)
      BY <1>1, <2>4 DEF Adding, ApiTypeOK
    <3> QED BY <2>1, <2>2, <3>1 DEF OneJob, NoCsvJob
  <2> QED BY <2>3, <2>4
<1> QED BY <1>2 DEF OneCsvJob

LEMMA CrashKeepsOne ==
    ASSUME TypeOK, OneCsvJob, [Next]_vars, NEW p \in Pods, Crash(p)
    PROVE  OneCsvJob'
<1>1. /\ CsvTypeOK /\ LeaveCsv(p) /\ UNCHANGED <<csvQueue, reqPc, reqBatch>>
      /\ csvStalled' = IF csvPc[p] = "idle" THEN csvStalled ELSE csvStalled \cup {csvJob[p]}
  BY DEF Crash, TypeOK, reqVars
<1>2. ASSUME NEW b \in Batches PROVE OneJob(b)' /\ (status'[b] = "unborn" => NoCsvJob(b)')
  <2>1. OneJob(b) /\ (status'[b] = "unborn" => NoCsvJob(b))
    BY UnbornStays DEF OneCsvJob
  <2>2. Adding(b)' = Adding(b) /\ Waiting(b)' = Waiting(b) /\ Parsing(b)' = Parsing(b) \ {p}
    BY <1>1, AddingAlike, LeaveParses DEF Waiting
  <2>3. CASE p \in Parsing(b)
    <3>1. Adding(b) = {} /\ Waiting(b) = {} /\ Stalled(b) = {} /\ Parsing(b)' = {}
      BY <2>1, <2>2, <2>3 DEF OneJob, Lone
    <3>2. Stalled(b)' \subseteq {csvJob[p]}
      BY <1>1, <3>1 DEF Stalled
    <3> QED BY <2>1, <2>2, <2>3, <3>1, <3>2 DEF OneJob, NoCsvJob, Lone
  <2>4. CASE p \notin Parsing(b)
    <3>1. Stalled(b)' = Stalled(b)
      BY <1>1, <2>4 DEF Stalled, Parsing, CsvBatch
    <3> QED BY <2>1, <2>2, <2>4, <3>1 DEF OneJob, NoCsvJob, Lone
  <2> QED BY <2>3, <2>4
<1> QED BY <1>2 DEF OneCsvJob

LEMMA RequeueKeepsOne ==
    ASSUME TypeOK, OneCsvJob, [Next]_vars, NEW job \in csvStalled, RequeueCsv(job)
    PROVE  OneCsvJob'
<1>1. StoreTypeOK
  BY DEF TypeOK
<1>2. PICK again : again = Again(job)
  OBVIOUS
<1>3. /\ csvStalled' = csvStalled \ {job} /\ csvQueue \in Seq(CsvJob) /\ job \in CsvJob
      /\ csvQueue' = <<again>> \o csvQueue \/ csvQueue' = csvQueue
      /\ UNCHANGED <<csvPc, csvJob, reqPc, reqBatch>>
  BY <1>1, <1>2 DEF RequeueCsv, StoreTypeOK, reqVars
<1>4. again \in CsvJob /\ again.batch = job.batch
  BY <1>2, <1>3, AgainType DEF Again, CsvJob
<1>5. CASE csvQueue' = csvQueue
  <2>1. ASSUME NEW b \in Batches PROVE OneJob(b)' /\ (status'[b] = "unborn" => NoCsvJob(b)')
    <3>1. OneJob(b) /\ (status'[b] = "unborn" => NoCsvJob(b))
      BY UnbornStays DEF OneCsvJob
    <3>2. Adding(b)' = Adding(b) /\ Waiting(b)' = Waiting(b) /\ Parsing(b)' = Parsing(b) /\ Stalled(b)' \subseteq Stalled(b)
      BY <1>3, <1>5, AddingAlike, ParsingAlike DEF Waiting, Stalled
    <3> QED BY <3>1, <3>2 DEF OneJob, NoCsvJob, Lone
  <2> QED BY <2>1 DEF OneCsvJob
<1>6. CASE csvQueue' = <<again>> \o csvQueue
  <2>1. <<again>> \in Seq(CsvJob) /\ Len(<<again>>) = 1 /\ <<again>>[1] = again
    BY <1>4
  <2>2. \A i \in DOMAIN csvQueue' :
            \/ i = 1 /\ csvQueue'[i] = again
            \/ i \in Nat /\ i - 1 \in DOMAIN csvQueue /\ csvQueue'[i] = csvQueue[i - 1]
    BY <1>3, <1>6, <2>1, ConcatProperties, LenProperties
  <2>3. ASSUME NEW b \in Batches PROVE OneJob(b)' /\ (status'[b] = "unborn" => NoCsvJob(b)')
    <3>1. OneJob(b) /\ (status'[b] = "unborn" => NoCsvJob(b))
      BY UnbornStays DEF OneCsvJob
    <3>2. Adding(b)' = Adding(b) /\ Parsing(b)' = Parsing(b) /\ Stalled(b)' = Stalled(b) \ {job}
      BY <1>3, AddingAlike, ParsingAlike DEF Stalled
    <3>3. CASE job.batch = b
      <4>1. job \in Stalled(b)
        BY <3>3 DEF Stalled
      <4>2. Adding(b) = {} /\ Waiting(b) = {} /\ Parsing(b) = {} /\ Stalled(b)' = {}
        BY <3>1, <3>2, <4>1 DEF OneJob, Lone
      <4>3. Waiting(b)' \subseteq {1}
        BY <2>2, <4>2 DEF Waiting
      <4> QED BY <3>1, <3>2, <4>1, <4>2, <4>3 DEF OneJob, NoCsvJob, Lone
    <3>4. CASE job.batch # b
      <4>1. \A i \in Waiting(b)' : i \in Nat /\ i - 1 \in Waiting(b)
        BY <1>4, <2>2, <3>4 DEF Waiting
      <4>2. Waiting(b) = {} => Waiting(b)' = {}
        BY <4>1
      <4>3. Lone(Waiting(b)')
        <5>1. ASSUME NEW i \in Waiting(b)', NEW j \in Waiting(b)' PROVE i = j
          <6>1. i - 1 = j - 1
            BY <3>1, <4>1 DEF OneJob, Lone
          <6> QED BY <4>1, <6>1
        <5> QED BY <5>1 DEF Lone
      <4>4. Stalled(b)' = Stalled(b)
        BY <3>2, <3>4 DEF Stalled
      <4> QED BY <3>1, <3>2, <4>2, <4>3, <4>4 DEF OneJob, NoCsvJob
    <3> QED BY <3>3, <3>4
  <2> QED BY <2>3 DEF OneCsvJob
<1> QED BY <1>3, <1>5, <1>6

LEMMA LeftKeepsOne ==
    ASSUME TypeOK, OneCsvJob, [Next]_vars, NEW p \in Pods, CsvStep(p) \/ CsvError(p), ~CsvTake(p),
           UNCHANGED <<reqPc, reqBatch>>
    PROVE  OneCsvJob'
<1>1. CsvTypeOK
  BY DEF TypeOK
<1>2. PICK x : x \in Batches
  BY BatchAssumption
<1>3. UNCHANGED <<csvQueue, csvStalled>>
  BY <1>1, <1>2, CsvParses
<1>4. ASSUME NEW b \in Batches PROVE Adding(b)' \subseteq Adding(b) /\ Parsing(b)' \subseteq Parsing(b)
  <2>1. Parsing(b)' \subseteq Parsing(b)
    BY <1>1, CsvParses
  <2>2. Adding(b)' = Adding(b)
    BY AddingAlike
  <2> QED BY <2>1, <2>2
<1> QED BY <1>3, <1>4, JobsShrink

LEMMA NextKeepsOne == TypeOK /\ OneCsvJob /\ [Next]_vars => OneCsvJob'
<1> SUFFICES ASSUME TypeOK, OneCsvJob, [Next]_vars PROVE OneCsvJob'
  OBVIOUS
<1>1. StoreTypeOK /\ CsvTypeOK /\ ImpTypeOK /\ ApiTypeOK
  BY DEF TypeOK
<1>2. ASSUME UNCHANGED <<csvQueue, csvStalled, csvPc, csvJob>>, \A b \in Batches : Adding(b)' \subseteq Adding(b) PROVE OneCsvJob'
  BY <1>2, ParsingAlike, JobsShrink
<1>3. ASSUME NEW p \in Pods, CsvWork(p) PROVE OneCsvJob'
  <2>1. CASE CsvTake(p)
    BY <1>3, <2>1, TakeKeepsOne
  <2>2. CASE ~CsvTake(p)
    <3>1. UNCHANGED <<reqPc, reqBatch>> /\ CsvStep(p)
      BY <1>3 DEF CsvWork, reqVars
    <3> QED BY <1>1, <2>2, <3>1, LeftKeepsOne
  <2> QED BY <2>1, <2>2
<1>4. ASSUME NEW p \in Pods, WorkerFault(p) PROVE OneCsvJob'
  <2>1. UNCHANGED <<reqPc, reqBatch>>
    BY <1>4 DEF WorkerFault, reqVars
  <2>2. CASE CsvError(p)
    <3>1. CASE CsvTake(p)
      BY <2>2, <3>1 DEF CsvTake, CsvError, queues, StoreTypeOK, GoCsv, CsvSteps, LeaveCsv, CsvThrow
    <3> QED BY <1>1, <2>1, <2>2, <3>1, LeftKeepsOne
  <2>3. CASE ImpError(p) /\ UNCHANGED csvVars
    BY <1>2, <2>1, <2>3, AddingAlike DEF ImpError, queues, csvVars
  <2> QED BY <1>4, <2>2, <2>3 DEF WorkerFault
<1>5. ASSUME NEW p \in Pods, ImportWork(p) PROVE OneCsvJob'
  BY <1>2, <1>5, AddingAlike DEF ImportWork, ImpStep, ImpTake, ImpMark, ImpSelect, ImpNone, ImpPreload, ImpInsert,
     ImpSkip, ImpFinish, ImpAck, queues, csvVars, reqVars
<1>6. ASSUME NEW c \in Clients, UserAsks(c) PROVE OneCsvJob'
  <2>1. UNCHANGED csvVars
    BY <1>6 DEF UserAsks
  <2>2. ASSUME NEW x \in Batches, Upload(c, x) PROVE OneCsvJob'
    BY <2>1, <2>2, UploadKeepsOne
  <2>3. ASSUME ~\E x \in Batches : Upload(c, x) PROVE OneCsvJob'
    <3>1. /\ UNCHANGED queues /\ reqPc[c] = "new"
          /\ \A d \in Clients : d # c => reqBatch'[d] = reqBatch[d]
          /\ \E step \in {"recheck", "load", "writeCancel", "error", "dropErrors"} : Go(c, step)
      BY <1>1, <1>6, <2>3 DEF UserAsks, Request, Confirm, Cancel, Delete, DeleteAll, Ask, ApiTypeOK
    <3>2. \A b \in Batches : Adding(b)' \subseteq Adding(b)
      BY <1>1, <3>1 DEF Adding, Go, ApiTypeOK
    <3> QED BY <1>2, <2>1, <3>1, <3>2 DEF queues, csvVars
  <2> QED BY <2>2, <2>3
<1>7. ASSUME NEW c \in Clients, ApiWork(c) \/ ApiMishap(c) PROVE OneCsvJob'
  <2>1. UNCHANGED csvVars
    BY <1>7 DEF ApiWork, ApiMishap
  <2>2. CASE EnqueueCsv(c)
    BY <2>1, <2>2, EnqueueKeepsOne
  <2>3. CASE ~EnqueueCsv(c)
    <3>1. UNCHANGED <<csvQueue, csvStalled, reqBatch>>
      BY <1>7, <2>3 DEF ApiWork, ApiMishap, ApiError, ApiCrash, Handle, QueueEvent, MarkFailed, Recheck, DropKey, Load,
         PutKey, EnqueueImport, WriteCancel, DropErrors, DropRecords, DropRows, DropBatches, queues
    <3>2. PICK step : Go(c, step) /\ step # "enqueueCsv"
      BY <1>7, <2>3 DEF ApiWork, ApiMishap, ApiError, ApiCrash, Handle, QueueEvent, MarkFailed, Recheck, DropKey, Load,
         PutKey, EnqueueImport, WriteCancel, DropErrors, DropRecords, DropRows, DropBatches
    <3>3. \A b \in Batches : Adding(b)' \subseteq Adding(b)
      BY <1>1, <3>1, <3>2 DEF Adding, Go, ApiTypeOK
    <3> QED BY <1>2, <2>1, <3>1, <3>3 DEF csvVars
  <2> QED BY <2>2, <2>3
<1>8. ASSUME NEW job \in importStalled, RequeueImport(job) PROVE OneCsvJob'
  BY <1>2, <1>8, AddingAlike DEF RequeueImport, csvVars, reqVars
<1>9. CASE Quiet \/ UNCHANGED vars
  BY <1>2, <1>9, AddingAlike DEF Quiet, vars, queues, csvVars, reqVars
<1> QED BY <1>3, <1>4, <1>5, <1>6, <1>7, <1>8, <1>9, CrashKeepsOne, RequeueKeepsOne DEF Next, Requeue

LEMMA AlwaysOneJob == Spec => []OneCsvJob
<1>1. Init => OneCsvJob
  <2> SUFFICES ASSUME Init PROVE OneCsvJob
    OBVIOUS
  <2>1. DOMAIN csvQueue = {}
    BY DEF Init, StoreInit
  <2> QED BY <2>1 DEF Init, StoreInit, CsvInit, ApiInit, OneCsvJob, OneJob, NoCsvJob, Adding, Waiting, Stalled, Parsing, Lone
<1> QED BY <1>1, TypeCorrect, NextKeepsOne, PTL DEF Spec

-----------------------------------------------------------------------------
(* A batch that reads "validated" is whole. *)

Lines(b) == {LineOf(row) : row \in staged[b]}
Once(b) == \A x, y \in staged[b] : LineOf(x) = LineOf(y) => x = y

(* What a run has staged so far, unless a deletion took it away.           *)
Reading == {"read", "dropErrors", "dropRows", "stage", "complain", "finish", "fail", "reject"}
RunInOrder(p) ==
    /\ csvPc[p] \in Reading => status[CsvBatch(p)] # "validated"
    /\ csvPc[p] = "stage" /\ ~RowsDropped(CsvBatch(p)) =>
           Lines(CsvBatch(p)) = 1 .. (csvRow[p][2] - 1)
    /\ csvPc[p] \in {"complain", "finish"} /\ ~RowsDropped(CsvBatch(p)) =>
           Lines(CsvBatch(p)) = DOMAIN File[CsvBatch(p)]
BatchInOrder(b) ==
    /\ Once(b)
    /\ status[b] = "validated" /\ ~RowsDropped(b) => Lines(b) = DOMAIN File[b]

StagedInOrder == (\A p \in Pods : RunInOrder(p)) /\ (\A b \in Batches : BatchInOrder(b))

LEMMA DropSticks ==
    ASSUME TypeOK, [Next]_vars, NEW b \in Batches, RowsDropped(b)
    PROVE  RowsDropped(b)'
<1>1. PICK c \in Clients : b \in reqIds[c] /\ reqPc[c] \in {"dropBatches", "removed", "error"}
  BY DEF RowsDropped
<1>2. CASE UNCHANGED reqVars
  BY <1>2 DEF reqVars, RowsDropped
<1>3. ASSUME NEW d \in Clients, UserAsks(d) \/ ApiWork(d) \/ ApiMishap(d)
      PROVE  reqIds'[c] = reqIds[c] /\ reqPc'[c] \in {"dropBatches", "removed", "error"}
  <2>1. ApiTypeOK
    BY DEF TypeOK
  <2>2. CASE UserAsks(d)
    BY <1>1, <2>1, <2>2 DEF UserAsks, Request, Upload, Confirm, Cancel, Delete, DeleteAll, Ask, Go, ApiTypeOK
  <2>3. CASE ApiWork(d) /\ DropBatches(d)
    BY <1>1, <2>1, <2>3 DEF DropBatches, Go, ApiTypeOK
  <2>4. CASE ApiWork(d) /\ ~DropBatches(d)
    <3>1. d # c /\ UNCHANGED reqIds
      BY <1>1, <2>4 DEF ApiWork, Handle, EnqueueCsv, QueueEvent, MarkFailed, Recheck, DropKey, Load, PutKey,
           EnqueueImport, WriteCancel, DropErrors, DropRecords, DropRows
    <3>2. PICK step : Go(d, step)
      BY <2>4 DEF ApiWork, Handle, EnqueueCsv, QueueEvent, MarkFailed, Recheck, DropKey, Load, PutKey,
           EnqueueImport, WriteCancel, DropErrors, DropRecords, DropRows
    <3> QED BY <1>1, <2>1, <3>1, <3>2 DEF Go, ApiTypeOK
  <2>5. CASE ApiMishap(d)
    BY <1>1, <2>1, <2>5 DEF ApiMishap, ApiError, ApiCrash, Go, ApiTypeOK
  <2> QED BY <1>3, <2>2, <2>3, <2>4, <2>5
<1>4. ASSUME NEW d \in Clients, UserAsks(d) \/ ApiWork(d) \/ ApiMishap(d) PROVE RowsDropped(b)'
  BY <1>1, <1>3, <1>4 DEF RowsDropped
<1>5. ASSUME NEW p \in Pods, CsvWork(p) \/ ImportWork(p) \/ WorkerFault(p) \/ Crash(p) PROVE UNCHANGED reqVars
  BY <1>5 DEF CsvWork, ImportWork, WorkerFault, Crash
<1>6. CASE Requeue \/ Quiet \/ UNCHANGED vars
  BY <1>2, <1>6 DEF Requeue, RequeueCsv, RequeueImport, Quiet, vars
<1> QED BY <1>2, <1>4, <1>5, <1>6 DEF Next

(* Only a run of b and a deletion that names b touch the rows of b.        *)
Undisturbed(b) ==
    /\ RowsDropped(b) => RowsDropped(b)'
    /\ staged'[b] = staged[b] \/ (RowsDropped(b)' /\ staged'[b] = {})
    /\ status'[b] = "validated" => status[b] = "validated"

LEMMA RunUndisturbed ==
    ASSUME NEW p \in Pods, CsvTypeOK, RunInOrder(p),
           csvPc'[p] = csvPc[p], csvJob'[p] = csvJob[p], csvRow'[p] = csvRow[p],
           \A b \in Batches : csvPc[p] # "idle" /\ CsvBatch(p) = b => Undisturbed(b)
    PROVE  RunInOrder(p)'
<1>1. CASE csvPc[p] = "idle"
  BY <1>1 DEF RunInOrder, Reading
<1>2. CASE csvPc[p] # "idle"
  <2>1. PICK b \in Batches : CsvBatch(p) = b
    BY <1>2, CsvBatchType
  <2>2. CsvBatch(p)' = b
    BY <2>1 DEF CsvBatch
  <2>3. Undisturbed(b)
    BY <1>2, <2>1
  <2>4. ~RowsDropped(b)' => Lines(b)' = Lines(b) /\ ~RowsDropped(b)
    BY <2>3 DEF Undisturbed, Lines
  <2>5. status'[b] = "validated" => status[b] = "validated"
    BY <2>3 DEF Undisturbed
  <2> QED BY <2>1, <2>2, <2>4, <2>5 DEF RunInOrder
<1> QED BY <1>1, <1>2

LEMMA BatchUndisturbed ==
    ASSUME NEW b \in Batches, BatchInOrder(b), Undisturbed(b)
    PROVE  BatchInOrder(b)'
<1>1. Once(b)'
  BY DEF BatchInOrder, Undisturbed, Once
<1>2. ~RowsDropped(b)' => Lines(b)' = Lines(b) /\ ~RowsDropped(b)
  BY DEF Undisturbed, Lines
<1> QED BY <1>1, <1>2 DEF BatchInOrder, Undisturbed

LEMMA BatchAlike ==
    ASSUME TypeOK, [Next]_vars, NEW b \in Batches, staged'[b] = staged[b], status'[b] = status[b]
    PROVE  Undisturbed(b)
  BY DropSticks DEF Undisturbed

(* What may happen to the rows of b in a step.                             *)
LEMMA StagedSteps ==
    ASSUME TypeOK, [Next]_vars, NEW b \in Batches
    PROVE  \/ staged'[b] = staged[b]
           \/ RowsDropped(b)' /\ staged'[b] = {}
           \/ \E p \in Pods : CsvWork(p) /\ (CsvDropRows(p) \/ CsvStage(p)) /\ CsvBatch(p) = b
<1> DEFINE Goal == \/ staged'[b] = staged[b]
                   \/ RowsDropped(b)' /\ staged'[b] = {}
                   \/ \E p \in Pods : CsvWork(p) /\ (CsvDropRows(p) \/ CsvStage(p)) /\ CsvBatch(p) = b
<1>1. StoreTypeOK /\ CsvTypeOK /\ ApiTypeOK
  BY DEF TypeOK
<1>2. CASE UNCHANGED staged
  BY <1>2
<1>3. ASSUME NEW p \in Pods, CsvWork(p) PROVE Goal
  <2>1. CASE CsvDropRows(p) \/ CsvStage(p)
    <3>1. CASE CsvBatch(p) = b
      BY <1>3, <2>1, <3>1
    <3>2. CASE CsvBatch(p) # b
      BY <1>1, <2>1, <3>2 DEF CsvDropRows, CsvStage, StoreTypeOK
    <3> QED BY <3>1, <3>2
  <2> QED BY <1>2, <1>3, <2>1 DEF CsvWork, CsvStep, CsvTake, CsvFind, CsvMark, CsvRead, CsvDropErrors,
         CsvComplain, CsvFinish, CsvAck, CsvFail, CsvReject, CsvFailedEvent, tables
<1>4. ASSUME NEW c \in Clients, UserAsks(c) \/ ApiWork(c) \/ ApiMishap(c) PROVE Goal
  <2>1. CASE DropRows(c)
    BY <1>1, <2>1 DEF DropRows, Go, ApiTypeOK, RowsDropped
  <2> QED BY <1>2, <1>4, <2>1 DEF UserAsks, Request, Upload, Confirm, Cancel, Delete, DeleteAll, ApiWork, Handle,
         EnqueueCsv, QueueEvent, MarkFailed, Recheck, DropKey, Load, PutKey, EnqueueImport, WriteCancel,
         DropErrors, DropRecords, DropBatches, ApiMishap, ApiError, ApiCrash, tables
<1>5. ASSUME NEW p \in Pods, ImportWork(p) \/ WorkerFault(p) \/ Crash(p) PROVE UNCHANGED staged
  BY <1>5 DEF ImportWork, ImpStep, ImpTake, ImpMark, ImpSelect, ImpNone, ImpPreload, ImpInsert, ImpSkip, ImpFinish,
     ImpAck, WorkerFault, CsvError, ImpError, Crash, tables
<1>6. CASE Requeue \/ Quiet \/ UNCHANGED vars
  BY <1>2, <1>6 DEF Requeue, RequeueCsv, RequeueImport, Quiet, vars, tables
<1> QED BY <1>2, <1>3, <1>4, <1>5, <1>6 DEF Next

(* The steps of another process than the run of p leave what it relies on. *)
LEMMA OthersUndisturb ==
    ASSUME TypeOK, [Next]_vars, NEW b \in Batches,
           \A p \in Pods : CsvWork(p) => csvPc[p] = "idle" \/ CsvBatch(p) # b \/ \E x \in Batches : CsvFailedEvent(p, x)
    PROVE  Undisturbed(b)
<1>1. RowsDropped(b) => RowsDropped(b)'
  BY DropSticks
<1>2. status'[b] = "validated" => status[b] = "validated"
  <2>1. ASSUME NEW p \in Pods, CsvWork(p), CsvFinish(p), CsvBatch(p) = b PROVE FALSE
    BY <2>1 DEF CsvFinish, CsvFailedEvent
  <2> QED BY <2>1, StatusSteps DEF Marks
<1>3. ASSUME NEW p \in Pods, CsvWork(p), CsvDropRows(p) \/ CsvStage(p), CsvBatch(p) = b PROVE FALSE
  BY <1>3 DEF CsvDropRows, CsvStage, CsvFailedEvent
<1> QED BY <1>1, <1>2, <1>3, StagedSteps DEF Undisturbed

LEMMA PodUndisturbs ==
    ASSUME TypeOK, [Next]_vars, NEW p \in Pods, CsvWork(p), NEW b \in Batches,
           csvPc[p] = "idle" \/ CsvBatch(p) # b \/ \E x \in Batches : CsvFailedEvent(p, x)
    PROVE  Undisturbed(b)
<1>1. RowsDropped(b) => RowsDropped(b)'
  BY DropSticks
<1>2. StoreTypeOK /\ CsvTypeOK
  BY DEF TypeOK
<1>3. staged'[b] = staged[b]
  <2>1. CASE CsvDropRows(p) \/ CsvStage(p)
    <3>1. CsvBatch(p) # b
      BY <2>1 DEF CsvDropRows, CsvStage, CsvFailedEvent
    <3> QED BY <1>2, <2>1, <3>1 DEF CsvDropRows, CsvStage, StoreTypeOK
  <2> QED BY <2>1 DEF CsvWork, CsvStep, CsvTake, CsvFind, CsvMark, CsvRead, CsvDropErrors,
         CsvComplain, CsvFinish, CsvAck, CsvFail, CsvReject, CsvFailedEvent, tables
<1>4. status'[b] = "validated" => status[b] = "validated"
  <2>1. CASE CsvFinish(p)
    <3>1. CsvBatch(p) # b
      BY <1>2, <2>1 DEF CsvFinish, CsvFailedEvent, GoCsv, CsvTypeOK
    <3>2. SetStatus(CsvBatch(p), "validated") /\ CsvBatch(p) \in Batches
      BY <1>2, <2>1, CsvBatchType DEF CsvFinish
    <3> QED BY <1>2, <3>1, <3>2, SetMarks DEF BatchStatus
  <2>2. CASE CsvMark(p) \/ CsvFail(p) \/ \E x \in Batches : CsvFailedEvent(p, x)
    <3>1. PICK x \in Batches, s \in {"processing", "failed"} : SetStatus(x, s)
      BY <1>2, <2>2, CsvBatchType DEF CsvMark, CsvFail, CsvFailedEvent
    <3> QED BY <1>2, <3>1, SetMarks DEF BatchStatus
  <2>3. CASE UNCHANGED status
    BY <2>3
  <2> QED BY <2>1, <2>2, <2>3 DEF CsvWork, CsvStep, CsvTake, CsvFind, CsvRead, CsvDropErrors, CsvDropRows, CsvStage,
         CsvComplain, CsvAck, CsvReject, tables
<1> QED BY <1>1, <1>3, <1>4 DEF Undisturbed

(* A run's own step keeps its batch in order.                              *)
LEMMA RunAdvances ==
    ASSUME TypeOK, NEW p \in Pods, NEW b \in Batches, csvPc[p] # "idle", CsvBatch(p) = b,
           RunInOrder(p), BatchInOrder(b), CsvWork(p), ~\E x \in Batches : CsvFailedEvent(p, x)
    PROVE  RunInOrder(p)' /\ BatchInOrder(b)'
<1>1. StoreTypeOK /\ CsvTypeOK
  BY DEF TypeOK
<1>2. RowsDropped(b)' = RowsDropped(b)
  BY DEF CsvWork, reqVars, RowsDropped
<1>3. ASSUME UNCHANGED csvJob PROVE CsvBatch(p)' = b
  BY <1>3 DEF CsvBatch
<1>4. CASE UNCHANGED <<status, staged>>
  <2>1. BatchInOrder(b)' /\ Lines(b)' = Lines(b)
    BY <1>2, <1>4 DEF BatchInOrder, Once, Lines
  <2>2. CASE CsvFind(p) \/ CsvAck(p) \/ CsvReject(p)
    <3>1. csvPc'[p] \in {"mark", "idle"}
      BY <1>1, <2>2 DEF CsvFind, CsvAck, CsvReject, CsvThrow, LeaveCsv, GoCsv, CsvTypeOK
    <3> QED BY <2>1, <3>1 DEF RunInOrder, Reading
  <2>3. CASE CsvRead(p) \/ CsvDropErrors(p) \/ (CsvDropRows(p) /\ csvPc'[p] = "fail")
    <3>1. csvPc[p] \in Reading /\ csvPc'[p] \in {"dropErrors", "dropRows", "fail"} /\ UNCHANGED csvJob
      BY <1>1, <2>3 DEF CsvRead, CsvDropErrors, CsvDropRows, GoCsv, CsvTypeOK, Reading
    <3> QED BY <1>3, <1>4, <2>1, <3>1 DEF RunInOrder
  <2>4. CASE CsvComplain(p)
    <3>1. csvPc[p] = "complain" /\ csvPc'[p] \in {"complain", "finish", "fail"} /\ UNCHANGED csvJob
      BY <1>1, <2>4 DEF CsvComplain, GoCsv, CsvTypeOK
    <3> QED BY <1>2, <1>3, <1>4, <2>1, <3>1 DEF RunInOrder, Reading
  <2>5. CASE CsvStage(p) /\ csvPc'[p] = "fail"
    <3>1. csvPc[p] \in Reading /\ UNCHANGED csvJob
      BY <2>5 DEF CsvStage, Reading
    <3> QED BY <1>3, <1>4, <2>1, <2>5, <3>1 DEF RunInOrder
  <2>6. CASE CsvMark(p) \/ CsvFinish(p) \/ CsvFail(p)
    <3>1. /\ csvPc'[p] \in {"read", "ack", "reject"} /\ UNCHANGED csvJob
          /\ csvPc'[p] \in {"read", "reject"} => ~Exists(b) \/ status'[b] \in {"processing", "failed"}
      BY <1>1, <2>6 DEF CsvMark, CsvFinish, CsvFail, GoCsv, CsvTypeOK, SetStatus, StoreTypeOK
    <3> QED BY <1>3, <1>4, <2>1, <3>1 DEF RunInOrder, Reading, Exists
  <2>7. CASE CsvStage(p) /\ csvPc'[p] # "fail"
    <3>1. <<csvRow[p][1], csvRow[p][2]>> \notin staged[b]
      BY <1>1, <2>7 DEF CsvStage, Stageable, CsvRowId, LineOf, GoCsv, CsvTypeOK
    <3> QED BY <1>1, <1>4, <2>7, <3>1 DEF CsvStage, CsvRowId, GoCsv, CsvTypeOK, StoreTypeOK
  <2>8. CASE CsvDropRows(p) /\ csvPc'[p] # "fail"
    <3>1. staged[b] = {} /\ status[b] # "validated" /\ UNCHANGED csvJob
      BY <1>1, <1>4, <2>8 DEF CsvDropRows, GoCsv, CsvTypeOK, StoreTypeOK, RunInOrder, Reading
    <3>2. Lines(b) = {}
      BY <3>1 DEF Lines
    <3>3. csvPc'[p] = "stage" => csvRow'[p][2] = 1
      BY <1>1, <2>8 DEF CsvDropRows, GoCsv, CsvTypeOK, AfterStaging
    <3>4. csvPc'[p] \in {"complain", "finish"} => DOMAIN File[b] = {}
      BY <1>1, <2>8 DEF CsvDropRows, GoCsv, CsvTypeOK
    <3>5. csvPc'[p] = "stage" => 1 .. (csvRow'[p][2] - 1) = {}
      BY <3>3
    <3> QED BY <1>3, <1>4, <2>1, <3>1, <3>2, <3>4, <3>5 DEF RunInOrder
  <2> QED BY <2>2, <2>3, <2>4, <2>5, <2>6, <2>7, <2>8 DEF CsvWork, CsvStep, CsvTake
<1>5. CASE CsvMark(p) \/ CsvFail(p)
  <2>1. /\ csvPc'[p] \in {"read", "reject"} /\ UNCHANGED <<csvJob, staged>>
        /\ status'[b] # "validated"
    BY <1>1, <1>5 DEF CsvMark, CsvFail, GoCsv, CsvTypeOK, SetStatus, StoreTypeOK, Exists
  <2> QED BY <1>3, <2>1 DEF RunInOrder, BatchInOrder, Once
<1>6. CASE CsvFinish(p)
  <2>1. csvPc[p] = "finish" /\ csvPc'[p] = "ack" /\ UNCHANGED <<csvJob, staged>>
    BY <1>1, <1>6 DEF CsvFinish, GoCsv, CsvTypeOK
  <2>2. ~RowsDropped(b) => Lines(b)' = DOMAIN File[b]
    BY <2>1 DEF RunInOrder, Lines
  <2> QED BY <1>2, <2>1, <2>2 DEF RunInOrder, BatchInOrder, Once, Reading
<1>7. CASE CsvDropRows(p) /\ csvPc'[p] # "fail"
  <2>1. staged'[b] = {} /\ status'[b] # "validated" /\ UNCHANGED csvJob
    BY <1>1, <1>7 DEF CsvDropRows, GoCsv, CsvTypeOK, StoreTypeOK, RunInOrder, Reading
  <2>2. Lines(b)' = {}
    BY <2>1 DEF Lines
  <2>3. csvPc'[p] = "stage" => csvRow'[p][2] = 1
    BY <1>1, <1>7 DEF CsvDropRows, GoCsv, CsvTypeOK, AfterStaging
  <2>4. csvPc'[p] \in {"complain", "finish"} => DOMAIN File[b] = {}
    BY <1>1, <1>7 DEF CsvDropRows, GoCsv, CsvTypeOK
  <2>5. csvPc'[p] = "stage" => 1 .. (csvRow'[p][2] - 1) = {}
    BY <2>3
  <2>6. RunInOrder(p)'
    BY <1>3, <2>1, <2>2, <2>4, <2>5 DEF RunInOrder
  <2> QED BY <2>1, <2>6 DEF BatchInOrder, Once
<1>8. CASE CsvStage(p) /\ csvPc'[p] # "fail"
  <2> DEFINE l == csvRow[p][2]
             row == CsvRowId(p)
  <2>1. /\ staged'[b] = staged[b] \cup {row} /\ UNCHANGED <<status, csvJob>>
        /\ \A other \in staged[b] : LineOf(other) # l
        /\ LineOf(row) = l
        /\ IF l = Len(File[b]) THEN AfterStaging(p) ELSE SetCsvLine(p, l + 1) /\ UNCHANGED csvPc
        /\ csvPc[p] = "stage"
    BY <1>1, <1>8 DEF CsvStage, Stageable, CsvRowId, LineOf, GoCsv, CsvTypeOK, StoreTypeOK
  <2>2. Once(b)'
    BY <2>1 DEF BatchInOrder, Once
  <2>3. Lines(b)' = Lines(b) \cup {l}
    BY <2>1 DEF Lines
  <2>4. File[b] \in Seq(Line) /\ l \in 1 .. Len(File[b]) /\ l \in Nat
    BY <1>1, <2>1, FileAssumption DEF CsvTypeOK
  <2>5. ~RowsDropped(b) => Lines(b)' = 1 .. l
    <3>1. ~RowsDropped(b) => Lines(b) = 1 .. (l - 1)
      BY <2>1 DEF RunInOrder
    <3> HIDE DEF l
    <3> QED BY <2>3, <2>4, <3>1
  <2>6. status'[b] # "validated"
    BY <2>1 DEF RunInOrder, Reading
  <2>7. BatchInOrder(b)'
    BY <2>2, <2>6 DEF BatchInOrder
  <2>8. CASE l = Len(File[b])
    <3>1. csvPc'[p] \in {"complain", "finish"}
      BY <1>1, <2>1, <2>8 DEF AfterStaging, GoCsv, CsvTypeOK
    <3>2. ~RowsDropped(b) => Lines(b)' = DOMAIN File[b]
      BY <2>4, <2>5, <2>8
    <3> QED BY <1>2, <1>3, <2>1, <2>6, <2>7, <3>1, <3>2 DEF RunInOrder
  <2>9. CASE l # Len(File[b])
    <3>1. csvPc'[p] = "stage" /\ csvRow'[p][2] = l + 1
      BY <1>1, <2>1, <2>9 DEF SetCsvLine, CsvTypeOK
    <3>2. l = csvRow'[p][2] - 1
      BY <2>4, <3>1
    <3>3. ~RowsDropped(b) => Lines(b)' = 1 .. (csvRow'[p][2] - 1)
      BY <2>5, <3>2
    <3> QED BY <1>2, <1>3, <2>1, <2>6, <2>7, <3>1, <3>3 DEF RunInOrder
  <2> QED BY <2>8, <2>9
<1>9. CASE CsvDropRows(p) \/ CsvStage(p)
  <2>1. csvPc'[p] = "fail" => UNCHANGED <<status, staged>>
    BY <1>1, <1>9 DEF CsvDropRows, CsvStage, AfterStaging, GoCsv, CsvTypeOK
  <2> QED BY <1>4, <1>7, <1>8, <1>9, <2>1
<1>10. CASE UNCHANGED <<status, staged>> \/ CsvMark(p) \/ CsvFail(p) \/ CsvFinish(p) \/ CsvDropRows(p) \/ CsvStage(p)
  BY <1>4, <1>5, <1>6, <1>9, <1>10
<1>11. CASE CsvFind(p) \/ CsvRead(p) \/ CsvDropErrors(p) \/ CsvComplain(p) \/ CsvAck(p) \/ CsvReject(p) \/ CsvTake(p)
  BY <1>4, <1>11 DEF CsvFind, CsvRead, CsvDropErrors, CsvComplain, CsvAck, CsvReject, CsvTake, tables
<1> QED BY <1>10, <1>11 DEF CsvWork, CsvStep

(* A run that starts has read nothing; one that throws or is killed leaves; *)
(* an error sends it to its catch block.                                    *)
LEMMA RunBreaksOff ==
    ASSUME TypeOK, NEW p \in Pods, RunInOrder(p), UNCHANGED <<status, staged, reqVars>>,
           CsvTake(p) \/ CsvError(p) \/ LeaveCsv(p)
    PROVE  RunInOrder(p)'
<1>1. CsvTypeOK
  BY DEF TypeOK
<1>2. CASE CsvTake(p) \/ LeaveCsv(p)
  <2>1. csvPc'[p] \in {"find", "idle"}
    BY <1>1, <1>2 DEF CsvTake, LeaveCsv, GoCsv, CsvTypeOK
  <2> QED BY <2>1 DEF RunInOrder, Reading
<1>3. CASE CsvError(p)
  <2>1. CASE csvPc[p] \in Reading /\ csvPc'[p] = "fail" /\ UNCHANGED csvJob
    BY <2>1 DEF RunInOrder, CsvBatch
  <2>2. CASE csvPc'[p] = "idle"
    BY <2>2 DEF RunInOrder, Reading
  <2>3. CASE UNCHANGED <<csvPc, csvJob, csvRow>>
    BY <2>3 DEF RunInOrder, CsvBatch, Lines, RowsDropped, reqVars
  <2> QED BY <1>1, <1>3, <2>1, <2>2, <2>3 DEF CsvError, CsvThrow, LeaveCsv, GoCsv, CsvTypeOK, CsvSteps, Reading
<1> QED BY <1>2, <1>3

(* The other pods' runs see nothing of a pod's step.                       *)
LEMMA OtherRuns ==
    ASSUME CsvTypeOK, NEW p \in Pods, NEW q \in Pods, q # p, CsvStep(p) \/ CsvError(p) \/ LeaveCsv(p)
    PROVE  csvPc'[q] = csvPc[q] /\ csvJob'[q] = csvJob[q] /\ csvRow'[q] = csvRow[q]
<1>1. CASE LeaveCsv(p)
  BY <1>1 DEF LeaveCsv, GoCsv, CsvTypeOK
<1>2. CASE CsvError(p)
  BY <1>1, <1>2 DEF CsvError, CsvThrow, GoCsv, CsvTypeOK
<1>3. CASE CsvTake(p) \/ CsvFind(p) \/ CsvMark(p) \/ CsvRead(p) \/ CsvDropErrors(p) \/ CsvFinish(p)
  BY <1>1, <1>3 DEF CsvTake, CsvFind, CsvMark, CsvRead, CsvDropErrors, CsvFinish, CsvThrow, GoCsv, CsvTypeOK
<1>4. ASSUME AfterStaging(p), UNCHANGED csvJob PROVE csvPc'[q] = csvPc[q] /\ csvJob'[q] = csvJob[q] /\ csvRow'[q] = csvRow[q]
  BY <1>4 DEF AfterStaging, GoCsv, SetCsvLine, CsvTypeOK
<1>5. CASE CsvDropRows(p)
  BY <1>4, <1>5 DEF CsvDropRows, GoCsv, CsvTypeOK
<1>6. CASE CsvStage(p)
  BY <1>4, <1>6 DEF CsvStage, GoCsv, SetCsvLine, CsvTypeOK
<1>7. CASE CsvComplain(p)
  BY <1>7 DEF CsvComplain, GoCsv, SetCsvLine, CsvTypeOK
<1>8. CASE CsvAck(p) \/ CsvFail(p) \/ CsvReject(p) \/ \E b \in Batches : CsvFailedEvent(p, b)
  BY <1>1, <1>8 DEF CsvAck, CsvFail, CsvReject, CsvThrow, CsvFailedEvent, GoCsv, CsvTypeOK
<1> QED BY <1>1, <1>2, <1>3, <1>5, <1>6, <1>7, <1>8 DEF CsvStep

LEMMA NextKeepsOrder == TypeOK /\ OneCsvJob /\ StagedInOrder /\ [Next]_vars => StagedInOrder'
<1> SUFFICES ASSUME TypeOK, OneCsvJob, StagedInOrder, [Next]_vars PROVE StagedInOrder'
  OBVIOUS
<1>1. CsvTypeOK
  BY DEF TypeOK
<1>2. ASSUME UNCHANGED <<csvPc, csvJob, csvRow>>, \A b \in Batches : Undisturbed(b) PROVE StagedInOrder'
  <2>1. ASSUME NEW p \in Pods PROVE RunInOrder(p)'
    BY <1>1, <1>2, RunUndisturbed DEF StagedInOrder
  <2>2. ASSUME NEW b \in Batches PROVE BatchInOrder(b)'
    BY <1>2, BatchUndisturbed DEF StagedInOrder
  <2> QED BY <2>1, <2>2 DEF StagedInOrder
<1>3. ASSUME NEW p \in Pods, CsvWork(p) PROVE StagedInOrder'
  <2>1. CASE \E x \in Batches : CsvFailedEvent(p, x)
    BY <1>2, <1>3, <2>1, PodUndisturbs DEF CsvFailedEvent
  <2>2. CASE csvPc[p] = "idle" /\ ~\E x \in Batches : CsvFailedEvent(p, x)
    <3>1. CsvTake(p) /\ UNCHANGED <<status, staged, reqVars>>
      BY <1>3, <2>2 DEF CsvWork, CsvStep, CsvTake, CsvFind, CsvMark, CsvRead, CsvDropErrors, CsvDropRows, CsvStage,
         CsvComplain, CsvFinish, CsvAck, CsvFail, CsvReject, tables
    <3>2. \A b \in Batches : Undisturbed(b)
      BY <1>3, <2>2, PodUndisturbs
    <3>3. ASSUME NEW q \in Pods PROVE RunInOrder(q)'
      <4>1. CASE q = p
        BY <3>1, <4>1, RunBreaksOff DEF StagedInOrder
      <4>2. CASE q # p
        BY <1>1, <1>3, <3>2, <4>2, OtherRuns, RunUndisturbed DEF StagedInOrder, CsvWork
      <4> QED BY <4>1, <4>2
    <3>4. ASSUME NEW b \in Batches PROVE BatchInOrder(b)'
      BY <3>2, BatchUndisturbed DEF StagedInOrder
    <3> QED BY <3>3, <3>4 DEF StagedInOrder
  <2>3. CASE csvPc[p] # "idle" /\ ~\E x \in Batches : CsvFailedEvent(p, x)
    <3>1. PICK b \in Batches : CsvBatch(p) = b
      BY <1>1, <2>3, CsvBatchType
    <3>2. RunInOrder(p)' /\ BatchInOrder(b)'
      BY <1>3, <2>3, <3>1, RunAdvances DEF StagedInOrder
    <3>3. ASSUME NEW x \in Batches, x # b PROVE Undisturbed(x)
      BY <1>3, <3>1, <3>3, PodUndisturbs
    <3>4. ASSUME NEW q \in Pods, q # p, csvPc[q] # "idle" PROVE CsvBatch(q) # b
      BY <2>3, <3>1, <3>4 DEF OneCsvJob, OneJob, Lone, Parsing
    <3>5. ASSUME NEW q \in Pods, q # p PROVE RunInOrder(q)'
      <4>1. RunInOrder(q)
        BY DEF StagedInOrder
      <4>2. csvPc'[q] = csvPc[q] /\ csvJob'[q] = csvJob[q] /\ csvRow'[q] = csvRow[q]
        BY <1>1, <1>3, <3>5, OtherRuns DEF CsvWork
      <4>3. \A x \in Batches : csvPc[q] # "idle" /\ CsvBatch(q) = x => Undisturbed(x)
        BY <3>3, <3>4, <3>5
      <4> QED BY <1>1, <4>1, <4>2, <4>3, RunUndisturbed
    <3>6. ASSUME NEW x \in Batches, x # b PROVE BatchInOrder(x)'
      BY <3>3, <3>6, BatchUndisturbed DEF StagedInOrder
    <3> QED BY <3>2, <3>5, <3>6 DEF StagedInOrder
  <2> QED BY <2>1, <2>2, <2>3
<1>4. ASSUME \A p \in Pods : ~CsvWork(p) PROVE \A b \in Batches : Undisturbed(b)
  BY <1>4, OthersUndisturb
<1>5. ASSUME \A p \in Pods : ~CsvWork(p), NEW p \in Pods, WorkerFault(p) \/ Crash(p) PROVE StagedInOrder'
  <2>1. CASE UNCHANGED csvVars
    BY <1>2, <1>4, <1>5, <2>1 DEF csvVars
  <2>2. CASE (CsvError(p) \/ LeaveCsv(p)) /\ UNCHANGED <<status, staged, reqVars>>
    <3>1. RunInOrder(p)'
      BY <2>2, RunBreaksOff DEF StagedInOrder
    <3>2. ASSUME NEW q \in Pods, q # p PROVE RunInOrder(q)'
      <4>1. RunInOrder(q)
        BY DEF StagedInOrder
      <4>2. csvPc'[q] = csvPc[q] /\ csvJob'[q] = csvJob[q] /\ csvRow'[q] = csvRow[q]
        BY <1>1, <2>2, <3>2, OtherRuns
      <4> QED BY <1>1, <1>4, <1>5, <4>1, <4>2, RunUndisturbed
    <3>3. ASSUME NEW b \in Batches PROVE BatchInOrder(b)'
      BY <1>4, <1>5, BatchUndisturbed DEF StagedInOrder
    <3> QED BY <3>1, <3>2, <3>3 DEF StagedInOrder
  <2> QED BY <1>5, <2>1, <2>2 DEF WorkerFault, Crash, CsvError, tables
<1>6. ASSUME \A p \in Pods : ~CsvWork(p), UNCHANGED <<csvPc, csvJob, csvRow>> PROVE StagedInOrder'
  BY <1>2, <1>4, <1>6
<1>7. ASSUME \A p \in Pods : ~CsvWork(p),
             \/ \E p \in Pods : ImportWork(p)
             \/ \E c \in Clients : UserAsks(c) \/ ApiWork(c) \/ ApiMishap(c)
             \/ Requeue \/ Quiet \/ UNCHANGED vars
      PROVE  StagedInOrder'
  <2>1. UNCHANGED <<csvPc, csvJob, csvRow>>
    BY <1>7 DEF ImportWork, UserAsks, ApiWork, ApiMishap, Requeue, RequeueCsv, RequeueImport, Quiet, vars, csvVars
  <2> QED BY <1>6, <1>7, <2>1
<1> QED BY <1>3, <1>5, <1>7 DEF Next

LEMMA AlwaysInOrder == Spec => []StagedInOrder
<1>1. Init => StagedInOrder
  BY DEF Init, StoreInit, CsvInit, StagedInOrder, RunInOrder, BatchInOrder, Once, Reading
<1> QED BY <1>1, TypeCorrect, AlwaysOneJob, NextKeepsOrder, PTL DEF Spec

(* A batch reads "validated" only with every line of its file staged, once, *)
(* unless a deletion is at its rows: no other delivery of its job runs      *)
(* beside the run that says so, and no run of it started since.             *)
THEOREM ValidatedIsWhole == Spec => []ValidatedIsComplete
<1>1. ASSUME StagedInOrder PROVE ValidatedIsComplete
  <2> SUFFICES ASSUME NEW b \in Batches, status[b] = "validated", ~RowsDropped(b)
               PROVE  /\ {LineOf(row) : row \in staged[b]} = DOMAIN File[b]
                      /\ Cardinality(staged[b]) = Len(File[b])
    BY DEF ValidatedIsComplete
  <2>1. Once(b) /\ Lines(b) = DOMAIN File[b]
    BY <1>1 DEF StagedInOrder, BatchInOrder
  <2> DEFINE f == [row \in staged[b] |-> LineOf(row)]
             n == Len(File[b])
  <2>2. n \in Nat /\ DOMAIN File[b] = 1 .. n
    BY FileAssumption
  <2>3. f \in Injection(staged[b], 1 .. n) /\ f \in Surjection(staged[b], 1 .. n)
    <3>1. f \in [staged[b] -> 1 .. n]
      BY <2>1, <2>2 DEF Lines
    <3>2. \A x, y \in staged[b] : f[x] = f[y] => x = y
      BY <2>1 DEF Once
    <3>3. \A i \in 1 .. n : \E x \in staged[b] : f[x] = i
      BY <2>1, <2>2 DEF Lines
    <3> HIDE DEF f
    <3> QED BY <3>1, <3>2, <3>3 DEF Injection, Surjection, IsInjective
  <2>4. IsFiniteSet(1 .. n) /\ Cardinality(1 .. n) = n
    BY <2>2, FS_Interval
  <2>6. Cardinality(staged[b]) = n
    <3> HIDE DEF f
    <3> QED BY <2>3, <2>4, FS_Injection
  <2> QED BY <2>1, <2>6 DEF Lines
<1> QED BY <1>1, AlwaysInOrder, PTL

-----------------------------------------------------------------------------
(* "imported" tells the truth. *)

(* b was parsed at most once, and no delete touches it.                    *)
Steady(b) == ~SecondParse(b) /\ ~DeletionTouches(b)

(* A request that has not been made names nothing; one to delete all names *)
(* every batch.                                                            *)
NamesKept == AllNamed /\ \A c \in Clients : reqPc[c] = "new" => reqIds[c] = {}

(* Nobody confirms a batch, or imports it, before it was parsed; and as    *)
(* long as it is steady, every line stays staged.                          *)
Staging == {"dropErrors", "dropRows", "stage", "complain", "finish"}
Parsed(b) ==
    /\ parses[b] >= 1
    /\ Steady(b) => /\ Lines(b) = DOMAIN File[b]
                    /\ \A p \in Pods : csvPc[p] \in Staging => CsvBatch(p) # b
Begun(b) ==
    \/ status[b] \in Unfinished \cup {"imported"}
    \/ \E c \in Clients : reqPc[c] \in ConfirmSteps /\ reqBatch[c] = b
    \/ \E i \in DOMAIN importQueue : importQueue[i].batch = b
    \/ \E job \in importStalled : job.batch = b
    \/ \E p \in Pods : impPc[p] # "idle" /\ ImportBatch(p) = b
ParsedFirst ==
    /\ \A p \in Pods : csvPc[p] \in Staging => parses[CsvBatch(p)] >= 1
    /\ \A b \in Batches : Begun(b) => Parsed(b)

(* What an import run of b has come to: each postable valid line is        *)
(* counted, or the loop has still to come to its row.                      *)
LeftOrCounted(p, b) ==
    \A l \in Valid(b) : File[b][l].postable =>
        Counted(b, l) \/ \E row \in impLeft[p] : LineOf(row) = l
RunSteady(p, b) ==
    /\ impLeft[p] \subseteq staged[b]
    /\ \A x \in impKnown[p] : x = Undefined \/ \E l \in DOMAIN File[b] : x = Ref(b, l) /\ Taken(x)
    /\ impPc[p] \in {"preload", "insert", "finish", "none"} => LeftOrCounted(p, b)
RunFresh(p) ==
    /\ impPc[p] \in {"idle", "mark", "select"} => impKnown[p] = {}
    /\ impPc[p] \in {"idle", "mark", "select", "none", "finish"} => impLeft[p] = {}
ImportsCount ==
    \A p \in Pods :
        /\ RunFresh(p)
        /\ \A b \in Batches : impPc[p] # "idle" /\ ImportBatch(p) = b /\ Steady(b) => RunSteady(p, b)

ImportedCounted == \A b \in Batches : status[b] = "imported" /\ Steady(b) => AllCounted(b)

ImportedInv == NamesKept /\ ParsedFirst /\ ImportsCount /\ ImportedCounted /\ left["fault"] = 0

LEMMA NamesStay ==
    ASSUME TypeOK, NamesKept, AllNamed', [Next]_vars
    PROVE  NamesKept' /\ \A c \in Clients : reqIds[c] \subseteq reqIds'[c]
<1>1. ApiTypeOK
  BY DEF TypeOK
<1>2. CASE UNCHANGED <<reqPc, reqIds>>
  BY <1>2 DEF NamesKept
<1>3. ASSUME NEW d \in Clients, NEW step \in RequestSteps \cup Outcomes, Go(d, step), UNCHANGED reqIds
      PROVE  NamesKept' /\ \A c \in Clients : reqIds[c] \subseteq reqIds'[c]
  BY <1>1, <1>3 DEF Go, NamesKept, ApiTypeOK, RequestSteps, Outcomes
<1>4. ASSUME NEW d \in Clients, Request(d)
      PROVE  NamesKept' /\ \A c \in Clients : reqIds[c] \subseteq reqIds'[c]
  <2>1. ASSUME NEW b \in Batches, Upload(d, b) \/ Confirm(d, b) \/ Cancel(d, b)
        PROVE  UNCHANGED reqIds /\ \E step \in RequestSteps \cup Outcomes : Go(d, step)
    BY <2>1 DEF Upload, Confirm, Cancel, Ask, RequestSteps, Outcomes
  <2>2. ASSUME NEW ids \in SUBSET Batches, Ask(d, "delete", "dropErrors") \/ Ask(d, "deleteAll", "dropErrors"),
               reqIds' = [reqIds EXCEPT ![d] = ids]
        PROVE  NamesKept' /\ \A c \in Clients : reqIds[c] \subseteq reqIds'[c]
    BY <1>1, <2>2 DEF Ask, Go, NamesKept, ApiTypeOK
  <2> QED BY <1>3, <1>4, <2>1, <2>2 DEF Request, Delete, DeleteAll
<1>5. ASSUME NEW d \in Clients, ApiWork(d) \/ ApiMishap(d)
      PROVE  UNCHANGED reqIds /\ \E step \in RequestSteps \cup Outcomes : Go(d, step)
  BY <1>5 DEF ApiWork, ApiMishap, ApiError, ApiCrash, Handle, EnqueueCsv, QueueEvent, MarkFailed, Recheck, DropKey,
     Load, PutKey, EnqueueImport, WriteCancel, DropErrors, DropRecords, DropRows, DropBatches, RequestSteps, Outcomes
<1>6. CASE Requeue \/ Quiet \/ UNCHANGED vars \/ \E p \in Pods : CsvWork(p) \/ ImportWork(p) \/ WorkerFault(p) \/ Crash(p)
  BY <1>2, <1>6 DEF Requeue, RequeueCsv, RequeueImport, Quiet, vars, reqVars, CsvWork, ImportWork, WorkerFault, Crash
<1> QED BY <1>3, <1>4, <1>5, <1>6 DEF Next, UserAsks

LEMMA ParsesSteps ==
    ASSUME TypeOK, [Next]_vars, NEW b \in Batches
    PROVE  \/ parses'[b] = parses[b]
           \/ /\ parses'[b] = parses[b] + 1
              /\ \E p \in Pods : CsvWork(p) /\ CsvRead(p) /\ CsvBatch(p) = b
<1>1. StoreTypeOK /\ CsvTypeOK
  BY DEF TypeOK
<1>2. ASSUME NEW p \in Pods, CsvWork(p), CsvRead(p)
      PROVE  parses'[b] = IF CsvBatch(p) = b THEN parses[b] + 1 ELSE parses[b]
  <2>1. parses \in [Batches -> Nat]
    BY <1>1 DEF StoreTypeOK
  <2> QED BY <1>2, <2>1 DEF CsvRead
<1>3. ASSUME NEW p \in Pods, CsvWork(p), ~CsvRead(p) PROVE UNCHANGED parses
  BY <1>3 DEF CsvWork, CsvStep, CsvTake, CsvFind, CsvMark, CsvDropErrors, CsvDropRows, CsvStage,
         CsvComplain, CsvFinish, CsvAck, CsvFail, CsvReject, CsvFailedEvent, tables
<1>4. ASSUME NEW c \in Clients, UserAsks(c) \/ ApiWork(c) \/ ApiMishap(c) PROVE UNCHANGED parses
  BY <1>4 DEF UserAsks, Request, Upload, Confirm, Cancel, Delete, DeleteAll, ApiWork, Handle,
         EnqueueCsv, QueueEvent, MarkFailed, Recheck, DropKey, Load, PutKey, EnqueueImport, WriteCancel,
         DropErrors, DropRecords, DropRows, DropBatches, ApiMishap, ApiError, ApiCrash, tables
<1>5. ASSUME NEW p \in Pods, ImportWork(p) \/ WorkerFault(p) \/ Crash(p) PROVE UNCHANGED parses
  BY <1>5 DEF ImportWork, ImpStep, ImpTake, ImpMark, ImpSelect, ImpNone, ImpPreload, ImpInsert, ImpSkip, ImpFinish,
     ImpAck, WorkerFault, CsvError, ImpError, Crash, tables
<1>6. CASE Requeue \/ Quiet \/ UNCHANGED vars
  BY <1>6 DEF Requeue, RequeueCsv, RequeueImport, Quiet, vars, tables
<1> QED BY <1>2, <1>3, <1>4, <1>5, <1>6 DEF Next

LEMMA SteadyBack ==
    ASSUME TypeOK, [Next]_vars, \A c \in Clients : reqIds[c] \subseteq reqIds'[c], NEW b \in Batches, Steady(b)'
    PROVE  Steady(b)
<1>1. parses[b] \in Nat
  BY DEF TypeOK, StoreTypeOK
<1>2. parses[b] <= parses'[b] /\ parses'[b] \in Nat
  BY <1>1, ParsesSteps
<1>3. ~SecondParse(b)
  BY <1>1, <1>2 DEF Steady, SecondParse
<1>4. ~DeletionTouches(b)
  BY DEF Steady, DeletionTouches
<1> QED BY <1>3, <1>4 DEF Steady

(* A run comes to staging by reading its file.                             *)
LEMMA StagingSteps ==
    ASSUME TypeOK, [Next]_vars, NEW p \in Pods, csvPc'[p] \in Staging
    PROVE  /\ csvJob'[p] = csvJob[p]
           /\ csvPc[p] \in Staging \/ (CsvWork(p) /\ CsvRead(p))
<1>1. CsvTypeOK
  BY DEF TypeOK
<1>2. CASE csvPc'[p] = csvPc[p] /\ csvJob'[p] = csvJob[p]
  BY <1>2
<1>3. ASSUME NEW q \in Pods, q # p, CsvWork(q) \/ WorkerFault(q) \/ Crash(q)
      PROVE  csvPc'[p] = csvPc[p] /\ csvJob'[p] = csvJob[p]
  BY <1>1, <1>3, OtherRuns DEF CsvWork, WorkerFault, Crash, csvVars
<1>4. CASE CsvWork(p)
  BY <1>1, <1>4 DEF CsvWork, CsvStep, CsvTake, CsvFind, CsvMark, CsvRead, CsvDropErrors, CsvDropRows, CsvStage,
         CsvComplain, CsvFinish, CsvAck, CsvFail, CsvReject, CsvFailedEvent, CsvThrow, LeaveCsv, AfterStaging,
         GoCsv, CsvTypeOK, Staging
<1>5. CASE WorkerFault(p) \/ Crash(p)
  <2>1. CASE UNCHANGED <<csvPc, csvJob>>
    BY <1>2, <2>1
  <2>2. CASE GoCsv(p, "idle") \/ GoCsv(p, "fail")
    BY <1>1, <2>2 DEF GoCsv, CsvTypeOK, Staging
  <2> QED BY <1>5, <2>1, <2>2 DEF WorkerFault, CsvError, CsvThrow, Crash, LeaveCsv, csvVars
<1>6. CASE \/ \E q \in Pods : ImportWork(q)
           \/ \E c \in Clients : UserAsks(c) \/ ApiWork(c) \/ ApiMishap(c)
           \/ Requeue \/ Quiet \/ UNCHANGED vars
  BY <1>2, <1>6 DEF ImportWork, UserAsks, ApiWork, ApiMishap, Requeue, RequeueCsv, RequeueImport, Quiet, vars, csvVars
<1> QED BY <1>2, <1>3, <1>4, <1>5, <1>6 DEF Next

LEMMA DroppedTouched ==
    ASSUME NEW b, RowsDropped(b) PROVE DeletionTouches(b)
  BY DEF RowsDropped, DeletionTouches

(* A steady batch that was parsed keeps its rows.                          *)
LEMMA RowsStay ==
    ASSUME TypeOK, [Next]_vars, NamesKept, AllNamed', NEW b \in Batches, Parsed(b), Steady(b)'
    PROVE  /\ Steady(b) /\ staged'[b] = staged[b]
           /\ Lines(b) = DOMAIN File[b] /\ \A p \in Pods : csvPc[p] \in Staging => CsvBatch(p) # b
<1>1. Steady(b)
  BY NamesStay, SteadyBack
<1>2. ~RowsDropped(b)'
  BY DroppedTouched DEF Steady, RowsDropped, DeletionTouches
<1>3. ASSUME NEW p \in Pods, CsvDropRows(p) \/ CsvStage(p), CsvBatch(p) = b PROVE FALSE
  BY <1>1, <1>3 DEF Parsed, CsvDropRows, CsvStage, Staging
<1> QED BY <1>1, <1>2, <1>3, StagedSteps DEF Parsed

LEMMA ParsedStays ==
    ASSUME TypeOK, [Next]_vars, NamesKept, AllNamed', NEW b \in Batches, Parsed(b)
    PROVE  Parsed(b)'
<1>1. parses'[b] >= 1
  BY ParsesSteps DEF Parsed, TypeOK, StoreTypeOK
<1>2. ASSUME Steady(b)' PROVE Lines(b)' = DOMAIN File[b]
  BY <1>2, RowsStay DEF Lines
<1>3. ASSUME Steady(b)', NEW p \in Pods, csvPc'[p] \in Staging, CsvBatch(p)' = b PROVE FALSE
  <2>1. CsvBatch(p) = b /\ (csvPc[p] \in Staging \/ (CsvWork(p) /\ CsvRead(p)))
    BY <1>3, StagingSteps DEF CsvBatch
  <2>2. CASE csvPc[p] \in Staging
    BY <1>3, <2>1, <2>2, RowsStay
  <2>3. CASE CsvWork(p) /\ CsvRead(p)
    <3>1. parses'[b] = parses[b] + 1 /\ parses[b] \in Nat
      BY <2>1, <2>3 DEF CsvRead, TypeOK, StoreTypeOK
    <3> QED BY <1>3, <3>1 DEF Parsed, Steady, SecondParse
  <2> QED BY <2>1, <2>2, <2>3
<1> QED BY <1>1, <1>2, <1>3 DEF Parsed

(* Only a run that finishes makes a batch ready to be imported.            *)
LEMMA ApiBegins ==
    ASSUME ApiTypeOK, StoreTypeOK, ConfirmWhen \subseteq Unfinished, NEW c \in Clients, NEW b \in Batches,
           Request(c) \/ Handle(c) \/ ApiError(c) \/ ApiCrash(c)
    PROVE  /\ \A d \in Clients : reqPc'[d] \in ConfirmSteps /\ reqBatch'[d] = b => Begun(b)
           /\ UNCHANGED importStalled
           /\ \A i \in DOMAIN importQueue' : importQueue'[i].batch = b => Begun(b)
<1> DEFINE Goal == /\ \A d \in Clients : reqPc'[d] \in ConfirmSteps /\ reqBatch'[d] = b => Begun(b)
                   /\ UNCHANGED importStalled
                   /\ \A i \in DOMAIN importQueue' : importQueue'[i].batch = b => Begun(b)
<1>1. ASSUME NEW step, Go(c, step), UNCHANGED <<importQueue, importStalled>>,
             step \in ConfirmSteps => reqBatch'[c] = reqBatch[c] /\ reqPc[c] \in ConfirmSteps,
             \A d \in Clients : d # c => reqBatch'[d] = reqBatch[d]
      PROVE  Goal
  BY <1>1 DEF Go, Begun, ApiTypeOK
<1>2. ASSUME NEW x \in Batches, Upload(c, x) \/ Cancel(c, x) PROVE Goal
  <2>1. /\ UNCHANGED <<importQueue, importStalled>>
        /\ \A d \in Clients : d # c => reqBatch'[d] = reqBatch[d]
    BY <1>2 DEF Upload, Cancel, queues, ApiTypeOK
  <2>2. PICK step : Go(c, step) /\ step \notin ConfirmSteps
    BY <1>2 DEF Upload, Cancel, Ask, ConfirmSteps
  <2> QED BY <1>1, <2>1, <2>2
<1>3. ASSUME NEW x \in Batches, Confirm(c, x) PROVE Goal
  <2>1. /\ UNCHANGED <<importQueue, importStalled>> /\ status[x] \in Unfinished
        /\ \A d \in Clients : d # c => reqBatch'[d] = reqBatch[d] /\ reqPc'[d] = reqPc[d]
        /\ reqBatch'[c] = x
    BY <1>3 DEF Confirm, Ask, Go, queues, ApiTypeOK
  <2> QED BY <2>1 DEF Begun
<1>4. CASE DeleteAll(c) \/ \E ids \in SUBSET Batches : Delete(c, ids)
  <2>1. UNCHANGED <<importQueue, importStalled, reqBatch>> /\ Go(c, "dropErrors")
    BY <1>4 DEF DeleteAll, Delete, Ask, queues
  <2> QED BY <1>1, <2>1 DEF ConfirmSteps
<1>5. CASE EnqueueImport(c)
  <2>1. /\ UNCHANGED <<importStalled, reqBatch>> /\ Go(c, "queueEvent") /\ reqPc[c] = "enqueueImport"
        /\ \A i \in DOMAIN importQueue' :
               \/ i \in DOMAIN importQueue /\ importQueue'[i] = importQueue[i]
               \/ importQueue'[i].batch = reqBatch[c]
    BY <1>5 DEF EnqueueImport, StoreTypeOK
  <2>2. \A d \in Clients : reqPc'[d] \in ConfirmSteps => reqPc'[d] = reqPc[d]
    BY <2>1 DEF Go, ApiTypeOK, ConfirmSteps
  <2> QED BY <2>1, <2>2 DEF Begun, ConfirmSteps
<1>6. CASE Recheck(c) \/ DropKey(c) \/ Load(c) \/ PutKey(c)
  <2>1. UNCHANGED <<importQueue, importStalled, reqBatch>> /\ reqPc[c] \in ConfirmSteps
    BY <1>6 DEF Recheck, DropKey, Load, PutKey, queues, ConfirmSteps
  <2>2. PICK step : Go(c, step)
    BY <1>6 DEF Recheck, DropKey, Load, PutKey
  <2> QED BY <1>1, <2>1, <2>2
<1>7. CASE EnqueueCsv(c) \/ QueueEvent(c) \/ MarkFailed(c) \/ WriteCancel(c) \/ DropErrors(c) \/ DropRecords(c)
           \/ DropRows(c) \/ DropBatches(c) \/ ApiError(c) \/ ApiCrash(c)
  <2>1. UNCHANGED <<importQueue, importStalled, reqBatch>>
    BY <1>7 DEF EnqueueCsv, QueueEvent, MarkFailed, WriteCancel, DropErrors, DropRecords, DropRows, DropBatches,
         ApiError, ApiCrash, queues
  <2>2. PICK step : Go(c, step) /\ step \notin ConfirmSteps
    BY <1>7 DEF EnqueueCsv, QueueEvent, MarkFailed, WriteCancel, DropErrors, DropRecords, DropRows, DropBatches,
         ApiError, ApiCrash, ConfirmSteps
  <2> QED BY <1>1, <2>1, <2>2
<1> QED BY <1>2, <1>3, <1>4, <1>5, <1>6, <1>7 DEF Request, Handle

LEMMA JobsBegin ==
    ASSUME TypeOK, ConfirmWhen \subseteq Unfinished, [Next]_vars, NEW b \in Batches
    PROVE  /\ \A d \in Clients : reqPc'[d] \in ConfirmSteps /\ reqBatch'[d] = b => Begun(b)
           /\ \A i \in DOMAIN importQueue' : importQueue'[i].batch = b => Begun(b)
           /\ \A job \in importStalled' : job.batch = b => Begun(b)
           /\ \A p \in Pods : impPc'[p] # "idle" /\ ImportBatch(p)' = b => Begun(b)
<1> DEFINE Asked == \A d \in Clients : reqPc'[d] \in ConfirmSteps /\ reqBatch'[d] = b => Begun(b)
           Queued == \A i \in DOMAIN importQueue' : importQueue'[i].batch = b => Begun(b)
           Stuck == \A job \in importStalled' : job.batch = b => Begun(b)
           Run == \A p \in Pods : impPc'[p] # "idle" /\ ImportBatch(p)' = b => Begun(b)
           All == Asked /\ Queued /\ Stuck /\ Run
<1> SUFFICES All
  OBVIOUS
<1>1. StoreTypeOK /\ ImpTypeOK /\ ApiTypeOK
  BY DEF TypeOK
<1>2. ASSUME UNCHANGED reqVars PROVE Asked
  BY <1>2 DEF reqVars, Begun
<1>3. ASSUME UNCHANGED importQueue PROVE Queued
  BY <1>3 DEF Begun
<1>4. ASSUME UNCHANGED importStalled PROVE Stuck
  BY <1>4 DEF Begun
<1>5. ASSUME \A p \in Pods : impPc'[p] # "idle" => impPc[p] # "idle" /\ impJob'[p] = impJob[p] PROVE Run
  BY <1>5 DEF Begun, ImportBatch
<1>6. ASSUME NEW p \in Pods, ImportWork(p) PROVE All
  <2>1. CASE ImpTake(p)
    <3>1. /\ importQueue \in Seq(ImportJob) /\ importQueue # <<>>
          /\ UNCHANGED importStalled
          /\ importQueue' = Tail(importQueue) /\ impJob'[p] = Head(importQueue)
          /\ \A q \in Pods : q # p => impPc'[q] = impPc[q] /\ impJob'[q] = impJob[q]
      BY <1>1, <2>1 DEF ImpTake, StoreTypeOK, ImpTypeOK, GoImport
    <3>2. \A i \in DOMAIN importQueue' : i + 1 \in DOMAIN importQueue /\ importQueue'[i] = importQueue[i + 1]
      BY <3>1
    <3>3. Queued
      BY <3>2 DEF Begun
    <3>4. 1 \in DOMAIN importQueue /\ impJob'[p] = importQueue[1]
      BY <3>1
    <3>5. Run
      BY <3>1, <3>4 DEF Begun, ImportBatch
    <3> QED BY <1>2, <1>4, <1>6, <3>1, <3>3, <3>5 DEF ImportWork
  <2>2. CASE ~ImpTake(p)
    <3>1. UNCHANGED <<importQueue, importStalled>>
      BY <1>6, <2>2 DEF ImportWork, ImpStep, ImpMark, ImpSelect, ImpNone, ImpPreload, ImpInsert, ImpSkip, ImpFinish,
         ImpAck, queues
    <3>2. \A q \in Pods : impPc'[q] # "idle" => impPc[q] # "idle" /\ impJob'[q] = impJob[q]
      BY <1>1, <1>6, <2>2 DEF ImportWork, ImpStep, ImpMark, ImpSelect, ImpNone, ImpPreload, ImpInsert, ImpSkip,
         ImpFinish, ImpAck, LeaveImport, Advance, GoImport, ImpTypeOK
    <3> QED BY <1>2, <1>3, <1>4, <1>5, <1>6, <3>1, <3>2 DEF ImportWork
  <2> QED BY <2>1, <2>2
<1>7. ASSUME NEW p \in Pods, Crash(p) PROVE All
  <2>1. \A q \in Pods : impPc'[q] # "idle" => impPc[q] # "idle" /\ impJob'[q] = impJob[q]
    BY <1>1, <1>7 DEF Crash, LeaveImport, GoImport, ImpTypeOK
  <2>2. Stuck
    BY <1>1, <1>7, ImportBatchType DEF Crash, Begun, ImportBatch
  <2> QED BY <1>2, <1>3, <1>5, <1>7, <2>1, <2>2 DEF Crash
<1>8. ASSUME NEW job \in importStalled, RequeueImport(job) PROVE All
  <2>1. /\ importQueue \in Seq(ImportJob) /\ job \in ImportJob /\ importStalled' = importStalled \ {job}
        /\ importQueue' = importQueue \/ importQueue' = <<Again(job)>> \o importQueue
        /\ UNCHANGED <<reqVars, impPc, impJob>>
    BY <1>1, <1>8 DEF RequeueImport, impVars, StoreTypeOK
  <2>2. Again(job).batch = job.batch /\ Again(job) \in ImportJob
    BY <2>1 DEF Again, ImportJob
  <2>3. \A i \in DOMAIN importQueue' : \/ importQueue'[i] = Again(job)
                                       \/ \E k \in DOMAIN importQueue : importQueue'[i] = importQueue[k]
    <3>1. CASE UNCHANGED importQueue
      BY <3>1
    <3>2. CASE importQueue' = <<Again(job)>> \o importQueue
      <4> PICK again : again = Again(job)
        OBVIOUS
      <4>1. <<again>> \in Seq(ImportJob) /\ Len(<<again>>) = 1 /\ <<again>>[1] = again
        BY <2>2
      <4>2. \A i \in DOMAIN importQueue' :
                \/ importQueue'[i] = again
                \/ i - 1 \in DOMAIN importQueue /\ importQueue'[i] = importQueue[i - 1]
        BY <2>1, <3>2, <4>1, ConcatProperties, LenProperties
      <4> QED BY <4>2
    <3> QED BY <2>1, <3>1, <3>2
  <2>4. Queued
    BY <2>2, <2>3 DEF Begun
  <2>5. Stuck
    BY <2>1 DEF Begun
  <2> QED BY <1>2, <1>5, <2>1, <2>4, <2>5
<1>9. ASSUME NEW c \in Clients, UserAsks(c) \/ ApiWork(c) \/ ApiMishap(c) PROVE All
  <2>1. Asked /\ UNCHANGED importStalled /\ Queued
    BY <1>1, <1>9, ApiBegins DEF UserAsks, ApiWork, ApiMishap
  <2>2. UNCHANGED <<impPc, impJob>>
    BY <1>9 DEF UserAsks, ApiWork, ApiMishap, impVars
  <2> QED BY <1>4, <1>5, <2>1, <2>2
<1>10. ASSUME NEW p \in Pods, WorkerFault(p) PROVE All
  <2>1. UNCHANGED <<importQueue, importStalled, reqVars>>
    BY <1>10 DEF WorkerFault, CsvError, ImpError, queues
  <2>2. \A q \in Pods : impPc'[q] # "idle" => impPc[q] # "idle" /\ impJob'[q] = impJob[q]
    BY <1>1, <1>10 DEF WorkerFault, ImpError, impVars, LeaveImport, Advance, GoImport, ImpTypeOK
  <2> QED BY <1>2, <1>3, <1>4, <1>5, <2>1, <2>2
<1>11. CASE \/ \E p \in Pods : CsvWork(p)
            \/ \E job \in csvStalled : RequeueCsv(job)
            \/ Quiet \/ UNCHANGED vars
  <2>1. UNCHANGED <<reqVars, impPc, impJob, importQueue, importStalled>>
    BY <1>11 DEF CsvWork, CsvStep, CsvTake, CsvFind, CsvMark, CsvRead, CsvDropErrors, CsvDropRows, CsvStage, CsvComplain,
       CsvFinish, CsvAck, CsvFail, CsvReject, CsvFailedEvent, RequeueCsv, Quiet, vars, reqVars, impVars, queues
  <2> QED BY <1>2, <1>3, <1>4, <1>5, <2>1
<1>12. ASSUME NEW p \in Pods, CsvWork(p) \/ ImportWork(p) \/ WorkerFault(p) \/ Crash(p) PROVE All
  BY <1>6, <1>7, <1>10, <1>11, <1>12
<1>13. CASE Requeue
  BY <1>8, <1>11, <1>13 DEF Requeue
<1> HIDE DEF All
<1> QED BY <1>9, <1>11, <1>12, <1>13 DEF Next

LEMMA ParsedFirstStays ==
    ASSUME TypeOK, OneCsvJob, StagedInOrder, NamesKept, AllNamed', ParsedFirst,
           ConfirmWhen \subseteq Unfinished, [Next]_vars
    PROVE  ParsedFirst'
<1>1. StoreTypeOK /\ CsvTypeOK
  BY DEF TypeOK
<1>2. ASSUME NEW p \in Pods, csvPc'[p] \in Staging PROVE parses'[CsvBatch(p)'] >= 1
  <2>1. csvJob'[p] = csvJob[p] /\ (csvPc[p] \in Staging \/ (CsvWork(p) /\ CsvRead(p)))
    BY <1>2, StagingSteps
  <2>2. csvPc[p] # "idle"
    BY <2>1 DEF Staging, CsvRead
  <2>3. PICK b \in Batches : CsvBatch(p) = b
    BY <1>1, <2>2, CsvBatchType
  <2>4. CsvBatch(p)' = b
    BY <2>1, <2>3 DEF CsvBatch
  <2>5. parses[b] \in Nat
    BY <1>1 DEF StoreTypeOK
  <2>6. CASE csvPc[p] \in Staging
    <3>1. parses[b] >= 1
      BY <2>3, <2>6 DEF ParsedFirst
    <3> QED BY <2>4, <2>5, <3>1, ParsesSteps
  <2>7. CASE CsvWork(p) /\ CsvRead(p)
    <3>1. parses'[b] = parses[b] + 1
      BY <1>1, <2>3, <2>7 DEF CsvRead, StoreTypeOK
    <3> QED BY <2>4, <2>5, <3>1
  <2> QED BY <2>1, <2>6, <2>7
<1>3. ASSUME NEW b \in Batches, NEW p \in Pods, CsvWork(p), CsvFinish(p), CsvBatch(p) = b PROVE Parsed(b)'
  <2>1. csvPc[p] = "finish" /\ csvPc'[p] = "ack" /\ UNCHANGED staged
    BY <1>1, <1>3 DEF CsvFinish, GoCsv, CsvTypeOK
  <2>2. parses[b] >= 1 /\ UNCHANGED parses
    BY <1>3, <2>1 DEF ParsedFirst, Staging, CsvFinish
  <2>3. ASSUME Steady(b)' PROVE Lines(b)' = DOMAIN File[b]
    <3>1. Steady(b)
      BY <2>3, NamesStay, SteadyBack
    <3>2. ~RowsDropped(b)
      BY <3>1, DroppedTouched DEF Steady
    <3>3. Lines(b) = DOMAIN File[b]
      BY <1>3, <2>1, <3>2 DEF StagedInOrder, RunInOrder
    <3> QED BY <2>1, <3>3 DEF Lines
  <2>4. ASSUME NEW q \in Pods, csvPc'[q] \in Staging, CsvBatch(q)' = b PROVE FALSE
    <3>1. q # p
      BY <2>1, <2>4 DEF Staging
    <3>2. csvPc[q] = csvPc'[q] /\ csvJob'[q] = csvJob[q]
      BY <1>1, <1>3, <3>1, OtherRuns DEF CsvWork
    <3>3. q \in Parsing(b) /\ p \in Parsing(b)
      BY <1>3, <2>1, <2>4, <3>2 DEF Parsing, CsvBatch, Staging
    <3> QED BY <3>1, <3>3 DEF OneCsvJob, OneJob, Lone
  <2> QED BY <2>2, <2>3, <2>4 DEF Parsed
<1>4. ASSUME NEW b \in Batches, Begun(b) PROVE Parsed(b)'
  BY <1>4, ParsedStays DEF ParsedFirst
<1>5. ASSUME NEW b \in Batches, Begun(b)' PROVE Parsed(b)'
  <2>1. CASE status'[b] \in Unfinished \cup {"imported"}
    <3>1. CASE \E p \in Pods : CsvWork(p) /\ CsvFinish(p) /\ CsvBatch(p) = b
      BY <1>3, <3>1
    <3>2. CASE \E p \in Pods : ImportWork(p) /\ (ImpNone(p) \/ ImpFinish(p)) /\ ImportBatch(p) = b
      BY <1>4, <3>2 DEF Begun, ImpNone, ImpFinish
    <3>3. CASE status[b] \in Unfinished \cup {"imported"}
      BY <1>4, <3>3 DEF Begun
    <3> QED BY <2>1, <3>1, <3>2, <3>3, StatusSteps DEF Marks, Importable, Unfinished
  <2>2. CASE status'[b] \notin Unfinished \cup {"imported"}
    BY <1>4, <1>5, <2>2, JobsBegin DEF Begun
  <2> QED BY <2>1, <2>2
<1> QED BY <1>2, <1>5 DEF ParsedFirst

(* A steady batch's references stay in the ledger, its rows stay counted.  *)
LEMMA TakenStays ==
    ASSUME TypeOK, NamesKept, AllNamed', [Next]_vars, NEW b \in Batches, NEW l \in DOMAIN File[b],
           Taken(Ref(b, l)), Steady(b)'
    PROVE  Taken(Ref(b, l))'
<1> DEFINE x == Ref(b, l)
<1>1. x # NoRef /\ Collate[x] \in TakenKeys
  BY DEF Taken
<1>2. ASSUME NEW c \in Clients, NEW d \in reqIds[c], d = b \/ SharesReference(b, d) PROVE FALSE
  <2>1. d \in reqIds'[c]
    BY <1>2, NamesStay
  <2> QED BY <1>2, <2>1 DEF Steady, DeletionTouches, SharesReference
<1>3. CASE \E y \in outside : Collate[x] = Collate[y]
  <2>1. PICK y \in outside : Collate[x] = Collate[y]
    BY <1>3
  <2>2. y \in outside'
    <3>1. ASSUME NEW c \in Clients, ApiWork(c), DropRecords(c), y \notin outside' PROVE FALSE
      <4>1. reqOp[c] = "deleteAll"
        BY <3>1 DEF DropRecords
      <4>2. b \in reqIds[c]
        BY <4>1 DEF NamesKept, AllNamed
      <4> QED BY <1>2, <4>2
    <3>2. ASSUME NEW p \in Pods, ImpInsert(p) PROVE UNCHANGED outside
      BY <3>2 DEF ImpInsert
    <3> QED BY <3>1, <3>2, LedgerSteps
  <2> QED BY <1>1, <2>1, <2>2 DEF Taken, TakenKeys
<1>4. CASE \E r \in records : RecordRef(r) # NoRef /\ Collate[x] = Collate[RecordRef(r)]
  <2>1. PICK r \in records : RecordRef(r) # NoRef /\ Collate[x] = Collate[RecordRef(r)]
    BY <1>4
  <2>2. LineOf(r.row) \in DOMAIN File[r.job.batch]
    BY DEF TypeOK, StoreTypeOK
  <2>3. SharesReference(b, r.job.batch)
    BY <1>1, <2>1, <2>2 DEF SharesReference, RecordRef
  <2>4. r \in records'
    <3>1. ASSUME NEW c \in Clients, ApiWork(c), DropRecords(c), r \notin records' PROVE FALSE
      <4>1. r.job.batch \in reqIds[c]
        BY <3>1 DEF DropRecords
      <4> QED BY <1>2, <2>3, <4>1
    <3>2. ASSUME NEW p \in Pods, ImpInsert(p) PROVE r \in records'
      BY <3>2 DEF ImpInsert
    <3> QED BY <3>1, <3>2, LedgerSteps
  <2> QED BY <1>1, <2>1, <2>4 DEF Taken, TakenKeys, RecordRef
<1> QED BY <1>1, <1>3, <1>4 DEF TakenKeys

LEMMA CountedStays ==
    ASSUME TypeOK, NamesKept, AllNamed', [Next]_vars, NEW b \in Batches, NEW l \in DOMAIN File[b],
           Counted(b, l), Steady(b)'
    PROVE  Counted(b, l)'
<1>1. CASE Taken(Ref(b, l))
  BY <1>1, TakenStays DEF Counted
<1>2. ASSUME NEW r \in Posted(b), LineOf(r.row) = l PROVE Counted(b, l)'
  <2>1. r \in records /\ r.job.batch = b
    BY DEF Posted
  <2>2. r \in records'
    <3>1. ASSUME NEW c \in Clients, ApiWork(c), DropRecords(c), r \notin records' PROVE FALSE
      <4>1. b \in reqIds[c]
        BY <2>1, <3>1 DEF DropRecords
      <4>2. b \in reqIds'[c]
        BY <4>1, NamesStay
      <4> QED BY <4>2 DEF Steady, DeletionTouches
    <3>2. ASSUME NEW p \in Pods, ImpInsert(p) PROVE r \in records'
      BY <2>1, <3>2 DEF ImpInsert
    <3> QED BY <2>1, <3>1, <3>2, LedgerSteps
  <2> QED BY <1>2, <2>1, <2>2 DEF Counted, Posted
<1> QED BY <1>1, <1>2 DEF Counted

LEMMA LeftStays ==
    ASSUME TypeOK, NamesKept, AllNamed', [Next]_vars, NEW p \in Pods, NEW b \in Batches, Steady(b)',
           LeftOrCounted(p, b), impLeft'[p] = impLeft[p]
    PROVE  LeftOrCounted(p, b)'
  BY CountedStays DEF LeftOrCounted, Valid

LEMMA KnownStays ==
    ASSUME TypeOK, NamesKept, AllNamed', [Next]_vars, NEW b \in Batches, Steady(b)',
           NEW x, x = Undefined \/ \E l \in DOMAIN File[b] : x = Ref(b, l) /\ Taken(x)
    PROVE  x = Undefined \/ \E l \in DOMAIN File[b] : x = Ref(b, l) /\ Taken(x)'
  BY TakenStays

LEMMA RunStays ==
    ASSUME TypeOK, NamesKept, AllNamed', [Next]_vars, NEW p \in Pods, NEW b \in Batches, Steady(b)',
           RunSteady(p, b), staged'[b] = staged[b], impLeft'[p] = impLeft[p], impKnown'[p] = impKnown[p],
           impPc'[p] \in {"preload", "insert", "finish", "none"} =>
               impPc[p] \in {"preload", "insert", "finish", "none"}
    PROVE  RunSteady(p, b)'
<1>1. impPc'[p] \in {"preload", "insert", "finish", "none"} => LeftOrCounted(p, b)'
  BY LeftStays DEF RunSteady
<1>2. \A x \in impKnown'[p] : x = Undefined \/ \E l \in DOMAIN File[b] : x = Ref(b, l) /\ Taken(x)'
  BY KnownStays DEF RunSteady
<1>3. impLeft'[p] \subseteq staged'[b]
  BY DEF RunSteady
<1> QED BY <1>1, <1>2, <1>3 DEF RunSteady

(* The row that the loop comes to is counted, or cannot be posted.         *)
LEMMA RowPassed ==
    ASSUME TypeOK, NoOrphans, NEW p \in Pods, NEW b \in Batches, RunSteady(p, b), ImportBatch(p) = b,
           impLeft[p] # {}, ImpSkip(p), NEW l \in Valid(b), File[b][l].postable, LineOf(NextRow(p)) = l
    PROVE  Counted(b, l)
<1>1. NextRow(p) \in impLeft[p]
  BY NextRowMember DEF TypeOK
<1>2. NextRow(p) \in staged[b] /\ Exists(b)
  BY <1>1 DEF RunSteady, NoOrphans
<1>3. CASE Skips(p)
  <2>1. Ref(b, l) # NoRef /\ Ref(b, l) \in impKnown[p]
    BY <1>3 DEF Skips, RowRef
  <2>2. l \in DOMAIN File[b] /\ File[b] \in Seq(Line)
    BY FileAssumption DEF Valid
  <2>3. Ref(b, l) \in Refs
    <3>1. File[b][l] \in Line
      BY <2>2
    <3> QED BY <2>1, <3>1 DEF Ref, Line
  <2>4. Taken(Ref(b, l))
    BY <2>1, <2>3, UndefinedAssumption DEF RunSteady
  <2> QED BY <2>4 DEF Counted
<1>4. CASE ~Insertable(ImportBatch(p), NextRow(p))
  BY <1>2, <1>4 DEF Insertable, Counted
<1> QED BY <1>3, <1>4 DEF ImpSkip

LEMMA InsertSteady ==
    ASSUME TypeOK, NamesKept, AllNamed', [Next]_vars, NEW p \in Pods, NEW b \in Batches, Steady(b)',
           RunSteady(p, b), ImportBatch(p) = b, staged'[b] = staged[b], ImpInsert(p)
    PROVE  RunSteady(p, b)'
<1> DEFINE row == NextRow(p)
<1>1. impLeft[p] # {} /\ StoreTypeOK /\ ImpTypeOK /\ impPc[p] = "insert"
  BY DEF ImpInsert, TypeOK, ImpTypeOK
<1>2. row \in impLeft[p] /\ row \in staged[b]
  BY <1>1, NextRowMember DEF RunSteady
<1>3. LineOf(row) \in DOMAIN File[b]
  BY <1>1, <1>2 DEF StoreTypeOK
<1> PICK job : job = impJob[p]
  OBVIOUS
<1> PICK done : done = NextRow(p)
  OBVIOUS
<1> DEFINE new == [job |-> job, row |-> done]
<1>4. new \in records' /\ new.job.batch = b
  BY DEF ImpInsert, ImportBatch
<1>5. Counted(b, LineOf(done))'
  BY <1>4 DEF Counted, Posted
<1>6. impLeft'[p] = impLeft[p] \ {done}
  BY <1>1 DEF ImpInsert, Advance, ImpTypeOK
<1>7. LeftOrCounted(p, b)'
  <2> SUFFICES ASSUME NEW l \in Valid(b), File[b][l].postable, ~Counted(b, l)'
               PROVE  \E other \in impLeft'[p] : LineOf(other) = l
    BY DEF LeftOrCounted
  <2>1. ~Counted(b, l)
    BY CountedStays DEF Valid
  <2>2. PICK other \in impLeft[p] : LineOf(other) = l
    BY <1>1, <2>1 DEF RunSteady, LeftOrCounted
  <2>3. other # done
    BY <1>5, <2>2
  <2> QED BY <1>6, <2>2, <2>3
<1>8. ASSUME NEW x \in impKnown'[p]
      PROVE  x = Undefined \/ \E l \in DOMAIN File[b] : x = Ref(b, l) /\ Taken(x)'
  <2>1. CASE x \in impKnown[p]
    BY <2>1, KnownStays DEF RunSteady
  <2>2. CASE x \notin impKnown[p]
    <3>1. x = Ref(b, LineOf(done)) /\ x # NoRef
      BY <1>1, <1>8, <2>2 DEF ImpInsert, RowRef, ImpTypeOK
    <3>2. RecordRef(new) = x
      BY <1>4, <3>1 DEF RecordRef
    <3>3. Taken(x)'
      BY <1>4, <3>1, <3>2 DEF Taken, TakenKeys
    <3> QED BY <1>3, <3>1, <3>3
  <2> QED BY <2>1, <2>2
<1>9. impLeft'[p] \subseteq staged'[b]
  BY <1>6 DEF RunSteady
<1> QED BY <1>7, <1>8, <1>9 DEF RunSteady

LEMMA OwnStepSteady ==
    ASSUME TypeOK, NoOrphans, NamesKept, AllNamed', [Next]_vars, NEW p \in Pods, NEW b \in Batches, Steady(b)',
           Parsed(b), ImportWork(p), RunFresh(p), ImportBatch(p)' = b, impPc'[p] # "idle",
           impPc[p] # "idle" => RunSteady(p, b)
    PROVE  RunSteady(p, b)'
<1>1. Steady(b) /\ staged'[b] = staged[b] /\ Lines(b) = DOMAIN File[b]
  BY RowsStay
<1>2. ImpTypeOK
  BY DEF TypeOK
<1>3. CASE ImpTake(p)
  <2>1. impPc'[p] = "mark" /\ impLeft'[p] = {} /\ impKnown'[p] = {}
    BY <1>2, <1>3 DEF ImpTake, GoImport, ImpTypeOK, RunFresh
  <2> QED BY <2>1 DEF RunSteady
<1>4. ASSUME UNCHANGED impJob PROVE ImportBatch(p) = b
  BY <1>4 DEF ImportBatch
<1>5. CASE ImpMark(p) \/ ImpNone(p) \/ ImpFinish(p)
  <2>1. impPc[p] # "idle" /\ impPc'[p] \in {"select", "ack"} /\ UNCHANGED <<impLeft, impKnown>>
    BY <1>2, <1>5 DEF ImpMark, ImpNone, ImpFinish, GoImport, ImpTypeOK
  <2> QED BY <1>1, <2>1, RunStays
<1>6. CASE ImpSelect(p)
  <2>1. /\ impLeft'[p] = ValidRows(b) /\ impKnown'[p] = {}
    BY <1>2, <1>4, <1>6 DEF ImpSelect, ImpTypeOK, RunFresh
  <2>2. LeftOrCounted(p, b)'
    <3>1. ASSUME NEW l \in Valid(b) PROVE \E row \in impLeft'[p] : LineOf(row) = l
      <4>1. l \in Lines(b)
        BY <1>1 DEF Valid
      <4> QED BY <2>1, <4>1 DEF Lines, ValidRows
    <3> QED BY <3>1 DEF LeftOrCounted
  <2>3. impLeft'[p] \subseteq staged'[b]
    BY <1>1, <2>1 DEF ValidRows
  <2> QED BY <2>1, <2>2, <2>3 DEF RunSteady
<1>7. CASE ImpPreload(p)
  <2>1. /\ impPc[p] = "preload" /\ UNCHANGED impLeft
        /\ \A x \in impKnown'[p] : x = Undefined
    BY <1>2, <1>7 DEF ImpPreload, Preloaded, ImpTypeOK
  <2>2. LeftOrCounted(p, b)'
    BY <2>1, LeftStays DEF RunSteady
  <2>3. impLeft'[p] \subseteq staged'[b]
    BY <1>1, <2>1 DEF RunSteady
  <2> QED BY <2>1, <2>2, <2>3 DEF RunSteady
<1>8. CASE ImpInsert(p)
  BY <1>1, <1>4, <1>8, InsertSteady DEF ImpInsert
<1>9. CASE ImpSkip(p)
  <2>1. /\ impPc[p] = "insert" /\ impLeft[p] # {} /\ ImportBatch(p) = b /\ UNCHANGED impKnown
        /\ impLeft'[p] = impLeft[p] \ {NextRow(p)}
    BY <1>2, <1>4, <1>9 DEF ImpSkip, Advance, ImpTypeOK
  <2>2. RunSteady(p, b)
    BY <2>1
  <2>3. LeftOrCounted(p, b)'
    <3> SUFFICES ASSUME NEW l \in Valid(b), File[b][l].postable, ~Counted(b, l)'
                 PROVE  \E row \in impLeft'[p] : LineOf(row) = l
      BY DEF LeftOrCounted
    <3>1. ~Counted(b, l)
      BY CountedStays DEF Valid
    <3>2. PICK row \in impLeft[p] : LineOf(row) = l
      BY <2>1, <2>2, <3>1 DEF RunSteady, LeftOrCounted
    <3>3. LineOf(NextRow(p)) # l
      BY <1>9, <2>1, <2>2, <3>1, RowPassed
    <3> QED BY <2>1, <3>2, <3>3
  <2>4. \A x \in impKnown'[p] : x = Undefined \/ \E l \in DOMAIN File[b] : x = Ref(b, l) /\ Taken(x)'
    BY <2>1, <2>2, KnownStays DEF RunSteady
  <2>5. impLeft'[p] \subseteq staged'[b]
    BY <1>1, <2>1, <2>2 DEF RunSteady
  <2> QED BY <2>3, <2>4, <2>5 DEF RunSteady
<1>10. CASE ImpAck(p)
  BY <1>2, <1>10 DEF ImpAck, LeaveImport, GoImport, ImpTypeOK
<1> QED BY <1>3, <1>5, <1>6, <1>7, <1>8, <1>9, <1>10 DEF ImportWork, ImpStep

LEMMA FreshStays ==
    ASSUME TypeOK, [Next]_vars, left["fault"] = 0, NEW p \in Pods, RunFresh(p)
    PROVE  RunFresh(p)'
<1>1. ImpTypeOK
  BY DEF TypeOK
<1>2. CASE impPc'[p] = impPc[p] /\ impLeft'[p] = impLeft[p] /\ impKnown'[p] = impKnown[p]
  BY <1>2 DEF RunFresh
<1>3. ASSUME NEW q \in Pods, q # p, ImportWork(q) \/ Crash(q)
      PROVE  impPc'[p] = impPc[p] /\ impLeft'[p] = impLeft[p] /\ impKnown'[p] = impKnown[p]
  BY <1>1, <1>3 DEF ImportWork, ImpStep, ImpTake, ImpMark, ImpSelect, ImpNone, ImpPreload, ImpInsert, ImpSkip,
     ImpFinish, ImpAck, Crash, LeaveImport, Advance, GoImport, ImpTypeOK
<1>4. CASE ImportWork(p) \/ Crash(p)
  <2>1. CASE ImpInsert(p) \/ ImpSkip(p)
    <3>1. impPc'[p] = "insert" \/ (impPc'[p] = "finish" /\ impLeft'[p] = {})
      BY <1>1, <2>1 DEF ImpInsert, ImpSkip, Advance, GoImport, ImpTypeOK
    <3> QED BY <3>1 DEF RunFresh
  <2>2. CASE ImpSelect(p)
    BY <1>1, <2>2 DEF ImpSelect, GoImport, ImpTypeOK, RunFresh
  <2>3. CASE ImpTake(p) \/ ImpMark(p) \/ ImpNone(p) \/ ImpPreload(p) \/ ImpFinish(p) \/ ImpAck(p) \/ Crash(p)
    BY <1>1, <2>3 DEF ImpTake, ImpMark, ImpNone, ImpPreload, ImpFinish, ImpAck, Crash, LeaveImport, GoImport,
       ImpTypeOK, RunFresh
  <2> QED BY <1>4, <2>1, <2>2, <2>3 DEF ImportWork, ImpStep
<1>5. ASSUME NEW q \in Pods, WorkerFault(q) PROVE FALSE
  BY <1>5 DEF WorkerFault, Suffer
<1>6. CASE \/ \E q \in Pods : CsvWork(q)
           \/ \E c \in Clients : UserAsks(c) \/ ApiWork(c) \/ ApiMishap(c)
           \/ Requeue \/ Quiet \/ UNCHANGED vars
  BY <1>2, <1>6 DEF CsvWork, UserAsks, ApiWork, ApiMishap, Requeue, RequeueCsv, RequeueImport, Quiet, vars, impVars
<1> QED BY <1>2, <1>3, <1>4, <1>5, <1>6 DEF Next

(* What a run knows: the same, or its own step's.                          *)
LEMMA ImportsCountStays ==
    ASSUME TypeOK, NoOrphans, NamesKept, AllNamed', ParsedFirst, ImportsCount, left["fault"] = 0, [Next]_vars
    PROVE  ImportsCount'
<1>1. ImpTypeOK
  BY DEF TypeOK
<1>2. ASSUME NEW p \in Pods PROVE RunFresh(p)'
  BY FreshStays DEF ImportsCount
<1>3. ASSUME NEW p \in Pods, NEW b \in Batches, impPc'[p] # "idle", ImportBatch(p)' = b, Steady(b)',
             ~ImportWork(p)
      PROVE  RunSteady(p, b)'
  <2>1. impPc'[p] = impPc[p] /\ impJob'[p] = impJob[p] /\ impLeft'[p] = impLeft[p] /\ impKnown'[p] = impKnown[p]
    <3>1. ASSUME NEW q \in Pods, q # p, ImportWork(q) \/ Crash(q)
          PROVE  /\ impPc'[p] = impPc[p] /\ impJob'[p] = impJob[p]
                 /\ impLeft'[p] = impLeft[p] /\ impKnown'[p] = impKnown[p]
      BY <1>1, <3>1 DEF ImportWork, ImpStep, ImpTake, ImpMark, ImpSelect, ImpNone, ImpPreload, ImpInsert, ImpSkip,
         ImpFinish, ImpAck, Crash, LeaveImport, Advance, GoImport, ImpTypeOK
    <3>2. ~Crash(p)
      BY <1>1, <1>3 DEF Crash, LeaveImport, GoImport, ImpTypeOK
    <3>3. ASSUME NEW q \in Pods, WorkerFault(q) PROVE FALSE
      BY <3>3 DEF WorkerFault, Suffer
    <3>4. CASE UNCHANGED impVars
      BY <3>4 DEF impVars
    <3>5. CASE \/ \E q \in Pods : CsvWork(q)
               \/ \E c \in Clients : UserAsks(c) \/ ApiWork(c) \/ ApiMishap(c)
               \/ Requeue \/ Quiet \/ UNCHANGED vars
      <4>1. impPc' = impPc /\ impJob' = impJob /\ impLeft' = impLeft /\ impKnown' = impKnown
        BY <3>5 DEF CsvWork, UserAsks, ApiWork, ApiMishap, Requeue, RequeueCsv, RequeueImport, Quiet, vars, impVars
      <4> QED BY <4>1
    <3> QED BY <1>3, <3>1, <3>2, <3>3, <3>5 DEF Next
  <2>2. impPc[p] # "idle" /\ ImportBatch(p) = b
    BY <1>3, <2>1 DEF ImportBatch
  <2>3. Parsed(b)
    BY <2>2 DEF ParsedFirst, Begun
  <2>4. Steady(b) /\ staged'[b] = staged[b]
    BY <1>3, <2>3, RowsStay
  <2>5. RunSteady(p, b)
    BY <2>2, <2>4 DEF ImportsCount
  <2> QED BY <1>3, <2>1, <2>4, <2>5, RunStays
<1>4. ASSUME NEW p \in Pods, NEW b \in Batches, impPc'[p] # "idle", ImportBatch(p)' = b, Steady(b)',
             ImportWork(p)
      PROVE  RunSteady(p, b)'
  <2>1. Begun(b)
    <3>1. CASE ImpTake(p)
      <4>1. /\ importQueue \in Seq(ImportJob) /\ importQueue # <<>> /\ impJob'[p] = Head(importQueue)
        BY <1>1, <3>1 DEF ImpTake, ImpTypeOK, TypeOK, StoreTypeOK
      <4>2. 1 \in DOMAIN importQueue /\ impJob'[p] = importQueue[1]
        BY <4>1
      <4> QED BY <1>4, <4>2 DEF Begun, ImportBatch
    <3>2. CASE ~ImpTake(p)
      <4>1. impPc[p] # "idle" /\ impJob'[p] = impJob[p]
        BY <1>1, <1>4, <3>2 DEF ImportWork, ImpStep, ImpMark, ImpSelect, ImpNone, ImpPreload, ImpInsert, ImpSkip,
           ImpFinish, ImpAck, LeaveImport, GoImport, ImpTypeOK
      <4> QED BY <1>4, <4>1 DEF Begun, ImportBatch
    <3> QED BY <3>1, <3>2
  <2>2. Parsed(b)
    BY <2>1 DEF ParsedFirst
  <2>3. Steady(b)
    BY <1>4, <2>2, RowsStay
  <2>4. impPc[p] # "idle" => RunSteady(p, b)
    <3>1. impPc[p] # "idle" => impJob'[p] = impJob[p]
      BY <1>1, <1>4 DEF ImportWork, ImpStep, ImpTake, ImpMark, ImpSelect, ImpNone, ImpPreload, ImpInsert, ImpSkip,
         ImpFinish, ImpAck, LeaveImport, GoImport, ImpTypeOK
    <3>2. impPc[p] # "idle" => ImportBatch(p) = b
      BY <1>4, <3>1 DEF ImportBatch
    <3> QED BY <2>3, <3>2 DEF ImportsCount
  <2>5. RunFresh(p)
    BY DEF ImportsCount
  <2> QED BY <1>4, <2>2, <2>4, <2>5, OwnStepSteady
<1> QED BY <1>2, <1>3, <1>4 DEF ImportsCount

LEMMA ImportedStays ==
    ASSUME TypeOK, NamesKept, AllNamed', ImportsCount, ImportedCounted, [Next]_vars
    PROVE  ImportedCounted'
<1> SUFFICES ASSUME NEW b \in Batches, status'[b] = "imported", Steady(b)' PROVE AllCounted(b)'
  BY DEF ImportedCounted
<1>1. Steady(b)
  BY NamesStay, SteadyBack
<1>2. AllCounted(b)
  <2>1. CASE status'[b] = status[b]
    BY <1>1, <2>1 DEF ImportedCounted
  <2>2. ASSUME NEW p \in Pods, ImpNone(p) \/ ImpFinish(p), ImportBatch(p) = b PROVE AllCounted(b)
    <3>1. impPc[p] \in {"none", "finish"}
      BY <2>2 DEF ImpNone, ImpFinish
    <3>2. impLeft[p] = {}
      BY <3>1 DEF ImportsCount, RunFresh
    <3>3. LeftOrCounted(p, b)
      BY <1>1, <2>2, <3>1 DEF ImportsCount, RunSteady
    <3> QED BY <3>2, <3>3 DEF LeftOrCounted, AllCounted
  <2> QED BY <2>1, <2>2, StatusSteps DEF Marks
<1>3. ASSUME NEW l \in Valid(b), File[b][l].postable PROVE Counted(b, l)'
  <2>1. l \in DOMAIN File[b] /\ Counted(b, l)
    BY <1>2, <1>3 DEF AllCounted, Valid
  <2> QED BY <2>1, CountedStays
<1> QED BY <1>3 DEF AllCounted, Valid

LEMMA FaultsSpent ==
    ASSUME TypeOK, left["fault"] = 0, [Next]_vars PROVE left'["fault"] = 0
<1>1. left \in [MishapKinds -> Nat]
  BY DEF TypeOK
<1>2. ASSUME NEW kind \in {"crash", "apiCrash", "apiFault"}, Suffer(kind) PROVE left'["fault"] = 0
  BY <1>1, <1>2 DEF Suffer, MishapKinds
<1>3. ASSUME NEW p \in Pods, WorkerFault(p) PROVE FALSE
  BY <1>3 DEF WorkerFault, Suffer
<1>4. CASE UNCHANGED left
  BY <1>4
<1> QED BY <1>2, <1>3, <1>4 DEF Next, CsvWork, ImportWork, Crash, UserAsks, ApiWork, ApiMishap, Requeue, RequeueCsv,
       RequeueImport, Quiet, vars

(* Where users confirm as the dashboard lets them and no statement fails   *)
(* by itself, a batch that reads "imported" is in the ledger, line by line:*)
(* whatever crashed, however many imports of it ran, and whichever of them *)
(* wrote the status.                                                       *)
THEOREM ImportedIsPosted ==
    ASSUME ConfirmWhen \subseteq Unfinished, \A m \in Mishaps : m["fault"] = 0
    PROVE  Spec => []ImportedMeansPosted
<1>1. Init => ImportedInv
  <2> SUFFICES ASSUME Init PROVE ImportedInv
    OBVIOUS
  <2>1. NamesKept
    BY DEF Init, ApiInit, NamesKept, AllNamed
  <2>2. \A b \in Batches : ~Begun(b)
    <3>1. DOMAIN importQueue = {}
      BY DEF Init, StoreInit
    <3> QED BY <3>1 DEF Init, StoreInit, ImpInit, ApiInit, Begun, ConfirmSteps, Unfinished
  <2>3. ParsedFirst
    BY <2>2 DEF Init, CsvInit, ParsedFirst, Staging
  <2>4. ImportsCount
    BY DEF Init, ImpInit, ImportsCount, RunFresh
  <2>5. ImportedCounted
    BY DEF Init, StoreInit, ImportedCounted
  <2>6. left["fault"] = 0
    BY DEF Init
  <2> QED BY <2>1, <2>3, <2>4, <2>5, <2>6 DEF ImportedInv
<1>2. TypeOK /\ NoOrphans /\ OneCsvJob /\ StagedInOrder /\ AllNamed' /\ ImportedInv /\ [Next]_vars => ImportedInv'
  BY NamesStay, ParsedFirstStays, ImportsCountStays, ImportedStays, FaultsSpent DEF ImportedInv
<1>3. ImportedInv => ImportedMeansPosted
  BY DEF ImportedInv, ImportedCounted, ImportedMeansPosted, Steady
<1> QED
  BY <1>1, <1>2, <1>3, TypeCorrect, OrphanFree, AlwaysOneJob, AlwaysInOrder, AlwaysNamed, PTL DEF Spec
=============================================================================

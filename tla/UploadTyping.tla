---------------------------- MODULE UploadTyping ----------------------------
(***************************************************************************)
(* TypeOK is an invariant of the upload pipeline, for every choice of the  *)
(* constants.  TypeOK is inductive as it stands: it has the cursors of the *)
(* CSV worker in it, without which a staged row could lie outside its file.*)
(***************************************************************************)
EXTENDS UploadPipeline, TLAPS, SequenceTheorems, WellFoundedInduction

(* The lines of a file are numbered from 1. *)
LEMMA FileLines ==
    ASSUME NEW b \in Batches
    PROVE  /\ File[b] \in Seq(Line)
           /\ Len(File[b]) \in Nat
           /\ DOMAIN File[b] = 1 .. Len(File[b])
           /\ \A l \in DOMAIN File[b] : File[b][l] \in Line
           /\ File[b] # <<>> => 1 \in DOMAIN File[b]
<1>1. File[b] \in Seq(Line)
  BY FileAssumption
<1>2. /\ Len(File[b]) \in Nat
      /\ DOMAIN File[b] = 1 .. Len(File[b])
  BY <1>1, LenProperties
<1>3. \A l \in DOMAIN File[b] : File[b][l] \in Line
  BY <1>1, <1>2, ElementOfSeq
<1>4. File[b] # <<>> => 1 \in DOMAIN File[b]
  BY <1>1, <1>2, EmptySeq
<1>. QED
  BY <1>1, <1>2, <1>3, <1>4

(* A set of lines that is not empty has a first one. *)
LEMMA FirstOfMember ==
    ASSUME NEW lines \in SUBSET Nat, lines # {}
    PROVE  /\ FirstOf(lines) \in lines
           /\ \A k \in lines : FirstOf(lines) <= k
<1>. DEFINE R == {xy \in Nat \X Nat : xy[1] < xy[2]}
<1>1. IsWellFoundedOn(R, Nat)
  <2>1. R = OpToRel(<, Nat)
    BY DEF OpToRel
  <2>. QED
    BY <2>1, NatLessThanWellFounded
<1>2. \A k, m \in Nat : <<k, m>> \notin R => m <= k
  OBVIOUS
<1>. HIDE DEF R
<1>3. lines \subseteq Nat
  OBVIOUS
<1>4. PICK l \in lines : \A k \in lines : <<k, l>> \notin R
  BY <1>1, <1>3, WFMin
<1>5. \A k \in lines : l <= k
  BY <1>2, <1>3, <1>4
<1>. QED
  BY <1>4, <1>5 DEF FirstOf

(* SetStatus writes a status that the column admits. *)
LEMMA SetStatusType ==
    ASSUME NEW b \in Batches, NEW s \in BatchStatus, StoreTypeOK, SetStatus(b, s)
    PROVE  status' \in [Batches -> BatchStatus \cup {"unborn", "deleted"}]
  BY DEF StoreTypeOK, SetStatus

(* A handler step that leaves the tables and the queues alone. *)
LEMMA StoreFrame == StoreTypeOK /\ UNCHANGED <<tables, queues>> => StoreTypeOK'
  BY DEF StoreTypeOK, tables, queues, RecordRef, LineOf

-----------------------------------------------------------------------------
(* The CSV worker. *)

(* What a pod's run may change of its own state. *)
LEMMA CsvMove ==
    ASSUME NEW p \in Pods, CsvTypeOK, NEW step \in CsvSteps \ {"dropErrors", "dropRows", "stage"},
           csvJob[p] # NoJob, GoCsv(p, step), UNCHANGED <<csvJob, csvRow, failedEvents>>
    PROVE  CsvTypeOK'
  BY DEF CsvTypeOK, GoCsv, CsvSteps, CsvBatch

LEMMA CsvLeave ==
    ASSUME NEW p \in Pods, CsvTypeOK, LeaveCsv(p), failedEvents' \subseteq Pods \X Batches
    PROVE  CsvTypeOK'
  BY DEF CsvTypeOK, LeaveCsv, GoCsv, CsvSteps, CsvBatch, RowId

(* A run is on a batch. *)
LEMMA CsvBatchType ==
    ASSUME NEW p \in Pods, CsvTypeOK, csvPc[p] # "idle"
    PROVE  /\ csvJob[p] \in CsvJob
           /\ CsvBatch(p) \in Batches
  BY DEF CsvTypeOK, CsvBatch, CsvJob

LEMMA CsvThrowType ==
    ASSUME NEW p \in Pods, CsvTypeOK, csvPc[p] # "idle", CsvThrow(p)
    PROVE  CsvTypeOK'
<1>1. failedEvents' \subseteq Pods \X Batches
  BY CsvBatchType DEF CsvThrow, CsvTypeOK
<1>. QED
  BY <1>1, CsvLeave DEF CsvThrow

LEMMA CsvTakeType ==
    ASSUME NEW p \in Pods, StoreTypeOK, CsvTypeOK, CsvTake(p)
    PROVE  StoreTypeOK' /\ CsvTypeOK'
<1>1. /\ Head(csvQueue) \in CsvJob
      /\ Tail(csvQueue) \in Seq(CsvJob)
  BY HeadTailProperties DEF CsvTake, StoreTypeOK
<1>2. Head(csvQueue) # NoJob
  BY <1>1, NoJobAssumption
<1>3. StoreTypeOK'
  BY <1>1 DEF CsvTake, StoreTypeOK, tables
<1>4. CsvTypeOK'
  BY <1>1, <1>2 DEF CsvTake, CsvTypeOK, GoCsv, CsvSteps, CsvBatch
<1>. QED
  BY <1>3, <1>4

LEMMA CsvFindType ==
    ASSUME NEW p \in Pods, StoreTypeOK, CsvTypeOK, CsvFind(p)
    PROVE  StoreTypeOK' /\ CsvTypeOK'
<1>1. StoreTypeOK'
  BY StoreFrame DEF CsvFind
<1>2. csvPc[p] = "find" /\ csvJob[p] # NoJob
  BY DEF CsvFind, CsvTypeOK
<1>3. CASE GoCsv(p, "mark") /\ UNCHANGED <<csvJob, csvRow, failedEvents>>
  BY <1>1, <1>2, <1>3, CsvMove DEF CsvSteps
<1>4. CASE CsvThrow(p)
  BY <1>1, <1>2, <1>4, CsvThrowType
<1>. QED
  BY <1>3, <1>4 DEF CsvFind

LEMMA CsvMarkType ==
    ASSUME NEW p \in Pods, StoreTypeOK, CsvTypeOK, CsvMark(p)
    PROVE  StoreTypeOK' /\ CsvTypeOK'
<1>1. csvPc[p] = "mark" /\ csvJob[p] # NoJob /\ CsvBatch(p) \in Batches
  BY CsvBatchType DEF CsvMark, CsvTypeOK
<1>2. status' \in [Batches -> BatchStatus \cup {"unborn", "deleted"}]
  BY <1>1, SetStatusType DEF CsvMark, BatchStatus
<1>3. StoreTypeOK'
  BY <1>2 DEF CsvMark, StoreTypeOK, queues
<1>4. CsvTypeOK'
  BY <1>1, CsvMove DEF CsvMark, CsvSteps
<1>. QED
  BY <1>3, <1>4

LEMMA CsvReadType ==
    ASSUME NEW p \in Pods, StoreTypeOK, CsvTypeOK, CsvRead(p)
    PROVE  StoreTypeOK' /\ CsvTypeOK'
<1>1. csvPc[p] = "read" /\ csvJob[p] # NoJob /\ CsvBatch(p) \in Batches
  BY CsvBatchType DEF CsvRead, CsvTypeOK
<1>2. StoreTypeOK'
  BY <1>1 DEF CsvRead, StoreTypeOK, queues
<1>3. <<parses[CsvBatch(p)] + 1, 1>> \in RowId
  BY <1>1 DEF StoreTypeOK, RowId
<1>4. CsvTypeOK'
  BY <1>1, <1>3 DEF CsvRead, CsvTypeOK, GoCsv, CsvSteps, CsvBatch
<1>. QED
  BY <1>2, <1>4

LEMMA CsvDropErrorsType ==
    ASSUME NEW p \in Pods, StoreTypeOK, CsvTypeOK, CsvDropErrors(p)
    PROVE  StoreTypeOK' /\ CsvTypeOK'
<1>1. csvPc[p] = "dropErrors" /\ csvJob[p] # NoJob /\ CsvBatch(p) \in Batches
  BY CsvBatchType DEF CsvDropErrors, CsvTypeOK
<1>2. StoreTypeOK'
  BY <1>1 DEF CsvDropErrors, StoreTypeOK, queues
<1>3. CsvTypeOK'
  BY <1>1 DEF CsvDropErrors, CsvTypeOK, GoCsv, CsvSteps, CsvBatch
<1>. QED
  BY <1>2, <1>3

(* The cursor moves to a line that is a natural number. *)
LEMMA CsvMoveTo ==
    ASSUME NEW p \in Pods, CsvTypeOK, NEW l \in Nat, csvPc[p] # "idle",
           SetCsvLine(p, l), UNCHANGED <<csvJob, failedEvents>>,
           \/ GoCsv(p, "complain")
           \/ UNCHANGED csvPc /\ csvPc[p] = "complain"
           \/ UNCHANGED csvPc /\ csvPc[p] = "stage" /\ l \in DOMAIN File[CsvBatch(p)]
    PROVE  CsvTypeOK'
<1>1. <<csvRow[p][1], l>> \in RowId
  BY DEF CsvTypeOK, RowId
<1>. QED
  BY <1>1 DEF CsvTypeOK, GoCsv, SetCsvLine, CsvSteps, CsvBatch

LEMMA FailingFromLines ==
    ASSUME NEW b \in Batches, NEW l
    PROVE  FailingFrom(b, l) \in SUBSET Nat
  BY FileLines DEF FailingFrom

LEMMA AfterStagingType ==
    ASSUME NEW p \in Pods, CsvTypeOK, csvPc[p] # "idle",
           AfterStaging(p), UNCHANGED <<csvJob, failedEvents>>
    PROVE  CsvTypeOK'
<1>. DEFINE errors == FailingFrom(CsvBatch(p), 1)
<1>1. csvJob[p] # NoJob /\ CsvBatch(p) \in Batches
  BY CsvBatchType DEF CsvTypeOK
<1>2. CASE errors = {}
  BY <1>1, <1>2, CsvMove DEF AfterStaging, CsvSteps
<1>3. CASE errors # {}
  <2>1. FirstOf(errors) \in Nat
    BY <1>1, <1>3, FailingFromLines, FirstOfMember
  <2>. QED
    BY <1>3, <2>1, CsvMoveTo DEF AfterStaging
<1>. QED
  BY <1>2, <1>3

LEMMA CsvDropRowsType ==
    ASSUME NEW p \in Pods, StoreTypeOK, CsvTypeOK, CsvDropRows(p)
    PROVE  StoreTypeOK' /\ CsvTypeOK'
<1>. DEFINE b == CsvBatch(p)
<1>1. csvPc[p] = "dropRows" /\ csvJob[p] # NoJob /\ b \in Batches
  BY CsvBatchType DEF CsvDropRows, CsvTypeOK
<1>2. StoreTypeOK'
  <2>1. CASE staged' = [staged EXCEPT ![b] = {}]
    BY <1>1, <2>1 DEF CsvDropRows, StoreTypeOK, queues
  <2>2. CASE UNCHANGED staged
    BY <1>1, <2>2 DEF CsvDropRows, StoreTypeOK, queues
  <2>. QED
    BY <2>1, <2>2 DEF CsvDropRows
<1>3. CsvTypeOK'
  <2>1. CASE AfterStaging(p)
    BY <1>1, <2>1, AfterStagingType DEF CsvDropRows
  <2>2. CASE GoCsv(p, "stage") /\ UNCHANGED csvRow /\ File[b] # <<>>
    BY <1>1, <2>2, FileLines DEF CsvDropRows, CsvTypeOK, GoCsv, CsvSteps, CsvBatch
  <2>3. CASE GoCsv(p, "fail") /\ UNCHANGED csvRow
    BY <1>1, <2>3, CsvMove DEF CsvDropRows, CsvSteps
  <2>. QED
    BY <2>1, <2>2, <2>3 DEF CsvDropRows
<1>. QED
  BY <1>2, <1>3

LEMMA CsvStageType ==
    ASSUME NEW p \in Pods, StoreTypeOK, CsvTypeOK, CsvStage(p)
    PROVE  StoreTypeOK' /\ CsvTypeOK'
<1>. DEFINE b == CsvBatch(p)
            l == csvRow[p][2]
<1>1. /\ csvPc[p] = "stage" /\ csvJob[p] # NoJob /\ b \in Batches
      /\ l \in DOMAIN File[b]
      /\ CsvRowId(p) \in RowId
      /\ LineOf(CsvRowId(p)) = l
  BY CsvBatchType DEF CsvStage, CsvTypeOK, CsvRowId, RowId, LineOf
<1>2. StoreTypeOK'
  <2>1. CASE staged' = [staged EXCEPT ![b] = @ \cup {CsvRowId(p)}]
    BY <1>1, <2>1 DEF CsvStage, StoreTypeOK, queues
  <2>2. CASE UNCHANGED staged
    BY <1>1, <2>2 DEF CsvStage, StoreTypeOK, queues
  <2>. QED
    BY <2>1, <2>2 DEF CsvStage
<1>3. CsvTypeOK'
  <2>1. CASE AfterStaging(p)
    BY <1>1, <2>1, AfterStagingType DEF CsvStage
  <2>2. CASE SetCsvLine(p, l + 1) /\ UNCHANGED csvPc /\ l # Len(File[b])
    <3>1. l + 1 \in Nat /\ l + 1 \in DOMAIN File[b]
      BY <1>1, <2>2, FileLines
    <3>. QED
      BY <1>1, <2>2, <3>1, CsvMoveTo DEF CsvStage
  <2>3. CASE GoCsv(p, "fail") /\ UNCHANGED csvRow
    BY <1>1, <2>3, CsvMove DEF CsvStage, CsvSteps
  <2>. QED
    BY <2>1, <2>2, <2>3 DEF CsvStage
<1>. QED
  BY <1>2, <1>3

LEMMA CsvComplainType ==
    ASSUME NEW p \in Pods, StoreTypeOK, CsvTypeOK, CsvComplain(p)
    PROVE  StoreTypeOK' /\ CsvTypeOK'
<1>. DEFINE b == CsvBatch(p)
            later == FailingFrom(b, csvRow[p][2] + 1)
<1>1. /\ csvPc[p] = "complain" /\ csvJob[p] # NoJob /\ b \in Batches
      /\ CsvRowId(p) \in RowId
  BY CsvBatchType DEF CsvComplain, CsvTypeOK, CsvRowId, RowId
<1>2. StoreTypeOK'
  <2>1. CASE validationErrors' = [validationErrors EXCEPT ![b] = @ \cup {CsvRowId(p)}]
    BY <1>1, <2>1 DEF CsvComplain, StoreTypeOK, queues
  <2>2. CASE UNCHANGED validationErrors
    BY <1>1, <2>2 DEF CsvComplain, StoreTypeOK, queues
  <2>. QED
    BY <2>1, <2>2 DEF CsvComplain
<1>3. CsvTypeOK'
  <2>1. CASE GoCsv(p, "finish") /\ UNCHANGED csvRow
    BY <1>1, <2>1, CsvMove DEF CsvComplain, CsvSteps
  <2>2. CASE SetCsvLine(p, FirstOf(later)) /\ UNCHANGED csvPc /\ later # {}
    <3>1. FirstOf(later) \in Nat
      BY <1>1, <2>2, FailingFromLines, FirstOfMember
    <3>. QED
      BY <1>1, <2>2, <3>1, CsvMoveTo DEF CsvComplain
  <2>3. CASE GoCsv(p, "fail") /\ UNCHANGED csvRow
    BY <1>1, <2>3, CsvMove DEF CsvComplain, CsvSteps
  <2>. QED
    BY <2>1, <2>2, <2>3 DEF CsvComplain
<1>. QED
  BY <1>2, <1>3

LEMMA CsvFinishType ==
    ASSUME NEW p \in Pods, StoreTypeOK, CsvTypeOK, CsvFinish(p)
    PROVE  StoreTypeOK' /\ CsvTypeOK'
<1>1. csvPc[p] = "finish" /\ csvJob[p] # NoJob /\ CsvBatch(p) \in Batches
  BY CsvBatchType DEF CsvFinish, CsvTypeOK
<1>2. status' \in [Batches -> BatchStatus \cup {"unborn", "deleted"}]
  BY <1>1, SetStatusType DEF CsvFinish, BatchStatus
<1>3. StoreTypeOK'
  BY <1>2 DEF CsvFinish, StoreTypeOK, queues
<1>4. CsvTypeOK'
  BY <1>1, CsvMove DEF CsvFinish, CsvSteps
<1>. QED
  BY <1>3, <1>4

LEMMA CsvFailType ==
    ASSUME NEW p \in Pods, StoreTypeOK, CsvTypeOK, CsvFail(p)
    PROVE  StoreTypeOK' /\ CsvTypeOK'
<1>1. csvPc[p] = "fail" /\ csvJob[p] # NoJob /\ CsvBatch(p) \in Batches
  BY CsvBatchType DEF CsvFail, CsvTypeOK
<1>2. status' \in [Batches -> BatchStatus \cup {"unborn", "deleted"}]
  BY <1>1, SetStatusType DEF CsvFail, BatchStatus
<1>3. StoreTypeOK'
  BY <1>2 DEF CsvFail, StoreTypeOK, queues
<1>4. CsvTypeOK'
  BY <1>1, CsvMove DEF CsvFail, CsvSteps
<1>. QED
  BY <1>3, <1>4

LEMMA CsvAckType ==
    ASSUME NEW p \in Pods, StoreTypeOK, CsvTypeOK, CsvAck(p)
    PROVE  StoreTypeOK' /\ CsvTypeOK'
<1>1. failedEvents' \subseteq Pods \X Batches
  BY DEF CsvAck, CsvTypeOK
<1>. QED
  BY <1>1, StoreFrame, CsvLeave DEF CsvAck

LEMMA CsvRejectType ==
    ASSUME NEW p \in Pods, StoreTypeOK, CsvTypeOK, CsvReject(p)
    PROVE  StoreTypeOK' /\ CsvTypeOK'
<1>1. csvPc[p] # "idle"
  BY DEF CsvReject
<1>. QED
  BY <1>1, StoreFrame, CsvThrowType DEF CsvReject

LEMMA CsvFailedEventType ==
    ASSUME NEW p \in Pods, NEW b \in Batches, StoreTypeOK, CsvTypeOK, CsvFailedEvent(p, b)
    PROVE  StoreTypeOK' /\ CsvTypeOK'
<1>1. status' \in [Batches -> BatchStatus \cup {"unborn", "deleted"}]
  BY SetStatusType DEF CsvFailedEvent, BatchStatus
<1>2. StoreTypeOK'
  BY <1>1 DEF CsvFailedEvent, StoreTypeOK, queues
<1>3. CsvTypeOK'
  BY DEF CsvFailedEvent, CsvTypeOK, CsvBatch
<1>. QED
  BY <1>2, <1>3

LEMMA CsvErrorType ==
    ASSUME NEW p \in Pods, StoreTypeOK, CsvTypeOK, CsvError(p)
    PROVE  StoreTypeOK' /\ CsvTypeOK'
<1>1. StoreTypeOK'
  BY StoreFrame DEF CsvError
<1>2. csvPc[p] # "idle" => csvJob[p] # NoJob
  BY DEF CsvTypeOK
<1>3. CASE csvPc[p] # "idle" /\ CsvThrow(p)
  BY <1>1, <1>2, <1>3, CsvThrowType
<1>4. CASE csvPc[p] # "idle" /\ GoCsv(p, "fail") /\ UNCHANGED <<csvJob, csvRow, failedEvents>>
  BY <1>1, <1>2, <1>4, CsvMove DEF CsvSteps
<1>5. CASE /\ \E e \in failedEvents : failedEvents' = failedEvents \ {e}
           /\ UNCHANGED <<csvPc, csvJob, csvRow>>
  BY <1>1, <1>5 DEF CsvTypeOK, CsvBatch
<1>. QED
  BY <1>3, <1>4, <1>5 DEF CsvError, CsvSteps

LEMMA CsvStepType ==
    ASSUME NEW p \in Pods, StoreTypeOK, CsvTypeOK, CsvStep(p)
    PROVE  StoreTypeOK' /\ CsvTypeOK'
  BY CsvTakeType, CsvFindType, CsvMarkType, CsvReadType, CsvDropErrorsType,
     CsvDropRowsType, CsvStageType, CsvComplainType, CsvFinishType, CsvAckType,
     CsvFailType, CsvRejectType, CsvFailedEventType
     DEF CsvStep

-----------------------------------------------------------------------------
(* The import worker. *)

LEMMA ImportBatchType ==
    ASSUME NEW p \in Pods, ImpTypeOK, impPc[p] # "idle"
    PROVE  /\ impJob[p] \in ImportJob
           /\ ImportBatch(p) \in Batches
  BY DEF ImpTypeOK, ImportBatch, ImportJob

LEMMA ImpMove ==
    ASSUME NEW p \in Pods, ImpTypeOK, NEW step \in ImportSteps, impJob[p] # NoJob,
           GoImport(p, step), step \in {"preload", "insert"} => impLeft[p] # {},
           UNCHANGED <<impJob, impRows, impLeft, impKnown, impCount>>
    PROVE  ImpTypeOK'
  BY DEF ImpTypeOK, GoImport

LEMMA ImpLeaveType ==
    ASSUME NEW p \in Pods, ImpTypeOK, LeaveImport(p)
    PROVE  ImpTypeOK'
  BY DEF ImpTypeOK, LeaveImport, GoImport

LEMMA ImpTakeType ==
    ASSUME NEW p \in Pods, StoreTypeOK, ImpTypeOK, ImpTake(p)
    PROVE  StoreTypeOK' /\ ImpTypeOK'
<1>1. /\ Head(importQueue) \in ImportJob
      /\ Tail(importQueue) \in Seq(ImportJob)
  BY HeadTailProperties DEF ImpTake, StoreTypeOK
<1>2. Head(importQueue) # NoJob
  BY <1>1, NoJobAssumption
<1>3. StoreTypeOK'
  BY <1>1 DEF ImpTake, StoreTypeOK, tables
<1>4. ImpTypeOK'
  BY <1>1, <1>2 DEF ImpTake, ImpTypeOK, GoImport, ImportSteps
<1>. QED
  BY <1>3, <1>4

LEMMA ImpMarkType ==
    ASSUME NEW p \in Pods, StoreTypeOK, ImpTypeOK, ImpMark(p)
    PROVE  StoreTypeOK' /\ ImpTypeOK'
<1>1. impPc[p] = "mark" /\ impJob[p] # NoJob /\ ImportBatch(p) \in Batches
  BY ImportBatchType DEF ImpMark, ImpTypeOK
<1>2. status' \in [Batches -> BatchStatus \cup {"unborn", "deleted"}]
  BY <1>1, SetStatusType DEF ImpMark, BatchStatus, StoreTypeOK
<1>3. StoreTypeOK'
  BY <1>2 DEF ImpMark, StoreTypeOK, queues
<1>4. ImpTypeOK'
  BY <1>1, ImpMove DEF ImpMark, ImportSteps
<1>. QED
  BY <1>3, <1>4

LEMMA ImpSelectType ==
    ASSUME NEW p \in Pods, StoreTypeOK, ImpTypeOK, ImpSelect(p)
    PROVE  StoreTypeOK' /\ ImpTypeOK'
<1>. DEFINE rows == ValidRows(ImportBatch(p))
<1>1. impPc[p] = "select" /\ impJob[p] # NoJob /\ ImportBatch(p) \in Batches
  BY ImportBatchType DEF ImpSelect, ImpTypeOK
<1>2. StoreTypeOK'
  BY StoreFrame DEF ImpSelect
<1>3. rows \in SUBSET RowId
  BY <1>1 DEF ValidRows, StoreTypeOK
<1>. HIDE DEF rows
<1>4. PICK step \in {"none", "insert", "preload"} :
          GoImport(p, step) /\ (step # "none" => rows # {})
  BY DEF ImpSelect, rows
<1>5. /\ impRows' = [impRows EXCEPT ![p] = rows]
      /\ impLeft' = [impLeft EXCEPT ![p] = rows]
      /\ UNCHANGED <<impJob, impKnown, impCount>>
  BY DEF ImpSelect, rows
<1>6. ImpTypeOK'
  BY <1>1, <1>3, <1>4, <1>5 DEF ImpTypeOK, GoImport, ImportSteps
<1>. QED
  BY <1>2, <1>6

LEMMA ImpNoneType ==
    ASSUME NEW p \in Pods, StoreTypeOK, ImpTypeOK, ImpNone(p)
    PROVE  StoreTypeOK' /\ ImpTypeOK'
<1>1. impPc[p] = "none" /\ impJob[p] # NoJob /\ ImportBatch(p) \in Batches
  BY ImportBatchType DEF ImpNone, ImpTypeOK
<1>2. status' \in [Batches -> BatchStatus \cup {"unborn", "deleted"}]
  BY <1>1, SetStatusType DEF ImpNone, BatchStatus
<1>3. StoreTypeOK'
  BY <1>2 DEF ImpNone, StoreTypeOK, queues
<1>4. ImpTypeOK'
  BY <1>1, ImpMove DEF ImpNone, ImportSteps
<1>. QED
  BY <1>3, <1>4

LEMMA ImpPreloadType ==
    ASSUME NEW p \in Pods, StoreTypeOK, ImpTypeOK, ImpPreload(p)
    PROVE  StoreTypeOK' /\ ImpTypeOK'
<1>1. impPc[p] = "preload" /\ impJob[p] # NoJob
  BY DEF ImpPreload, ImpTypeOK
<1>2. StoreTypeOK'
  BY StoreFrame DEF ImpPreload
<1>3. Preloaded(p) \in SUBSET (Refs \cup {Undefined})
  BY DEF Preloaded
<1>4. ImpTypeOK'
  BY <1>1, <1>3 DEF ImpPreload, ImpTypeOK, GoImport, ImportSteps
<1>. QED
  BY <1>2, <1>4

(* The loop goes to its next row, or leaves once there is none. *)
LEMMA AdvanceType ==
    ASSUME NEW p \in Pods, ImpTypeOK, impPc[p] = "insert", Advance(p),
           UNCHANGED <<impJob, impRows>>,
           impKnown' \in [Pods -> SUBSET (Refs \cup {Undefined})],
           impCount' \in [Pods -> Nat]
    PROVE  ImpTypeOK'
<1>. DEFINE row == NextRow(p)
<1>. HIDE DEF row
<1>1. impLeft' = [impLeft EXCEPT ![p] = @ \ {row}]
  BY DEF Advance, row
<1>2. /\ impPc' \in [Pods -> ImportSteps \cup {"idle"}]
      /\ \A q \in Pods : impPc'[q] # "idle" => impPc[q] # "idle"
      /\ \A q \in Pods : impPc'[q] \in {"preload", "insert"} => impPc[q] = impPc'[q]
      /\ impPc'[p] = "insert" => impLeft[p] # {row}
  BY DEF Advance, row, GoImport, ImpTypeOK, ImportSteps
<1>3. impPc'[p] = "insert" => impLeft'[p] # {}
  BY <1>1, <1>2 DEF ImpTypeOK
<1>4. /\ impLeft' \in [Pods -> SUBSET RowId]
      /\ \A q \in Pods : impLeft'[q] \subseteq impRows[q]
      /\ \A q \in Pods \ {p} : impLeft'[q] = impLeft[q]
  BY <1>1 DEF ImpTypeOK
<1>. QED
  BY <1>2, <1>3, <1>4 DEF ImpTypeOK

LEMMA ImpInsertType ==
    ASSUME NEW p \in Pods, StoreTypeOK, ImpTypeOK, ImpInsert(p)
    PROVE  StoreTypeOK' /\ ImpTypeOK'
<1>. DEFINE row == NextRow(p)
            b == ImportBatch(p)
<1>. HIDE DEF row
<1>1. impPc[p] = "insert" /\ impJob[p] \in ImportJob /\ b \in Batches
  BY ImportBatchType DEF ImpInsert
<1>2. row \in staged[b]
  BY DEF ImpInsert, Insertable, row
<1>3. row \in RowId /\ LineOf(row) \in DOMAIN File[b]
  BY <1>1, <1>2 DEF StoreTypeOK
<1>4. RowRef(p, row) \in Refs \cup {NoRef}
  BY <1>1, <1>3, FileLines DEF RowRef, Ref, Line
<1>5. StoreTypeOK'
  <2>1. records' = records \cup {[job |-> impJob[p], row |-> row]}
    BY DEF ImpInsert, row
  <2>2. [job |-> impJob[p], row |-> row] \in Record
    BY <1>1, <1>3 DEF Record
  <2>3. records' \subseteq Record
    BY <2>1, <2>2 DEF StoreTypeOK
  <2>4. \A r \in records' : LineOf(r.row) \in DOMAIN File[r.job.batch]
    BY <1>3, <2>1 DEF StoreTypeOK, ImportBatch
  <2>. QED
    BY <2>3, <2>4 DEF ImpInsert, StoreTypeOK, queues
<1>6. /\ impKnown' \in [Pods -> SUBSET (Refs \cup {Undefined})]
      /\ impCount' \in [Pods -> Nat]
  BY <1>4 DEF ImpInsert, ImpTypeOK, row
<1>7. ImpTypeOK'
  BY <1>1, <1>6, AdvanceType DEF ImpInsert
<1>. QED
  BY <1>5, <1>7

LEMMA ImpSkipType ==
    ASSUME NEW p \in Pods, StoreTypeOK, ImpTypeOK, ImpSkip(p)
    PROVE  StoreTypeOK' /\ ImpTypeOK'
  BY StoreFrame, AdvanceType DEF ImpSkip, ImpTypeOK

LEMMA ImpFinishType ==
    ASSUME NEW p \in Pods, StoreTypeOK, ImpTypeOK, ImpFinish(p)
    PROVE  StoreTypeOK' /\ ImpTypeOK'
<1>1. impPc[p] = "finish" /\ impJob[p] # NoJob /\ ImportBatch(p) \in Batches
  BY ImportBatchType DEF ImpFinish, ImpTypeOK
<1>2. FinalStatus(p) \in BatchStatus
  BY DEF FinalStatus, BatchStatus
<1>3. status' \in [Batches -> BatchStatus \cup {"unborn", "deleted"}]
  BY <1>1, <1>2, SetStatusType DEF ImpFinish
<1>4. StoreTypeOK'
  BY <1>3 DEF ImpFinish, StoreTypeOK, queues
<1>5. ImpTypeOK'
  BY <1>1, ImpMove DEF ImpFinish, ImportSteps
<1>. QED
  BY <1>4, <1>5

LEMMA ImpAckType ==
    ASSUME NEW p \in Pods, StoreTypeOK, ImpTypeOK, ImpAck(p)
    PROVE  StoreTypeOK' /\ ImpTypeOK'
  BY StoreFrame, ImpLeaveType DEF ImpAck

LEMMA ImpErrorType ==
    ASSUME NEW p \in Pods, StoreTypeOK, ImpTypeOK, ImpError(p)
    PROVE  StoreTypeOK' /\ ImpTypeOK'
<1>1. StoreTypeOK'
  BY StoreFrame DEF ImpError
<1>2. CASE /\ impPc[p] = "insert"
           /\ Advance(p)
           /\ UNCHANGED <<impJob, impRows, impKnown, impCount>>
  BY <1>1, <1>2, AdvanceType DEF ImpTypeOK
<1>3. CASE LeaveImport(p)
  BY <1>1, <1>3, ImpLeaveType
<1>. QED
  BY <1>2, <1>3 DEF ImpError

LEMMA ImpStepType ==
    ASSUME NEW p \in Pods, StoreTypeOK, ImpTypeOK, ImpStep(p)
    PROVE  StoreTypeOK' /\ ImpTypeOK'
  BY ImpTakeType, ImpMarkType, ImpSelectType, ImpNoneType, ImpPreloadType,
     ImpInsertType, ImpSkipType, ImpFinishType, ImpAckType
     DEF ImpStep

-----------------------------------------------------------------------------
(* The requests. *)

LEMMA GoType ==
    ASSUME NEW c \in Clients, ApiTypeOK, NEW step \in RequestSteps \cup Outcomes, Go(c, step)
    PROVE  reqPc' \in [Clients -> RequestSteps \cup Outcomes \cup {"new"}]
  BY DEF ApiTypeOK, Go

LEMMA AskType ==
    ASSUME NEW c \in Clients, ApiTypeOK, NEW op \in Operations,
           NEW step \in RequestSteps \cup Outcomes, Ask(c, op, step)
    PROVE  /\ reqOp' \in [Clients -> Operations \cup {"none"}]
           /\ reqPc' \in [Clients -> RequestSteps \cup Outcomes \cup {"new"}]
  BY GoType DEF ApiTypeOK, Ask

LEMMA EventType ==
    ASSUME NEW c \in Clients, ApiTypeOK
    PROVE  EventOf(c) \in Event
  BY DEF ApiTypeOK, EventOf, Event

LEMMA RequestType ==
    ASSUME NEW c \in Clients, StoreTypeOK, ApiTypeOK, Request(c)
    PROVE  StoreTypeOK' /\ ApiTypeOK'
<1>1. ASSUME NEW b \in Batches, Upload(c, b)
      PROVE  StoreTypeOK' /\ ApiTypeOK'
  <2>1. StoreTypeOK'
    BY <1>1 DEF Upload, StoreTypeOK, BatchStatus, queues
  <2>2. ApiTypeOK'
    BY <1>1, AskType DEF Upload, ApiTypeOK, Operations, RequestSteps
  <2>. QED
    BY <2>1, <2>2
<1>2. ASSUME NEW b \in Batches, Confirm(c, b)
      PROVE  StoreTypeOK' /\ ApiTypeOK'
  <2>1. StoreTypeOK'
    BY <1>2, StoreFrame DEF Confirm
  <2>2. PICK step \in {"recheck", "load"} : Ask(c, "confirm", step)
    BY <1>2 DEF Confirm
  <2>3. ApiTypeOK'
    BY <1>2, <2>2, AskType DEF Confirm, ApiTypeOK, Operations, RequestSteps
  <2>. QED
    BY <2>1, <2>3
<1>3. ASSUME NEW b \in Batches, Cancel(c, b)
      PROVE  StoreTypeOK' /\ ApiTypeOK'
  <2>1. StoreTypeOK'
    BY <1>3, StoreFrame DEF Cancel
  <2>2. PICK step \in {"writeCancel", "error"} : Ask(c, "cancel", step)
    BY <1>3 DEF Cancel
  <2>3. ApiTypeOK'
    BY <1>3, <2>2, AskType DEF Cancel, ApiTypeOK, Operations, RequestSteps, Outcomes
  <2>. QED
    BY <2>1, <2>3
<1>4. ASSUME NEW ids \in SUBSET Batches, Delete(c, ids)
      PROVE  StoreTypeOK' /\ ApiTypeOK'
  <2>1. StoreTypeOK'
    BY <1>4, StoreFrame DEF Delete
  <2>2. ApiTypeOK'
    BY <1>4, AskType DEF Delete, ApiTypeOK, Operations, RequestSteps
  <2>. QED
    BY <2>1, <2>2
<1>5. CASE DeleteAll(c)
  <2>1. StoreTypeOK'
    BY <1>5, StoreFrame DEF DeleteAll
  <2>2. ApiTypeOK'
    BY <1>5, AskType DEF DeleteAll, ApiTypeOK, Operations, RequestSteps
  <2>. QED
    BY <2>1, <2>2
<1>. QED
  BY <1>1, <1>2, <1>3, <1>4, <1>5 DEF Request

(* A handler goes on, and keeps what its request is about. *)
LEMMA ApiMove ==
    ASSUME NEW c \in Clients, ApiTypeOK, NEW step \in RequestSteps \cup Outcomes,
           Go(c, step), UNCHANGED <<reqOp, reqBatch, reqIds, reqNr>>
    PROVE  ApiTypeOK'
  BY GoType DEF ApiTypeOK

(* The upload handler. *)
LEMMA UploadHandlerType ==
    ASSUME NEW c \in Clients, StoreTypeOK, ApiTypeOK,
           EnqueueCsv(c) \/ QueueEvent(c) \/ MarkFailed(c)
    PROVE  StoreTypeOK' /\ ApiTypeOK'
<1>. reqBatch[c] \in Batches
  BY DEF ApiTypeOK
<1>1. CASE EnqueueCsv(c)
  <2>1. [batch |-> reqBatch[c], stalls |-> 0] \in CsvJob
    BY DEF CsvJob
  <2>2. csvQueue' \in Seq(CsvJob)
    BY <1>1, <2>1, AppendProperties DEF EnqueueCsv, StoreTypeOK
  <2>3. StoreTypeOK'
    BY <1>1, <2>2 DEF EnqueueCsv, StoreTypeOK, tables
  <2>. QED
    BY <1>1, <2>3, ApiMove DEF EnqueueCsv, RequestSteps
<1>2. CASE QueueEvent(c)
  <2>1. /\ outbox' \subseteq Event
        /\ outboxQueue' \in Seq(Event)
    BY <1>2, EventType, AppendProperties DEF QueueEvent, StoreTypeOK
  <2>2. StoreTypeOK'
    BY <1>2, <2>1 DEF QueueEvent, StoreTypeOK
  <2>3. PICK step \in Outcomes : Go(c, step)
    BY <1>2 DEF QueueEvent, Outcomes
  <2>. QED
    BY <1>2, <2>2, <2>3, ApiMove DEF QueueEvent
<1>3. CASE MarkFailed(c)
  <2>1. status' \in [Batches -> BatchStatus \cup {"unborn", "deleted"}]
    BY <1>3, SetStatusType DEF MarkFailed, BatchStatus
  <2>2. StoreTypeOK'
    BY <1>3, <2>1 DEF MarkFailed, StoreTypeOK, queues
  <2>. QED
    BY <1>3, <2>2, ApiMove DEF MarkFailed, Outcomes
<1>. QED
  BY <1>1, <1>2, <1>3

(* The confirmation handler, but for QueueEvent. *)
LEMMA ConfirmHandlerType ==
    ASSUME NEW c \in Clients, StoreTypeOK, ApiTypeOK,
           Recheck(c) \/ DropKey(c) \/ Load(c) \/ PutKey(c) \/ EnqueueImport(c)
    PROVE  StoreTypeOK' /\ ApiTypeOK'
<1>. reqBatch[c] \in Batches /\ ActorOf[c] \in Actors
  BY ClientAssumption DEF ApiTypeOK
<1>1. CASE Recheck(c)
  <2>1. PICK step \in {"dropKey", "cached"} : Go(c, step)
    BY <1>1 DEF Recheck
  <2>. QED
    BY <1>1, <2>1, StoreFrame, ApiMove DEF Recheck, RequestSteps, Outcomes
<1>2. CASE DropKey(c)
  <2>1. StoreTypeOK'
    BY <1>2 DEF DropKey, StoreTypeOK, queues
  <2>. QED
    BY <1>2, <2>1, ApiMove DEF DropKey, RequestSteps
<1>3. CASE Load(c)
  <2>1. PICK step \in {"putKey", "error"} : Go(c, step)
    BY <1>3 DEF Load
  <2>. QED
    BY <1>3, <2>1, StoreFrame, ApiMove DEF Load, RequestSteps, Outcomes
<1>4. CASE PutKey(c)
  <2>1. StoreTypeOK'
    BY <1>4 DEF PutKey, KeyOf, StoreTypeOK, queues
  <2>2. PICK step \in {"error", "enqueueImport"} : Go(c, step)
    BY <1>4 DEF PutKey
  <2>. QED
    BY <1>4, <2>1, <2>2, ApiMove DEF PutKey, RequestSteps, Outcomes
<1>5. CASE EnqueueImport(c)
  <2>. DEFINE job == [batch |-> reqBatch[c], actor |-> ActorOf[c],
                      nr |-> importJobs + 1, stalls |-> 0]
  <2>1. importJobs + 1 \in Nat /\ job \in ImportJob
    BY DEF StoreTypeOK, ImportJob
  <2>2. importQueue' \in Seq(ImportJob)
    BY <1>5, <2>1, AppendProperties DEF EnqueueImport, StoreTypeOK
  <2>3. StoreTypeOK'
    BY <1>5, <2>1, <2>2 DEF EnqueueImport, StoreTypeOK, tables
  <2>4. ApiTypeOK'
    BY <1>5, <2>1, GoType DEF EnqueueImport, ApiTypeOK, RequestSteps
  <2>. QED
    BY <2>3, <2>4
<1>. QED
  BY <1>1, <1>2, <1>3, <1>4, <1>5

(* The cancel and delete handlers. *)
LEMMA RemovalHandlerType ==
    ASSUME NEW c \in Clients, StoreTypeOK, ApiTypeOK,
           WriteCancel(c) \/ DropErrors(c) \/ DropRecords(c) \/ DropRows(c) \/ DropBatches(c)
    PROVE  StoreTypeOK' /\ ApiTypeOK'
<1>. reqBatch[c] \in Batches
  BY DEF ApiTypeOK
<1>1. CASE WriteCancel(c)
  <2>1. status' \in [Batches -> BatchStatus \cup {"unborn", "deleted"}]
    BY <1>1, SetStatusType DEF WriteCancel, BatchStatus
  <2>2. StoreTypeOK'
    BY <1>1, <2>1 DEF WriteCancel, StoreTypeOK, queues
  <2>. QED
    BY <1>1, <2>2, ApiMove DEF WriteCancel, Outcomes
<1>2. CASE DropErrors(c)
  <2>1. StoreTypeOK'
    BY <1>2 DEF DropErrors, StoreTypeOK, queues
  <2>. QED
    BY <1>2, <2>1, ApiMove DEF DropErrors, RequestSteps
<1>3. CASE DropRecords(c)
  <2>1. StoreTypeOK'
    BY <1>3 DEF DropRecords, StoreTypeOK, queues
  <2>. QED
    BY <1>3, <2>1, ApiMove DEF DropRecords, RequestSteps
<1>4. CASE DropRows(c)
  <2>1. staged' \in [Batches -> SUBSET RowId] /\ \A b \in Batches : staged'[b] \subseteq staged[b]
    BY <1>4 DEF DropRows, StoreTypeOK
  <2>2. StoreTypeOK'
    BY <1>4, <2>1 DEF DropRows, StoreTypeOK, queues
  <2>3. PICK step \in {"dropBatches", "error"} : Go(c, step)
    BY <1>4 DEF DropRows
  <2>. QED
    BY <1>4, <2>2, <2>3, ApiMove DEF DropRows, RequestSteps, Outcomes
<1>5. CASE DropBatches(c)
  <2>1. status' \in [Batches -> BatchStatus \cup {"unborn", "deleted"}]
    BY <1>5 DEF DropBatches, StoreTypeOK
  <2>2. StoreTypeOK'
    BY <1>5, <2>1 DEF DropBatches, StoreTypeOK, queues
  <2>3. PICK step \in Outcomes : Go(c, step)
    BY <1>5 DEF DropBatches, Outcomes
  <2>. QED
    BY <1>5, <2>2, <2>3, ApiMove DEF DropBatches
<1>. QED
  BY <1>1, <1>2, <1>3, <1>4, <1>5

(* An error or the end of the process. *)
LEMMA ApiMishapType ==
    ASSUME NEW c \in Clients, StoreTypeOK, ApiTypeOK, ApiError(c) \/ ApiCrash(c)
    PROVE  StoreTypeOK' /\ ApiTypeOK'
<1>1. outbox' \subseteq Event
  BY EventType DEF ApiError, ApiCrash, EventLeftBehind, StoreTypeOK
<1>2. StoreTypeOK'
  BY <1>1 DEF ApiError, ApiCrash, StoreTypeOK, queues
<1>3. PICK step \in {"markFailed", "error"} : Go(c, step)
  BY DEF ApiError, ApiCrash
<1>4. ApiTypeOK'
  BY <1>3, ApiMove DEF ApiError, ApiCrash, RequestSteps, Outcomes
<1>. QED
  BY <1>2, <1>4

-----------------------------------------------------------------------------
(* The pipeline. *)

LEMMA InitType == Init => TypeOK
<1>. SUFFICES ASSUME Init PROVE TypeOK
  OBVIOUS
<1>1. StoreTypeOK
  BY RefAssumption, EmptySeq DEF Init, StoreInit, StoreTypeOK
<1>2. CsvTypeOK
  BY DEF Init, CsvInit, CsvTypeOK, RowId
<1>3. ImpTypeOK
  BY DEF Init, ImpInit, ImpTypeOK
<1>4. ApiTypeOK
  BY BatchAssumption DEF Init, ApiInit, ApiTypeOK
<1>5. left \in [MishapKinds -> Nat]
  BY MishapAssumption DEF Init
<1>. QED
  BY <1>1, <1>2, <1>3, <1>4, <1>5 DEF TypeOK

(* Each part of TypeOK reads the variables of its module only. *)
LEMMA CsvFrame == CsvTypeOK /\ UNCHANGED csvVars => CsvTypeOK'
  BY DEF CsvTypeOK, csvVars, CsvBatch

LEMMA ImpFrame == ImpTypeOK /\ UNCHANGED impVars => ImpTypeOK'
  BY DEF ImpTypeOK, impVars

LEMMA ApiFrame == ApiTypeOK /\ UNCHANGED reqVars => ApiTypeOK'
  BY DEF ApiTypeOK, reqVars

LEMMA SufferType ==
    ASSUME NEW kind \in MishapKinds, left \in [MishapKinds -> Nat], Suffer(kind)
    PROVE  left' \in [MishapKinds -> Nat]
  BY DEF Suffer

LEMMA CrashType ==
    ASSUME NEW p \in Pods, TypeOK, Crash(p)
    PROVE  TypeOK'
<1>1. /\ csvPc[p] # "idle" => csvJob[p] \in CsvJob
      /\ impPc[p] # "idle" => impJob[p] \in ImportJob
  BY CsvBatchType, ImportBatchType DEF TypeOK
<1>2. /\ csvStalled' \subseteq CsvJob
      /\ importStalled' \subseteq ImportJob
  BY <1>1 DEF Crash, TypeOK, StoreTypeOK
<1>3. StoreTypeOK'
  BY <1>2 DEF Crash, TypeOK, StoreTypeOK, tables
<1>4. failedEvents' \subseteq Pods \X Batches
  BY DEF Crash, TypeOK, CsvTypeOK
<1>5. CsvTypeOK' /\ ImpTypeOK' /\ ApiTypeOK'
  BY <1>4, CsvLeave, ImpLeaveType, ApiFrame DEF Crash, TypeOK
<1>6. left' \in [MishapKinds -> Nat]
  BY SufferType DEF Crash, TypeOK, MishapKinds
<1>. QED
  BY <1>3, <1>5, <1>6 DEF TypeOK

(* A redelivered job differs from the stalled one in its count only.       *)
LEMMA AgainType ==
    /\ \A job \in CsvJob : Again(job) \in CsvJob
    /\ \A job \in ImportJob : /\ Again(job) \in ImportJob
                              /\ Again(job).batch = job.batch
                              /\ Again(job).actor = job.actor
                              /\ Again(job).nr = job.nr
<1>1. \A job \in CsvJob : Again(job) = [batch |-> job.batch, stalls |-> job.stalls + 1]
  BY DEF CsvJob, Again
<1>2. \A job \in ImportJob : Again(job) = [batch |-> job.batch, actor |-> job.actor,
                                          nr |-> job.nr, stalls |-> job.stalls + 1]
  BY DEF ImportJob, Again
<1>. QED
  BY <1>1, <1>2 DEF CsvJob, ImportJob

LEMMA RequeueCsvType ==
    ASSUME NEW job \in csvStalled, TypeOK, RequeueCsv(job)
    PROVE  TypeOK'
<1>1. job \in CsvJob /\ Again(job) \in CsvJob /\ job.batch \in Batches
  <2>1. job \in CsvJob
    BY DEF TypeOK, StoreTypeOK
  <2>. QED
    BY <2>1, AgainType DEF CsvJob
<1>2. <<Again(job)>> \o csvQueue \in Seq(CsvJob)
  BY <1>1, ConcatProperties DEF TypeOK, StoreTypeOK
<1>3. StoreTypeOK'
  BY <1>2 DEF RequeueCsv, TypeOK, StoreTypeOK, tables
<1>4. failedEvents' \subseteq Pods \X Batches
  BY <1>1 DEF RequeueCsv, TypeOK, CsvTypeOK
<1>5. CsvTypeOK'
  BY <1>4 DEF RequeueCsv, TypeOK, CsvTypeOK, CsvBatch
<1>. QED
  BY <1>3, <1>5, ImpFrame, ApiFrame DEF RequeueCsv, TypeOK

LEMMA RequeueImportType ==
    ASSUME NEW job \in importStalled, TypeOK, RequeueImport(job)
    PROVE  TypeOK'
<1>1. Again(job) \in ImportJob
  BY AgainType DEF TypeOK, StoreTypeOK
<1>2. <<Again(job)>> \o importQueue \in Seq(ImportJob)
  BY <1>1, ConcatProperties DEF TypeOK, StoreTypeOK
<1>3. StoreTypeOK'
  BY <1>2 DEF RequeueImport, TypeOK, StoreTypeOK, tables
<1>. QED
  BY <1>3, CsvFrame, ImpFrame, ApiFrame DEF RequeueImport, TypeOK

LEMMA StutterType == TypeOK /\ UNCHANGED vars => TypeOK'
  BY StoreFrame, CsvFrame, ImpFrame, ApiFrame DEF TypeOK, vars

LEMMA NextType == TypeOK /\ [Next]_vars => TypeOK'
<1>. SUFFICES ASSUME TypeOK, [Next]_vars PROVE TypeOK'
  OBVIOUS
<1>1. ASSUME NEW p \in Pods, CsvWork(p) PROVE TypeOK'
  BY <1>1, CsvStepType, ImpFrame, ApiFrame DEF CsvWork, TypeOK
<1>2. ASSUME NEW p \in Pods, ImportWork(p) PROVE TypeOK'
  BY <1>2, ImpStepType, CsvFrame, ApiFrame DEF ImportWork, TypeOK
<1>3. ASSUME NEW p \in Pods, WorkerFault(p) PROVE TypeOK'
  <2>1. left' \in [MishapKinds -> Nat]
    BY <1>3, SufferType DEF WorkerFault, TypeOK, MishapKinds
  <2>. QED
    BY <1>3, <2>1, CsvErrorType, ImpErrorType, CsvFrame, ImpFrame, ApiFrame
       DEF WorkerFault, TypeOK
<1>4. ASSUME NEW p \in Pods, Crash(p) PROVE TypeOK'
  BY <1>4, CrashType
<1>5. ASSUME NEW c \in Clients, UserAsks(c) PROVE TypeOK'
  BY <1>5, RequestType, CsvFrame, ImpFrame DEF UserAsks, TypeOK
<1>6. ASSUME NEW c \in Clients, ApiWork(c) PROVE TypeOK'
  BY <1>6, UploadHandlerType, ConfirmHandlerType, RemovalHandlerType, CsvFrame, ImpFrame
     DEF ApiWork, Handle, TypeOK
<1>7. ASSUME NEW c \in Clients, ApiMishap(c) PROVE TypeOK'
  <2>1. left' \in [MishapKinds -> Nat]
    BY <1>7, SufferType DEF ApiMishap, TypeOK, MishapKinds
  <2>. QED
    BY <1>7, <2>1, ApiMishapType, CsvFrame, ImpFrame DEF ApiMishap, TypeOK
<1>8. CASE Requeue
  BY <1>8, RequeueCsvType, RequeueImportType DEF Requeue
<1>9. CASE Quiet \/ UNCHANGED vars
  BY <1>9, StutterType DEF Quiet
<1>. QED
  BY <1>1, <1>2, <1>3, <1>4, <1>5, <1>6, <1>7, <1>8, <1>9 DEF Next

(* Every variable of the pipeline keeps its type, whatever the batches,    *)
(* files, pods, requests and mishaps: statuses are members of the ENUM of  *)
(* upload_batches, a staged row and a posted record come from a line that  *)
(* its batch has, and a busy worker has the job it runs.                   *)
THEOREM TypeCorrect == Spec => []TypeOK
<1>. QED
  BY InitType, NextType, PTL DEF Spec
=============================================================================

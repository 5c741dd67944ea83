--------------------------- MODULE ImportProcessor --------------------------
(***************************************************************************)
(* The import worker: ImportProcessor.handle, run by the BullMQ worker of  *)
(* each pod on the import queue (concurrency 1).  It posts the valid rows  *)
(* of a confirmed batch to investment_records, one INSERT after another.   *)
(***************************************************************************)
EXTENDS UploadStore

CONSTANT Undefined  \* the value of a property that a JavaScript object lacks

ASSUME UndefinedAssumption == Undefined \notin Refs

VARIABLES
    impPc,      \* where the pod's run is, "idle" between two jobs
    impJob,     \* the job it runs
    impRows,    \* rows: what its SELECT returned
    impLeft,    \* the rows its loop has not come to
    impKnown,   \* existingRefs
    impCount    \* importedCount

impVars == <<impPc, impJob, impRows, impLeft, impKnown, impCount>>

ImportSteps == {"mark", "select", "none", "preload", "insert", "finish", "ack"}

GoImport(p, step) == impPc' = [impPc EXCEPT ![p] = step]

(* The run is over: nothing of it is kept. *)
LeaveImport(p) ==
    /\ GoImport(p, "idle")
    /\ impJob' = [impJob EXCEPT ![p] = NoJob]
    /\ impRows' = [impRows EXCEPT ![p] = {}]
    /\ impLeft' = [impLeft EXCEPT ![p] = {}]
    /\ impKnown' = [impKnown EXCEPT ![p] = {}]
    /\ impCount' = [impCount EXCEPT ![p] = 0]

ImportBatch(p) == impJob[p].batch
RowRef(p, row) == Ref(ImportBatch(p), LineOf(row))

ImpTake(p) ==
    /\ impPc[p] = "idle"
    /\ importQueue # <<>>
    /\ impJob' = [impJob EXCEPT ![p] = Head(importQueue)]
    /\ importQueue' = Tail(importQueue)
    /\ GoImport(p, "mark")
    /\ UNCHANGED <<tables, csvQueue, csvStalled, importStalled, importJobs,
                   outboxQueue, impRows, impLeft, impKnown, impCount>>

(* UPDATE ... WHERE status IN (...): the handler goes on whether or not    *)
(* the statement matched the batch.                                        *)
Importable == {"validated", "partially_imported"}

(* Mutant: the handler stops when the statement matched nothing. *)
ImpMarkOrStop(p) ==
    /\ impPc[p] = "mark"
    /\ IF status[ImportBatch(p)] \in Importable
       THEN SetStatus(ImportBatch(p), "importing") /\ GoImport(p, "select")
       ELSE UNCHANGED status /\ GoImport(p, "ack")
    /\ UNCHANGED <<parses, staged, validationErrors, records, outside, keys, outbox,
                   queues, impJob, impRows, impLeft, impKnown, impCount>>

ImpMark(p) ==
    /\ impPc[p] = "mark"
    /\ IF status[ImportBatch(p)] \in Importable
       THEN SetStatus(ImportBatch(p), "importing")
       ELSE UNCHANGED status
    /\ GoImport(p, "select")
    /\ UNCHANGED <<parses, staged, validationErrors, records, outside, keys, outbox,
                   queues, impJob, impRows, impLeft, impKnown, impCount>>

(* Mutant: no condition on row_status. *)
AllRows(b) == staged[b]

ValidRows(b) == {row \in staged[b] : LineOf(row) \in Valid(b)}

ImpSelect(p) ==
    LET rows == ValidRows(ImportBatch(p)) IN
    /\ impPc[p] = "select"
    /\ impRows' = [impRows EXCEPT ![p] = rows]
    /\ impLeft' = [impLeft EXCEPT ![p] = rows]
    /\ GoImport(p, IF rows = {} THEN "none"
                   ELSE IF \A row \in rows : RowRef(p, row) = NoRef THEN "insert"
                   ELSE "preload")
    /\ UNCHANGED <<tables, queues, impJob, impKnown, impCount>>

ImpNone(p) ==
    /\ impPc[p] = "none"
    /\ SetStatus(ImportBatch(p), "imported")
    /\ GoImport(p, "ack")
    /\ UNCHANGED <<parses, staged, validationErrors, records, outside, keys, outbox,
                   queues, impJob, impRows, impLeft, impKnown, impCount>>

(* Mutant: new Set(refs) instead of the references that were found. *)
PreloadedAll(p) == {RowRef(p, row) : row \in impRows[p]} \ {NoRef}

(* existing.map((r) => r.investment_reference) on rows whose keys the row  *)
(* mapper turned into camel case: every element is undefined.              *)
Preloaded(p) ==
    IF \E row \in impRows[p] : Taken(RowRef(p, row)) THEN {Undefined} ELSE {}

ImpPreload(p) ==
    /\ impPc[p] = "preload"
    /\ impKnown' = [impKnown EXCEPT ![p] = Preloaded(p)]
    /\ GoImport(p, "insert")
    /\ UNCHANGED <<tables, queues, impJob, impRows, impLeft, impCount>>

(* Rows come in the order of their line. *)
NextRow(p) == CHOOSE row \in impLeft[p] :
                  \A other \in impLeft[p] : LineOf(row) <= LineOf(other)

Advance(p) ==
    /\ impLeft' = [impLeft EXCEPT ![p] = @ \ {NextRow(p)}]
    /\ IF impLeft[p] = {NextRow(p)} THEN GoImport(p, "finish") ELSE UNCHANGED impPc

(* The reference is in existingRefs: no INSERT. *)
Skips(p) == RowRef(p, NextRow(p)) # NoRef /\ RowRef(p, NextRow(p)) \in impKnown[p]

ImpInsert(p) ==
    LET row == NextRow(p)
        ref == RowRef(p, row) IN
    /\ impPc[p] = "insert"
    /\ ~Skips(p)
    /\ Insertable(ImportBatch(p), row)
    /\ records' = records \cup {[job |-> impJob[p], row |-> row]}
    /\ impKnown' = [impKnown EXCEPT ![p] = IF ref = NoRef THEN @ ELSE @ \cup {ref}]
    /\ impCount' = [impCount EXCEPT ![p] = @ + 1]
    /\ Advance(p)
    /\ UNCHANGED <<status, parses, staged, validationErrors, outside, keys, outbox,
                   queues, impJob, impRows>>

(* The row is known, or the database refuses it: a caught error only logs. *)
ImpSkip(p) ==
    /\ impPc[p] = "insert"
    /\ Skips(p) \/ ~Insertable(ImportBatch(p), NextRow(p))
    /\ Advance(p)
    /\ UNCHANGED <<tables, queues, impJob, impRows, impKnown, impCount>>

(* Mutant: the final status of a report instead of an upload. *)
FinalStatusCompleted(p) == "completed"

(* totalNow counts an inserted row twice when it has a reference: once in  *)
(* importedCount, once in existingRefs.                                    *)
FinalStatus(p) ==
    IF impCount[p] + Cardinality(impKnown[p]) >= Cardinality(impRows[p]) THEN "imported"
    ELSE IF impCount[p] > 0 THEN "partially_imported"
    ELSE "imported"

ImpFinish(p) ==
    /\ impPc[p] = "finish"
    /\ SetStatus(ImportBatch(p), FinalStatus(p))
    /\ GoImport(p, "ack")
    /\ UNCHANGED <<parses, staged, validationErrors, records, outside, keys, outbox,
                   queues, impJob, impRows, impLeft, impKnown, impCount>>

(* BullMQ moves the job to the completed set. *)
ImpAck(p) ==
    /\ impPc[p] = "ack"
    /\ LeaveImport(p)
    /\ UNCHANGED <<tables, queues>>

(* A statement fails for a reason of its own.  Around the INSERT it is     *)
(* caught like a refusal and the row is skipped; anywhere else the job     *)
(* fails (attempts is 1, and no listener touches the batch).               *)
ImpError(p) ==
    /\ \/ /\ impPc[p] = "insert"
          /\ ~Skips(p)
          /\ Advance(p)
          /\ UNCHANGED <<impJob, impRows, impKnown, impCount>>
       \/ /\ impPc[p] \in ImportSteps \ {"insert", "ack"}
          /\ LeaveImport(p)
    /\ UNCHANGED <<tables, queues>>

ImpStep(p) ==
    \/ ImpTake(p) \/ ImpMark(p) \/ ImpSelect(p) \/ ImpNone(p) \/ ImpPreload(p)
    \/ ImpInsert(p) \/ ImpSkip(p) \/ ImpFinish(p) \/ ImpAck(p)

ImpInit ==
    /\ impPc = [p \in Pods |-> "idle"]
    /\ impJob = [p \in Pods |-> NoJob]
    /\ impRows = [p \in Pods |-> {}]
    /\ impLeft = [p \in Pods |-> {}]
    /\ impKnown = [p \in Pods |-> {}]
    /\ impCount = [p \in Pods |-> 0]

ImpTypeOK ==
    /\ impPc \in [Pods -> ImportSteps \cup {"idle"}]
    /\ impJob \in [Pods -> ImportJob \cup {NoJob}]
    /\ \A p \in Pods : impPc[p] # "idle" => impJob[p] # NoJob
    /\ impRows \in [Pods -> SUBSET RowId]
    /\ impLeft \in [Pods -> SUBSET RowId]
    /\ \A p \in Pods : impLeft[p] \subseteq impRows[p]
    /\ \A p \in Pods : impPc[p] \in {"preload", "insert"} => impLeft[p] # {}
    /\ impKnown \in [Pods -> SUBSET (Refs \cup {Undefined})]
    /\ impCount \in [Pods -> Nat]
=============================================================================

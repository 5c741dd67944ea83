---------------------------- MODULE UploadStore ----------------------------
(***************************************************************************)
(* The MySQL tables and the BullMQ queues that the upload pipeline shares, *)
(* and the statements its handlers run on them.  Every statement is        *)
(* committed on its own: neither the API nor the worker opens a            *)
(* transaction, so other processes run between any two of them.            *)
(*                                                                         *)
(* A batch has a file, a sequence of lines.  What a line holds is reduced  *)
(* to what the handlers branch on: its investment reference, and whether   *)
(* it fails validation, can be staged and can be posted to the ledger.     *)
(***************************************************************************)
EXTENDS Naturals, Sequences, FiniteSets

CONSTANTS
    Batches,    \* ids of the upload batches that may be created
    File,       \* the CSV lines of each batch
    Refs,       \* investment references, as the file spells them
    NoRef,      \* an empty investment_reference cell (NULL in the tables)
    Collate,    \* what utf8mb4_unicode_ci compares a reference as
    Actors,     \* user ids
    Outside,    \* references posted by other data sources beforehand
    Pods,       \* the worker processes
    NoJob       \* what an idle worker holds

(* failing: the line has validation failures.  stageable: the columns of   *)
(* upload_batch_rows accept it.  postable: the columns and CHECKs of       *)
(* investment_records accept it.                                           *)
Line == [ref : Refs \cup {NoRef}, failing : BOOLEAN,
         stageable : BOOLEAN, postable : BOOLEAN]

ASSUME BatchAssumption == Batches # {}
ASSUME FileAssumption == File \in [Batches -> Seq(Line)]
ASSUME RefAssumption == /\ NoRef \notin Refs
                        /\ Collate \in [Refs -> Refs]
                        /\ Outside \subseteq Refs

VARIABLES
    status,             \* upload_batches.status of each batch
    parses,             \* how many times the batch's file was parsed
    staged,             \* upload_batch_rows: ids of the rows of each batch
    validationErrors,   \* upload_validation_errors: the rows they point to
    records,            \* investment_records that came from CSV batches
    outside,            \* references of the other investment_records
    keys,               \* idempotency_keys, scope upload_confirm
    outbox,             \* outbox_events
    csvQueue, csvStalled,         \* csv-processing jobs: waiting, stalled
    importQueue, importStalled,   \* import jobs: waiting, stalled
    importJobs,         \* number of import jobs ever added
    outboxQueue         \* outbox jobs waiting for the dispatcher

tables == <<status, parses, staged, validationErrors, records, outside, keys, outbox>>
queues == <<csvQueue, csvStalled, importQueue, importStalled, importJobs, outboxQueue>>

BatchStatus == {"pending", "processing", "validated", "importing", "failed",
                "imported", "partially_imported", "cancelled"}

(* A row gets a fresh uuid each time the file is parsed: the pair of the   *)
(* parse and the line.                                                     *)
RowId == Nat \X Nat
LineOf(row) == row[2]

(* A job is stamped with the number of times it stalled, so that it names  *)
(* one delivery.  A delivery posts a row at most once: the delivery and    *)
(* the row identify a record, and hold its import_batch_id, its            *)
(* upload_batch_row_id and its confirmed_by.                               *)
CsvJob == [batch : Batches, stalls : Nat]
ImportJob == [batch : Batches, actor : Actors, nr : Nat, stalls : Nat]
Record == [job : ImportJob, row : RowId]

ASSUME NoJobAssumption == NoJob \notin CsvJob \cup ImportJob

Event == [type : {"csv.uploaded", "investment.import.requested"},
          batch : Batches, nr : Nat]

Exists(b) == status[b] \notin {"unborn", "deleted"}

Ref(b, l) == File[b][l].ref

(* Row status given by the CSV processor: a reference seen earlier in the  *)
(* file makes a duplicate, whatever else is wrong with the line.           *)
RowStatus(b, l) ==
    IF Ref(b, l) # NoRef /\ \E k \in 1 .. (l - 1) : Ref(b, k) = Ref(b, l)
    THEN "duplicate"
    ELSE IF File[b][l].failing THEN "invalid" ELSE "valid"

Valid(b) == {l \in DOMAIN File[b] : RowStatus(b, l) = "valid"}

-----------------------------------------------------------------------------
(* investment_records.  UNIQUE keys compare references by collation and    *)
(* let any number of NULLs in; source_record_hash repeats the reference.   *)

RecordRef(r) == Ref(r.job.batch, LineOf(r.row))
Posted(b) == {r \in records : r.job.batch = b}
TakenKeys == {Collate[RecordRef(r)] : r \in {q \in records : RecordRef(q) # NoRef}}
             \cup {Collate[x] : x \in outside}

Taken(ref) == ref # NoRef /\ Collate[ref] \in TakenKeys

(* Mutant: no UNIQUE key on investment_records. *)
InsertableTwice(b, row) ==
    /\ Exists(b)
    /\ row \in staged[b]
    /\ File[b][LineOf(row)].postable

(* What INSERT INTO investment_records checks for a row of batch b.        *)
Insertable(b, row) ==
    /\ Exists(b)
    /\ row \in staged[b]
    /\ File[b][LineOf(row)].postable
    /\ ~Taken(Ref(b, LineOf(row)))

-----------------------------------------------------------------------------
(* upload_batches: UPDATE ... WHERE id = ? touches nothing when the row is *)
(* gone.                                                                   *)

SetStatus(b, s) == status' = IF Exists(b) THEN [status EXCEPT ![b] = s] ELSE status

(* Mutant: no foreign key from upload_validation_errors to the rows. *)
ReferencedByRecords(b) == {r.row : r \in Posted(b)}

(* Rows that a foreign key still points to: they cannot be deleted.        *)
Referenced(b) == {r.row : r \in Posted(b)} \cup validationErrors[b]

StoreInit ==
    /\ status = [b \in Batches |-> "unborn"]
    /\ parses = [b \in Batches |-> 0]
    /\ staged = [b \in Batches |-> {}]
    /\ validationErrors = [b \in Batches |-> {}]
    /\ records = {}
    /\ outside = Outside
    /\ keys = {}
    /\ outbox = {}
    /\ csvQueue = <<>> /\ csvStalled = {}
    /\ importQueue = <<>> /\ importStalled = {}
    /\ importJobs = 0
    /\ outboxQueue = <<>>

StoreTypeOK ==
    /\ status \in [Batches -> BatchStatus \cup {"unborn", "deleted"}]
    /\ parses \in [Batches -> Nat]
    /\ staged \in [Batches -> SUBSET RowId]
    /\ \A b \in Batches : \A row \in staged[b] : LineOf(row) \in DOMAIN File[b]
    /\ validationErrors \in [Batches -> SUBSET RowId]
    /\ records \subseteq Record
    /\ \A r \in records : LineOf(r.row) \in DOMAIN File[r.job.batch]
    /\ outside \subseteq Refs
    /\ keys \subseteq Batches \X Actors
    /\ outbox \subseteq Event
    /\ csvQueue \in Seq(CsvJob) /\ csvStalled \subseteq CsvJob
    /\ importQueue \in Seq(ImportJob) /\ importStalled \subseteq ImportJob
    /\ importJobs \in Nat
    /\ outboxQueue \in Seq(Event)
=============================================================================

--------------------------- MODULE UploadPipeline ---------------------------
(***************************************************************************)
(* The upload pipeline as a whole: API requests, CSV workers and import    *)
(* workers over the shared tables and queues, with pods that crash, jobs   *)
(* that BullMQ delivers again, statements that fail.  Deletions of single  *)
(* investments and of customers (InvestmentsService) are not among it.     *)
(***************************************************************************)
EXTENDS CsvProcessor, ImportProcessor, UploadsApi

CONSTANT Mishaps    \* bounds on how often each kind of mishap happens

MishapKinds == {"crash", "fault", "apiCrash", "apiFault"}

ASSUME MishapAssumption == Mishaps \subseteq [MishapKinds -> Nat]

VARIABLE left       \* how often each may still happen

vars == <<tables, queues, csvVars, impVars, reqVars, left>>

Suffer(kind) ==
    /\ left[kind] > 0
    /\ left' = [left EXCEPT ![kind] = @ - 1]

Init ==
    /\ StoreInit
    /\ CsvInit
    /\ ImpInit
    /\ ApiInit
    /\ left \in Mishaps

-----------------------------------------------------------------------------
(* A worker process dies with both of its runs and the UPDATEs it had not  *)
(* sent.  The jobs it held keep their lock until it expires: they stall.   *)
Crash(p) ==
    /\ Suffer("crash")
    /\ csvPc[p] # "idle" \/ impPc[p] # "idle" \/ \E b \in Batches : <<p, b>> \in failedEvents
    /\ csvStalled' = IF csvPc[p] = "idle" THEN csvStalled ELSE csvStalled \cup {csvJob[p]}
    /\ importStalled' = IF impPc[p] = "idle" THEN importStalled
                        ELSE importStalled \cup {impJob[p]}
    /\ failedEvents' = {e \in failedEvents : e[1] # p}
    /\ LeaveCsv(p)
    /\ LeaveImport(p)
    /\ UNCHANGED <<tables, csvQueue, importQueue, importJobs, outboxQueue, reqVars>>

(* BullMQ's stalled-job check puts a job back at the head of its queue,    *)
(* once (maxStalledCount is 1); the next time it fails the job.            *)
MaxStalledCount == 1

Again(job) == [job EXCEPT !.stalls = @ + 1]

RequeueCsv(job) ==
    /\ job \in csvStalled
    /\ csvStalled' = csvStalled \ {job}
    /\ \/ /\ job.stalls < MaxStalledCount
          /\ csvQueue' = <<Again(job)>> \o csvQueue
          /\ UNCHANGED failedEvents
       \/ /\ job.stalls >= MaxStalledCount
          /\ \E p \in Pods : failedEvents' = failedEvents \cup {<<p, job.batch>>}
          /\ UNCHANGED csvQueue
    /\ UNCHANGED <<tables, importQueue, importStalled, importJobs, outboxQueue,
                   csvPc, csvJob, csvRow, impVars, reqVars, left>>

RequeueImport(job) ==
    /\ job \in importStalled
    /\ importStalled' = importStalled \ {job}
    /\ importQueue' = IF job.stalls < MaxStalledCount THEN <<Again(job)>> \o importQueue
                      ELSE importQueue
    /\ UNCHANGED <<tables, csvQueue, csvStalled, importJobs, outboxQueue,
                   csvVars, impVars, reqVars, left>>

Requeue ==
    \/ \E job \in csvStalled : RequeueCsv(job)
    \/ \E job \in importStalled : RequeueImport(job)

-----------------------------------------------------------------------------
CsvWork(p) == CsvStep(p) /\ UNCHANGED <<impVars, reqVars, left>>
ImportWork(p) == ImpStep(p) /\ UNCHANGED <<csvVars, reqVars, left>>
ApiWork(c) == Handle(c) /\ UNCHANGED <<csvVars, impVars, left>>
UserAsks(c) == Request(c) /\ UNCHANGED <<csvVars, impVars, left>>

WorkerFault(p) ==
    /\ Suffer("fault")
    /\ \/ CsvError(p) /\ UNCHANGED <<impVars, reqVars>>
       \/ ImpError(p) /\ UNCHANGED <<csvVars, reqVars>>

ApiMishap(c) ==
    /\ \/ Suffer("apiFault") /\ ApiError(c)
       \/ Suffer("apiCrash") /\ ApiCrash(c)
    /\ UNCHANGED <<csvVars, impVars>>

(* Every request has been answered and every job is done: the system waits *)
(* for the next request.                                                   *)
Quiet ==
    /\ \A c \in Clients : reqPc[c] \in Outcomes \cup {"new"}
    /\ \A p \in Pods : csvPc[p] = "idle" /\ impPc[p] = "idle"
    /\ csvQueue = <<>> /\ importQueue = <<>>
    /\ csvStalled = {} /\ importStalled = {}
    /\ failedEvents = {}
    /\ UNCHANGED vars

Next ==
    \/ \E p \in Pods : CsvWork(p) \/ ImportWork(p) \/ WorkerFault(p) \/ Crash(p)
    \/ \E c \in Clients : UserAsks(c) \/ ApiWork(c) \/ ApiMishap(c)
    \/ Requeue
    \/ Quiet

Spec == Init /\ [][Next]_vars

(* Workers restart and keep taking jobs, BullMQ keeps checking for stalled *)
(* jobs, the API answers what it was asked.  Nothing makes users ask.      *)
Fairness ==
    /\ \A p \in Pods : WF_vars(CsvWork(p)) /\ WF_vars(ImportWork(p))
    /\ \A c \in Clients : WF_vars(ApiWork(c))
    /\ WF_vars(Requeue)

FairSpec == Spec /\ Fairness

-----------------------------------------------------------------------------
TypeOK ==
    /\ StoreTypeOK
    /\ CsvTypeOK
    /\ ImpTypeOK
    /\ ApiTypeOK
    /\ left \in [MishapKinds -> Nat]

(* Nothing dangles (the foreign keys of migrations 0002 and 0003): each    *)
(* posted record leads back to a staged row and a batch that exist, each   *)
(* validation error to a row, each row to a batch, in the middle of any    *)
(* deletion, second parse or import.  A deleted batch leaves nothing.      *)
NoOrphans ==
    /\ \A b \in Batches : validationErrors[b] \subseteq staged[b]
    /\ \A b \in Batches : staged[b] # {} => Exists(b)
    /\ \A r \in records : r.row \in staged[r.job.batch]

(* What is posted was confirmed: each record comes from a line that passed *)
(* validation, and names as confirmer a user whose confirmation of that    *)
(* very batch added the job.                                               *)
PostedWasConfirmed ==
    \A r \in records :
        /\ LineOf(r.row) \in Valid(r.job.batch)
        /\ \E c \in Clients : /\ reqOp[c] = "confirm"
                              /\ reqBatch[c] = r.job.batch
                              /\ ActorOf[c] = r.job.actor
                              /\ reqNr[c] = r.job.nr

(* A delete request that has come to deleting the rows of b, or got past it. *)
RowsDropped(b) ==
    \E c \in Clients : b \in reqIds[c] /\ reqPc[c] \in {"dropBatches", "removed", "error"}

(* A batch reads "validated" only when every line of its file is staged,   *)
(* once: however often the parse was interrupted or repeated.              *)
ValidatedIsComplete ==
    \A b \in Batches : status[b] = "validated" /\ ~RowsDropped(b) =>
        /\ {LineOf(row) : row \in staged[b]} = DOMAIN File[b]
        /\ Cardinality(staged[b]) = Len(File[b])

-----------------------------------------------------------------------------
(* What follows holds when users confirm as the dashboard lets them (a     *)
(* batch that reads validated, importing or partially imported), no        *)
(* statement fails by itself and no job stalls twice.                      *)

(* A delete names b, or a batch whose records may stand for lines of b.    *)
SharesReference(b, d) ==
    \E l \in DOMAIN File[b], k \in DOMAIN File[d] :
        /\ Ref(b, l) # NoRef /\ Ref(d, k) # NoRef
        /\ Collate[Ref(b, l)] = Collate[Ref(d, k)]
DeletionTouches(b) ==
    \E c \in Clients : \E d \in reqIds[c] : d = b \/ SharesReference(b, d)
SecondParse(b) == parses[b] > 1

(* Line l of b is in the ledger: posted, or under a reference that was     *)
(* there already.                                                          *)
Counted(b, l) ==
    \/ Taken(Ref(b, l))
    \/ \E r \in Posted(b) : LineOf(r.row) = l

AllCounted(b) == \A l \in Valid(b) : File[b][l].postable => Counted(b, l)

(* "imported" tells the truth: each valid line that the ledger accepts is  *)
(* counted there, whichever importer wrote the status, whatever crashed    *)
(* and however many imports of the batch ran side by side -- unless the    *)
(* file was parsed again, or a delete names the batch or one that shares a *)
(* reference with it.                                                      *)
ImportedMeansPosted ==
    \A b \in Batches :
        status[b] = "imported" /\ ~SecondParse(b) /\ ~DeletionTouches(b)
            => AllCounted(b)

(* A confirmation that added its job is carried out: through a crash of    *)
(* the importer, a second confirmation, a failed or repeated delivery.     *)
ConfirmedGetsPosted ==
    \A b \in Batches :
        (\E i \in DOMAIN importQueue : importQueue[i].batch = b)
            ~> (AllCounted(b) \/ SecondParse(b) \/ DeletionTouches(b))

(* No batch is left "processing" or "importing" for ever.                  *)
NothingStuck ==
    \A b \in Batches : <>[](status[b] \notin {"processing", "importing"})

(* confirmBatch answers from its key only if "the batch was actually       *)
(* imported" (imports.service.ts:31).                                      *)
CachedMeansImported ==
    [][\A c \in Clients : reqPc[c] = "recheck" /\ reqPc'[c] = "cached"
           => status[reqBatch[c]] = "imported"]_vars

(* A line of a file is posted at most once, with or without a reference.   *)
LinesPostedOnce ==
    \A r, s \in records :
        r.job.batch = s.job.batch /\ LineOf(r.row) = LineOf(s.row) => r = s

-----------------------------------------------------------------------------
(* The ledger that the pipeline implements: see module Ledger. *)

LedgerFacts == UNION {{b} \X Valid(b) : b \in Batches}

LedgerKey == [f \in LedgerFacts |->
    IF Ref(f[1], f[2]) = NoRef THEN NoRef ELSE Collate[Ref(f[1], f[2])]]

Ledger == INSTANCE Ledger WITH
    Facts <- LedgerFacts,
    Key <- LedgerKey,
    NoKey <- NoRef,
    Foreign <- {Collate[x] : x \in Outside},
    approved <- {b \in Batches : \E c \in Clients :
                    reqOp[c] = "confirm" /\ reqBatch[c] = b /\ reqNr[c] # 0},
    booked <- [f \in LedgerFacts |->
                    Cardinality({r \in Posted(f[1]) : LineOf(r.row) = f[2]})],
    foreign <- {Collate[x] : x \in outside},
    gone <- {b \in Batches : status[b] = "deleted"}

(* The pipeline implements the ledger: every step books one approved fact  *)
(* that was not counted yet, approves, unbooks or removes whole batches,   *)
(* or leaves the ledger alone.                                             *)
ImplementsLedger == Ledger!Spec
=============================================================================

----------------------------- MODULE SourceSync -----------------------------
(***************************************************************************)
(* SyncProcessor.handle: the records kept in the connection_config of an   *)
(* API or database source are posted one by one, in a single attempt.      *)
(***************************************************************************)
EXTENDS SyncStore

Kept == <<feed, sources, tabsOn, sums, reports, files, events, ask, req, may, fresh>>

SyStart(w) ==
    /\ At(w, "sync", "start")
    /\ batches' = [batches EXCEPT ![Of(w)].status = "running"]
    /\ Goto(w, [at |-> "row", job |-> run[w].job, calm |-> FALSE, rows |-> feed[Source(w)],
                line |-> 1, valid |-> 0, invalid |-> 0])
    /\ UNCHANGED <<Kept, errors, records, queue>>

Current(w) == run[w].rows[run[w].line]
More(w) == run[w].line <= Len(run[w].rows)

SyError(w) ==
    /\ At(w, "sync", "row") /\ More(w) /\ Current(w).kind # "full"
    /\ errors' = [errors EXCEPT ![Of(w)] = @ + 1]
    /\ Goto(w, [run[w] EXCEPT !.line = @ + 1, !.invalid = @ + 1])
    /\ UNCHANGED <<Kept, batches, records, queue>>

(* The hash is the reference, or else the batch and the number of records  *)
(* posted before.                                                          *)
SyHash(w) == IF Current(w).ref # NoRef THEN <<Current(w).ref>> ELSE <<Of(w), run[w].valid>>

SyInsert(w) ==
    LET new == [id |-> [batch |-> Of(w), job |-> run[w].job, origin |-> Source(w),
                        line |-> run[w].line],
                ref |-> Current(w).ref, text |-> Current(w).text, hash |-> SyHash(w), batch |-> Of(w)]
    IN  /\ At(w, "sync", "row") /\ More(w) /\ Current(w).kind = "full"
        /\ IF Insertable(new, run[w].job.actor)
           THEN /\ records' = records \cup {new}
                /\ Goto(w, [run[w] EXCEPT !.line = @ + 1, !.valid = @ + 1])
                /\ UNCHANGED queue
           ELSE Throw(w) /\ UNCHANGED records
        /\ UNCHANGED <<Kept, batches, errors>>

SyFinish(w) ==
    /\ At(w, "sync", "row") /\ ~More(w)
    /\ batches' = [batches EXCEPT ![Of(w)] =
                     [status |-> IF run[w].invalid > 0 THEN "partial_success" ELSE "success",
                      valid |-> run[w].valid, invalid |-> run[w].invalid]]
    /\ Step(w, "ack")
    /\ UNCHANGED <<Kept, errors, records, queue>>

SourceStep(w) == SyStart(w) \/ SyError(w) \/ SyInsert(w) \/ SyFinish(w)
=============================================================================

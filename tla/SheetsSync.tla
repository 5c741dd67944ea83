----------------------------- MODULE SheetsSync -----------------------------
(***************************************************************************)
(* GoogleSheetsSyncProcessor.handle: every active tab of the source is     *)
(* fetched, and each of its rows is compared with its checksum, checked,   *)
(* looked up by reference, posted and its checksum stored.                 *)
(***************************************************************************)
EXTENDS SyncStore

Rest == <<feed, tabsOn, reports, files, events, ask, req, may>>

Line(w) == run[w].rows[run[w].line]
HashOf(row) == <<row.ref, row.text>>
Origin(w) == run[w].tab
RecordId(w) == [batch |-> Of(w), job |-> run[w].job, origin |-> Origin(w), line |-> run[w].line]

(* The sync is under way; two syncs of one source disturb each other.      *)
ShStart(w) ==
    LET others == OthersOn(w, Source(w))
    IN  /\ At(w, "sheets", "start")
        /\ batches' = [batches EXCEPT ![Of(w)].status = "running"]
        /\ run' = [v \in Workers |->
                     CASE v = w -> [at |-> "tabs", job |-> run[w].job, calm |-> others = {}]
                       [] v \in others -> [run[v] EXCEPT !.calm = FALSE]
                       [] OTHER -> run[v]]
        /\ UNCHANGED <<Rest, sources, errors, records, sums, queue, fresh>>

ShTabs(w) ==
    /\ At(w, "sheets", "tabs")
    /\ Goto(w, [at |-> "fetch", job |-> run[w].job, calm |-> run[w].calm, valid |-> 0, invalid |-> 0,
                left |-> {t \in tabsOn : SourceOf[t] = Source(w)}])
    /\ UNCHANGED <<Rest, sources, batches, errors, records, sums, queue, fresh>>

(* The line after i, blank rows passed over.                               *)
After(rows, i) ==
    LET later == {j \in i + 1 .. Len(rows) : rows[j].kind # "blank"}
    IN  IF later = {} THEN Len(rows) + 1 ELSE CHOOSE j \in later : \A k \in later : j <= k
Moved(r) == LET next == After(r.rows, r.line)
            IN  [r EXCEPT !.line = next, !.at = IF next > Len(r.rows) THEN "tabDone" ELSE "row"]

ShFetch(w) ==
    /\ At(w, "sheets", "fetch")
    /\ \E t \in run[w].left :
         Goto(w, Moved([at |-> "row", job |-> run[w].job, calm |-> run[w].calm,
                        valid |-> run[w].valid, invalid |-> run[w].invalid,
                        left |-> run[w].left \ {t}, tab |-> t, rows |-> feed[t], line |-> 0,
                        known |-> FALSE, found |-> {}]))
    /\ UNCHANGED <<Rest, sources, batches, errors, records, sums, queue, fresh>>

(* Mutant: the checksum is read, and trusted although the record is gone. *)
ReadChecksumStored(t, i) == sums[t][i]

(* The mapper of the driver names the column rowChecksum, the comparison   *)
(* reads row_checksum: it sees undefined for every row.                    *)
ReadChecksum(t, i) == {}
Unchanged(w) == HashOf(Line(w)) \in ReadChecksum(Origin(w), run[w].line)

ShCompare(w) ==
    LET row == Line(w)
        known == sums[Origin(w)][run[w].line] # {}
        next == IF row.kind = "short" THEN "error" ELSE IF row.ref = NoRef THEN "post" ELSE "lookup"
    IN  /\ At(w, "sheets", "row")
        /\ IF Unchanged(w) THEN Goto(w, Moved(run[w]))
           ELSE Goto(w, [run[w] EXCEPT !.at = next, !.known = known, !.found = {}])
        /\ UNCHANGED <<Rest, sources, batches, errors, records, sums, queue, fresh>>

(* Mutant: invalid rows are counted and not written. *)
ShErrorCounted(w) ==
    /\ At(w, "sheets", "error")
    /\ Goto(w, Moved([run[w] EXCEPT !.invalid = @ + 1]))
    /\ UNCHANGED <<Rest, sources, batches, errors, records, sums, queue, fresh>>

ShError(w) ==
    /\ At(w, "sheets", "error")
    /\ errors' = [errors EXCEPT ![Of(w)] = @ + 1]
    /\ Goto(w, Moved([run[w] EXCEPT !.invalid = @ + 1]))
    /\ UNCHANGED <<Rest, sources, batches, records, sums, queue, fresh>>

(* Mutant: a sync does not see what it has posted itself. *)
ShLookupOthers(w) ==
    /\ At(w, "sheets", "lookup")
    /\ Goto(w, [run[w] EXCEPT !.at = "post",
                              !.found = {r.id : r \in {s \in records : s.ref = Line(w).ref
                                                                      /\ s.batch # Of(w)}}])
    /\ UNCHANGED <<Rest, sources, batches, errors, records, sums, queue, fresh>>

ShLookup(w) ==
    /\ At(w, "sheets", "lookup")
    /\ Goto(w, [run[w] EXCEPT !.at = "post",
                              !.found = {r.id : r \in {s \in records : s.ref = Line(w).ref}}])
    /\ UNCHANGED <<Rest, sources, batches, errors, records, sums, queue, fresh>>

(* UPDATE by the id that the lookup found: nothing when it is gone.  The   *)
(* foreign key of updated_by counts only for a row that is there.  It      *)
(* stores the checksum of the whole row and a part of its columns: the     *)
(* others stay as they were posted.  The row may be that of another sheet  *)
(* as well, which is then no longer mirrored.                              *)
SharedBy(w) ==
    {s \in Sheets \ {Source(w)} :
        \E t \in Tabs : SourceOf[t] = s /\ \E i \in DOMAIN feed[t] : feed[t][i].ref = Line(w).ref}

(* Mutant: the UPDATE leaves the columns alone. *)
UpdatedHashOnly(r, w) == [r EXCEPT !.hash = HashOf(Line(w)), !.batch = Of(w)]

Updated(r, w) == [r EXCEPT !.hash = HashOf(Line(w)), !.batch = Of(w),
                           !.text = [@ EXCEPT !.updatable = Line(w).text.updatable]]

ShUpdate(w) ==
    LET hit == {r \in records : r.id \in run[w].found}
        new == {Updated(r, w) : r \in hit}
    IN  /\ At(w, "sheets", "post") /\ run[w].found # {}
        /\ IF hit # {} /\ ~IsUser(run[w].job.actor)
           THEN Throw(w) /\ UNCHANGED <<records, fresh>>
           ELSE /\ records' = (records \ hit) \cup new
                /\ run' = [Disturbed(SharedBy(w)) EXCEPT ![w].at = "sum"]
                /\ fresh' = fresh \ SharedBy(w)
                /\ UNCHANGED queue
        /\ UNCHANGED <<Rest, sources, batches, errors, sums>>

ShInsert(w) ==
    LET new == [id |-> RecordId(w), ref |-> Line(w).ref, text |-> Line(w).text,
                hash |-> HashOf(Line(w)), batch |-> Of(w)]
    IN  /\ At(w, "sheets", "post") /\ run[w].found = {}
        /\ IF Insertable(new, run[w].job.actor)
           THEN records' = records \cup {new} /\ Step(w, "sum") /\ UNCHANGED queue
           ELSE Throw(w) /\ UNCHANGED records
        /\ UNCHANGED <<Rest, sources, batches, errors, sums, fresh>>

(* INSERT or UPDATE, as the comparison found the checksum or not.          *)
ShStore(w) ==
    LET sum == sums[Origin(w)][run[w].line]
    IN  /\ At(w, "sheets", "sum")
        /\ IF ~run[w].known /\ sum # {}
           THEN Throw(w) /\ UNCHANGED sums
           ELSE /\ sums' = [sums EXCEPT ![Origin(w)][run[w].line] = {HashOf(Line(w))}]
                /\ Goto(w, Moved([run[w] EXCEPT !.valid = @ + 1]))
                /\ UNCHANGED queue
        /\ UNCHANGED <<Rest, sources, batches, errors, records, fresh>>

(* last_synced_at and last_row_count of the tab.                           *)
ShTabDone(w) ==
    /\ At(w, "sheets", "tabDone")
    /\ Step(w, "fetch")
    /\ UNCHANGED <<Rest, sources, batches, errors, records, sums, queue, fresh>>

FinalStatus(w) == IF run[w].invalid > 0 THEN "partial_success" ELSE "success"

ShFinish(w) ==
    /\ At(w, "sheets", "fetch") /\ run[w].left = {}
    /\ batches' = [batches EXCEPT ![Of(w)] = [status |-> FinalStatus(w), valid |-> run[w].valid,
                                              invalid |-> run[w].invalid]]
    /\ Step(w, IF FinalStatus(w) = "success" THEN "stamp" ELSE "ack")
    /\ fresh' = IF run[w].calm THEN fresh \cup {Source(w)} ELSE fresh
    /\ UNCHANGED <<Rest, sources, errors, records, sums, queue>>

ShStamp(w) ==
    /\ At(w, "sheets", "stamp")
    /\ sources' = [sources EXCEPT ![Source(w)].recent = TRUE]
    /\ Step(w, "ack")
    /\ UNCHANGED <<Rest, batches, errors, records, sums, queue, fresh>>

SheetsStep(w) ==
    \/ ShStart(w) \/ ShTabs(w) \/ ShFetch(w) \/ ShCompare(w) \/ ShError(w) \/ ShLookup(w)
    \/ ShUpdate(w) \/ ShInsert(w) \/ ShStore(w) \/ ShTabDone(w) \/ ShFinish(w) \/ ShStamp(w)
=============================================================================

---------------------------- MODULE SyncRequests ----------------------------
(***************************************************************************)
(* Who writes the tables besides the workers: IntegrationsService, the     *)
(* webhook, the scheduler of each worker pod, ReportsService, the deletion *)
(* of investments, and whoever edits the spreadsheets.                     *)
(***************************************************************************)
EXTENDS SyncStore

Op(q) == ask[q].op
Waits(q, step) == q \in DOMAIN ask /\ req[q].at = step
Move(q, step) == req' = [req EXCEPT ![q].at = step]
Underway == {q \in Requests : req[q].at \notin {"waiting", "ok", "refused", "lost"}}

WorkerSide == <<errors, sums, files>>
Disturb(s) == run' = Disturbed(s) /\ fresh' = fresh \ s

-----------------------------------------------------------------------------
(* Syncs and reports: a row, a job, and for those of the API an event.     *)

(* A source that never succeeded, or not within its sync frequency.        *)
IsDue(s) == ~sources[s].recent
Wanted(q) ==
    LET s == ask[q].source
    IN  CASE Op(q) = "tick" -> s \in Sheets /\ sources[s].on /\ IsDue(s)
          [] Op(q) = "push" -> s \in Sheets /\ sources[s].on
          [] OTHER -> TRUE
Makers == {"sync", "tick", "push", "report"}

Accept(q) ==
    /\ Waits(q, "waiting") /\ Op(q) \in Makers
    /\ Move(q, IF Wanted(q) THEN "insert" ELSE "refused")
    /\ UNCHANGED <<WorkerSide, feed, sources, tabsOn, batches, records, reports, events, queue,
                   run, ask, may, fresh>>

InsertRow(q) ==
    /\ Waits(q, "insert")
    /\ IF Op(q) = "report"
       THEN reports' = [reports EXCEPT ![q].status = "pending"] /\ UNCHANGED batches
       ELSE batches' = [batches EXCEPT ![q].status = "pending"] /\ UNCHANGED reports
    /\ Move(q, "enqueue")
    /\ UNCHANGED <<WorkerSide, feed, sources, tabsOn, records, events, queue, run, ask, may, fresh>>

Enqueue(q) ==
    LET kind == CASE Op(q) = "report" -> "report"
                  [] Op(q) # "report" /\ ask[q].source \in Sheets -> "sheets"
                  [] OTHER -> "sync"
        byUser == Op(q) \in {"sync", "report"}
    IN  /\ Waits(q, "enqueue")
        /\ Add(kind, Job(q, IF byUser THEN "admin" ELSE "system"))
        /\ Move(q, IF byUser THEN "event" ELSE "ok")
        /\ UNCHANGED <<WorkerSide, feed, sources, tabsOn, batches, records, reports, events, run,
                       ask, may, fresh>>

InsertEvent(q) ==
    /\ Waits(q, "event")
    /\ events' = [events EXCEPT ![q] = "pending"]
    /\ Move(q, "eventJob")
    /\ UNCHANGED <<WorkerSide, feed, sources, tabsOn, batches, records, reports, queue, run, ask,
                   may, fresh>>

EnqueueEvent(q) ==
    /\ Waits(q, "eventJob")
    /\ Add("outbox", Job(q, "admin"))
    /\ Move(q, "ok")
    /\ UNCHANGED <<WorkerSide, feed, sources, tabsOn, batches, records, reports, events, run, ask,
                   may, fresh>>

-----------------------------------------------------------------------------
(* Sources and tabs.  Updating and disabling write back the row they read. *)

FindSource(q) ==
    /\ Waits(q, "waiting") /\ Op(q) \in {"update", "disable"}
    /\ req' = [req EXCEPT ![q] = [at |-> "write", row |-> sources[ask[q].source]]]
    /\ UNCHANGED <<WorkerSide, feed, sources, tabsOn, batches, records, reports, events, queue,
                   run, ask, may, fresh>>

WriteSource(q) ==
    /\ Waits(q, "write")
    /\ sources' = [sources EXCEPT ![ask[q].source] =
                     [req[q].row EXCEPT !.on = IF Op(q) = "disable" THEN FALSE ELSE @]]
    /\ Move(q, "ok")
    /\ UNCHANGED <<WorkerSide, feed, tabsOn, batches, records, reports, events, queue, run, ask,
                   may, fresh>>

SetTab(q) ==
    /\ Waits(q, "waiting") /\ Op(q) \in {"ignore", "listen"}
    /\ tabsOn' = IF Op(q) = "ignore" THEN tabsOn \ {ask[q].tab} ELSE tabsOn \cup {ask[q].tab}
    /\ Disturb({SourceOf[ask[q].tab]})
    /\ Move(q, "ok")
    /\ UNCHANGED <<WorkerSide, feed, sources, batches, records, reports, events, queue, ask, may>>

(* Every tab of the spreadsheet is upserted: its status becomes active.    *)
Discover(q) ==
    LET tabs == {t \in Tabs : SourceOf[t] = ask[q].source}
        left == IF req[q].at = "waiting" THEN tabs ELSE req[q].tabs
    IN  /\ q \in DOMAIN ask /\ Op(q) = "discover" /\ req[q].at \in {"waiting", "tabs"}
        /\ \E t \in left :
             /\ tabsOn' = tabsOn \cup {t}
             /\ req' = [req EXCEPT ![q] = [at |-> IF left = {t} THEN "ok" ELSE "tabs",
                                           tabs |-> left \ {t}]]
        /\ Disturb({ask[q].source})
        /\ UNCHANGED <<WorkerSide, feed, sources, batches, records, reports, events, queue, ask, may>>

-----------------------------------------------------------------------------
(* Investments are deleted; sheets are edited; processes restart.          *)

DeleteInvestment(q) ==
    /\ Waits(q, "waiting") /\ Op(q) = "remove"
    /\ \E r \in records : records' = records \ {r}
    /\ Disturb(Sources)
    /\ Move(q, "ok")
    /\ UNCHANGED <<WorkerSide, feed, sources, tabsOn, batches, reports, events, queue, ask, may>>

Edit(t) ==
    /\ may.edits > 0
    /\ \E i \in DOMAIN feed[t] :
         \/ \E x \in Texts : feed' = [feed EXCEPT ![t][i].text = x]
         \/ feed' = [feed EXCEPT ![t] = SubSeq(@, 1, i - 1) \o SubSeq(@, i + 1, Len(@))]
    /\ may' = [may EXCEPT !.edits = @ - 1]
    /\ Disturb({SourceOf[t]})
    /\ UNCHANGED <<WorkerSide, sources, tabsOn, batches, records, reports, events, queue, ask, req>>

(* Processes that answer requests restart, or a statement throws.          *)
CrashApi ==
    /\ may.crashes > 0
    /\ \E lost \in SUBSET Underway \ {{}} :
         req' = [q \in Requests |-> IF q \in lost THEN [at |-> "lost"] ELSE req[q]]
    /\ may' = [may EXCEPT !.crashes = @ - 1]
    /\ UNCHANGED <<WorkerSide, feed, sources, tabsOn, batches, records, reports, events, queue,
                   run, ask, fresh>>

(* The sync frequency of a source passes since its last success; only a    *)
(* scheduler that has yet to look can tell.                                *)
Elapse(s) ==
    /\ sources[s].recent
    /\ \E q \in DOMAIN ask : Op(q) = "tick" /\ req[q].at = "waiting"
    /\ sources' = [sources EXCEPT ![s].recent = FALSE]
    /\ UNCHANGED <<WorkerSide, feed, tabsOn, batches, records, reports, events, queue, run, ask,
                   req, may, fresh>>

Proceed(q) == InsertRow(q) \/ Enqueue(q) \/ InsertEvent(q) \/ EnqueueEvent(q) \/ WriteSource(q)
Ask(q) == Accept(q) \/ FindSource(q) \/ SetTab(q) \/ DeleteInvestment(q)
=============================================================================

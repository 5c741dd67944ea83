------------------------------- MODULE MCSync -------------------------------
(***************************************************************************)
(* Two sheets workers on two pods, one worker for each other queue, and    *)
(* families of requests that meet on one source.                           *)
(***************************************************************************)
EXTENDS SyncPipeline

SourceOfTab == [t \in {"t1", "t2", "t3"} |-> IF t = "t3" THEN "other" ELSE "sheet"]
QueueOfWorker == [w \in {"w1", "w2", "w3", "w4", "w5"} |->
    CASE w \in {"w1", "w2"} -> "sheets" [] w = "w3" -> "sync"
      [] w = "w4" -> "report" [] w = "w5" -> "outbox"]

(* Named apart, so that TLC evaluates them once. *)
MCSourceOf == SourceOfTab
MCQueueOf == QueueOfWorker

Says(x) == [updatable |-> x, lasting |-> IF x = "a" THEN "c" ELSE "d"]
Full(r, x) == [ref |-> r, text |-> Says(x), kind |-> "full"]
Short == [ref |-> "none", text |-> Says("a"), kind |-> "short"]
Blank == [ref |-> "none", text |-> Says("a"), kind |-> "blank"]

Feed(first, second, db) == [o \in {"t1", "t2", "t3", "db"} |->
    CASE o = "t1" -> first [] o = "t2" -> second [] o = "t3" -> <<>> [] o = "db" -> db]
Rows0 == Feed(<<Full("r1", "a")>>, <<>>, <<>>)
RowsN == Feed(<<Full("none", "a")>>, <<>>, <<>>)
Rows2 == Feed(<<Full("r1", "a"), Blank>>, <<Short>>, <<>>)
RowsDb == Feed(<<Full("r1", "a")>>, <<>>, <<Full("none", "a"), Short, Full("r1", "a")>>)
Twin == Feed(<<Full("r1", "a")>>, <<Full("r1", "b")>>, <<>>)
Shared == [Rows0 EXCEPT !["t3"] = <<Full("r1", "b")>>]

May(e, c, f) == [edits |-> e, crashes |-> c, faults |-> f, failed |-> FALSE]
On(op, s) == [op |-> op, source |-> s]
Report == [op |-> "report", source |-> "db"]
Tab(op, t) == [op |-> op, source |-> "sheet", tab |-> t]
Removal == [op |-> "remove", source |-> "sheet"]
Start(asked, begun, rows, limit) ==
    [ask |-> asked, begun |-> begun, feed |-> rows, may |-> limit]
Two(x, y) == [q1 |-> x, q2 |-> y]
Sync == On("sync", "sheet")

(* Two syncs of one sheet side by side, or one after the other.            *)
Pairs == {Start(Two(Sync, Sync), {"q1", "q2"}, RowsN, limit) : limit \in {May(1, 0, 0), May(0, 0, 1)}}
         \cup {Start(Two(Sync, Sync), {"q1", "q2"}, Rows0, limit) : limit \in {May(1, 0, 0), May(0, 1, 0)}}
         \cup {Start(Two(Sync, Sync), {"q1", "q2"}, Twin, May(0, 0, 0)),
               Start([q1 |-> Sync, q2 |-> Sync, q3 |-> Removal], {"q1", "q2"}, Rows0, May(0, 0, 0))}
(* Two sheets that name the same investment.                               *)
Apart == {Start(Two(Sync, On("sync", "other")), {"q1", "q2"}, Shared, May(1, 0, 0))}
(* One sync that is edited, crashes and fails.                             *)
Alone == {Start(Two(Sync, x), {"q1"}, Rows2, limit) :
            x \in {Removal, On("discover", "sheet"), Tab("ignore", "t1")},
            limit \in {May(1, 0, 0), May(0, 1, 0)}}
         \cup {Start(Two(Tab("ignore", "t2"), Tab("listen", "t2")), {}, Rows2, May(0, 0, 0)),
               Start([q1 |-> Sync], {}, Rows0, May(0, 1, 1))}
(* Schedulers, webhook, a database source, reports.                        *)
Others == {Start(Two(Sync, x), {"q1"}, RowsDb, May(0, 0, 0)) :
             x \in {On("tick", "sheet"), On("sync", "db"), Report, On("disable", "sheet")}}
          \cup {Start(Two(On("sync", "db"), Report), {}, RowsDb, limit) :
                  limit \in {May(0, 1, 0), May(0, 0, 1)}}
          \cup {Start(Two(On("tick", "sheet"), x), {}, Rows2, May(0, 0, 1)) :
                  x \in {On("push", "sheet"), Tab("ignore", "t1"), On("update", "sheet")}}
          \cup {Start(Two(On("disable", "sheet"), On("update", "sheet")), {}, Rows2, May(0, 0, 0)),
                Start(Two(On("tick", "sheet"), Sync), {}, Feed(<<Blank>>, <<>>, <<>>), May(0, 0, 0)),
                Start([q1 |-> Report, q2 |-> Removal, q3 |-> Sync], {"q3"}, Rows0, May(0, 1, 0)),
                Start([q1 |-> On("sync", "db"), q2 |-> On("sync", "db")], {}, RowsDb, May(0, 0, 0))}

MCScenarios == Pairs \cup Apart \cup Alone \cup Others
(* A sheet with a row that has no reference, synchronised twice.           *)
MCTwice == {Start(Two(Sync, Sync), {"q1", "q2"}, RowsN, May(0, 0, 0))}
MCOneQueueOf == [w \in {"w1"} |-> "sheets"]
=============================================================================

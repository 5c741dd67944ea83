------------------------------- MODULE Figures -------------------------------
(***************************************************************************)
(* The figures of the dashboard: every view is computed afresh from the    *)
(* records that are valid and confirmed, and lists are read page by page   *)
(* while records come and go.                                              *)
(***************************************************************************)
EXTENDS CsvText, FiniteSetsExt

CONSTANTS
    Ids,       \* ids of records, in the order the table is scanned
    Kinds,     \* what a record can say: customer, type, fund, days, tenor category,
               \* manager, amount, day, and the commission in the upload row it came
               \* from, or Null
    PageSize,
    Unassigned

Types == {"new", "returning"}
Funds == {"inflow", "rollover"}

ASSUME FiguresAssumption ==
    /\ Ids \subseteq Nat /\ IsFiniteSet(Ids) /\ PageSize \in Nat \ {0}
    /\ \A k \in Kinds : /\ {"type", "fund", "amount", "day", "days", "category", "commission"} \subseteq DOMAIN k
                        /\ k.type \in Types /\ k.fund \in Funds /\ k.amount \in Nat /\ k.day \in Nat /\ k.days \in Nat
                        /\ k.category \in Categories /\ k.commission \in Nat \cup {Null}

VARIABLES records, reader
vars == <<records, reader, file>>

(* The elements of R, each before those that it precedes.                  *)
Sorted(R, precedes(_, _)) ==
    CHOOSE s \in [1 .. Cardinality(R) -> R] : \A i, j \in DOMAIN s : i < j => precedes(s[i], s[j])
FirstOf(R) == CHOOSE r \in R : \A s \in R : r.id <= s.id
LastOf(R) == CHOOSE r \in R : \A s \in R : r.id >= s.id
Total(rows, F(_)) == SumFunction([x \in rows |-> F(x)])
Worth(R) == Total(R, LAMBDA r : r.amount)
Figure(R) == [count |-> Cardinality(R), value |-> Worth(R)]
Customers(R) == {r.customer : r \in R}
Inflow(R) == {r \in R : r.fund = "inflow"}

-----------------------------------------------------------------------------

(* The category of a record is the one it was stored with: an UPDATE of the *)
(* Sheets worker changes the tenor and leaves it, and a source sends its    *)
(* own.                                                                    *)
OfCategory(R, c) == {r \in R : r.category = c}

AgingBucket(days) ==
    CASE days \in 0 .. 90    -> "days0To90"
      [] days \in 120 .. 210 -> "days120To210"
      [] days \in 240 .. 330 -> "days240To330"
      [] days >= 366         -> "days366Plus"
      [] OTHER -> "unclassified"
Buckets == {"days0To90", "days120To210", "days240To330", "days366Plus", "unclassified"}
FundsAging(R) == [b \in Buckets |-> Figure({r \in R : AgingBucket(r.days) = b})]

(* AnalyticsService.summary                                                *)
Summary(R) ==
    LET ofType(t) == {r \in R : r.type = t} IN
    [total |-> Worth(R), count |-> Cardinality(R), customers |-> Cardinality(Customers(R)),
     byType |-> [t \in Types |-> [count |-> Cardinality(Customers(ofType(t))), value |-> Worth(ofType(t))]],
     inflow |-> Figure(Inflow(R)), rollover |-> Figure({r \in R : r.fund = "rollover"}),
     tenor |-> {[category |-> c, figure |-> Figure(OfCategory(R, c))] :
                  c \in {d \in Categories : OfCategory(R, d) # {}}},
     highest |-> IF R = {} THEN {} ELSE
        {FirstOf({r \in R : \A s \in R : r.amount >= s.amount})}]

(* AnalyticsService.trends: one point for each period that has a record.   *)
(* Dates are days; a month is two of them, a quarter four.                 *)
Period(k, day) == CASE k = "daily" -> day [] k = "monthly" -> day \div 2 [] k = "quarterly" -> day \div 4
Points(R, k) ==
    LET in(p) == {r \in R : Period(k, r.day) = p} IN
    {[period |-> p, figure |-> Figure(in(p)),
      new |-> Worth({r \in in(p) : r.type = "new"}),
      returning |-> Worth({r \in in(p) : r.type # "new"}),
      inflow |-> Worth(Inflow(in(p))), rollover |-> Worth(in(p) \ Inflow(in(p))),
      banded |-> [c \in Categories \ {"unclassified"} |-> Worth(OfCategory(in(p), c))]] :
        p \in {Period(k, r.day) : r \in R}}

(* AnalyticsService.customerPortfolio: a row for each customer, named and  *)
(* typed as in its first record.                                           *)
PortfolioRow(R, c) ==
    LET own == {r \in R : r.customer = c} IN
    [customer |-> c, type |-> FirstOf(own).type, total |-> Worth(own), count |-> Cardinality(own),
     inflow |-> Worth(Inflow(own)), rollover |-> Worth(own \ Inflow(own)),
     last |-> FirstOf({r \in own : \A s \in own : r.day >= s.day}),
     exposure |-> [t \in Categories |-> Worth(OfCategory(own, t))]]

(* Sorted by total, equal ones in the order their first records are in.    *)
Portfolio(R) ==
    LET first(c) == FirstOf({r \in R : r.customer = c}).id
        before(x, y) == x.total > y.total \/ (x.total = y.total /\ first(x.customer) < first(y.customer))
    IN Sorted({PortfolioRow(R, c) : c \in Customers(R)}, before)

(* Mutant: a customer is new or returning by any of its records. *)
ManagerRowByAny(R, m) ==
    LET own == {r \in R : r.manager = m}
        typed(t) == {c \in Customers(own) : \E r \in own : r.customer = c /\ r.type = t}
        mobilised(t) == [count |-> Cardinality(typed(t)),
                         value |-> Worth({r \in own : r.customer \in typed(t)})]
    IN [manager |-> m, total |-> Worth(own), accounts |-> Cardinality(own),
        customers |-> Cardinality(Customers(own)), byType |-> [t \in Types |-> mobilised(t)],
        inflow |-> Worth(Inflow(own)), rollover |-> Worth(own \ Inflow(own)),
        aging |-> FundsAging(own)]

(* AnalyticsService.wealthManagers: within a manager a customer has the    *)
(* type of its last record.                                                *)
ManagerRow(R, m) ==
    LET own == {r \in R : r.manager = m}
        typed(t) == {c \in Customers(own) : LastOf({r \in own : r.customer = c}).type = t}
        mobilised(t) == [count |-> Cardinality(typed(t)),
                         value |-> Worth({r \in own : r.customer \in typed(t)})]
    IN [manager |-> m, total |-> Worth(own), accounts |-> Cardinality(own),
        customers |-> Cardinality(Customers(own)), byType |-> [t \in Types |-> mobilised(t)],
        inflow |-> Worth(Inflow(own)), rollover |-> Worth(own \ Inflow(own)),
        aging |-> FundsAging(own)]

(* Mutant: records without a manager are left out. *)
ManagersNamed(R) == {ManagerRow(R, m) : m \in {r.manager : r \in R} \ {Unassigned}}

Managers(R) == {ManagerRow(R, m) : m \in {r.manager : r \in R}}

-----------------------------------------------------------------------------
(* Lists: customerPortfolio slices one reading of the records; the ledger  *)
(* and the commissions ask for the items and for their number, and for the *)
(* sum of the commissions, in two queries at once.                         *)
Lists == {"portfolio", "ledger", "commissions"}
Matching(f) == {r \in records : f = "all" \/ r.type = f}
Ledger(R) == Sorted(R, LAMBDA r, s : r.day > s.day \/ (r.day = s.day /\ r.id < s.id))
Listed(view, f) ==
    LET ledger == Ledger(Matching(f))
        portfolio == Portfolio(Matching(f))
    IN IF view # "portfolio" THEN [i \in DOMAIN ledger |-> ledger[i].id]
       ELSE [i \in DOMAIN portfolio |-> portfolio[i].customer]

(* A record without an upload row has no commission: LEFT JOIN and IFNULL. *)
Earned(r) == IF r.commission = Null THEN 0 ELSE r.commission
CommissionSummary(f) ==
    [totalItems |-> Cardinality(Matching(f)), total |-> Total(Matching(f), Earned)]

(* The commissions of the items of a page.                                 *)
Commissions(ids) == Total({r \in records : r.id \in ToSet(ids)}, Earned)

Offset(page) == (page - 1) * PageSize
Slice(s, page) == SubSeq(s, Offset(page) + 1, Min({Offset(page) + PageSize, Len(s)}))

(* Mutant: a last page that is not full is not counted. *)
TotalPagesFull(n) == Max({1, n \div PageSize})

TotalPages(n) == (n + PageSize - 1) \div PageSize

Closed == [at |-> "closed", view |-> "ledger", filter |-> "all", page |-> 1, todo |-> {},
           total |-> 0, seen |-> <<>>, promised |-> 0, earned |-> 0, quiet |-> TRUE]
Init == records = {} /\ reader = Closed /\ file = Nothing

Queries(view) == IF view # "portfolio" THEN {"items", "count"} ELSE {"both"}
Open == \E v \in Lists, f \in Types \cup {"all"} :
    /\ reader.at = "closed" /\ UNCHANGED records
    /\ reader' = [Closed EXCEPT !.at = "loading", !.view = v, !.filter = f, !.todo = Queries(v)]

Query(q) ==
    LET rows == Listed(reader.view, reader.filter)
        page == Slice(rows, reader.page)
        left == reader.todo \ {q}
    IN /\ reader.at = "loading" /\ q \in reader.todo /\ UNCHANGED records
       /\ reader' = [reader EXCEPT !.todo = left,
            !.at = IF left = {} THEN "shown" ELSE "loading",
            !.total = IF q = "items" THEN @
                      ELSE IF reader.view = "commissions" THEN CommissionSummary(reader.filter).totalItems
                      ELSE Len(rows),
            !.promised = IF q = "count" /\ reader.view = "commissions" /\ reader.quiet
                         THEN CommissionSummary(reader.filter).total ELSE @,
            !.earned = IF q = "items" /\ reader.view = "commissions" /\ reader.quiet
                       THEN @ + Commissions(page) ELSE @,
            !.seen = IF q # "count" /\ reader.quiet THEN @ \o page ELSE @]

Turn ==
    /\ reader.at = "shown" /\ reader.page < TotalPages(reader.total) /\ UNCHANGED records
    /\ reader' = [reader EXCEPT !.page = @ + 1, !.at = "loading", !.todo = Queries(reader.view)]

Close == reader.at = "shown" /\ reader' = Closed /\ UNCHANGED records

(* Imports and syncs add records, deletions take them away; what a reader  *)
(* saw before is of no account then.                                       *)
Disturbed == [reader EXCEPT !.quiet = reader.at = "closed", !.seen = <<>>,
                               !.promised = 0, !.earned = 0]
Post == \E i \in Ids, k \in Kinds :
    /\ \A r \in records : r.id # i
    /\ records' = records \cup {[x \in DOMAIN k \cup {"id"} |-> IF x = "id" THEN i ELSE k[x]]}
    /\ reader' = Disturbed
DeleteRecord == \E r \in records : records' = records \ {r} /\ reader' = Disturbed
DeleteCustomer == \E c \in Customers(records) :
    records' = {r \in records : r.customer # c} /\ reader' = Disturbed

(* How a file is read does not depend on the records, nor they on it.      *)
Next ==
    \/ /\ file = Nothing /\ UNCHANGED file
       /\ \/ Open \/ (\E q \in {"items", "count", "both"} : Query(q)) \/ Turn \/ Close
          \/ Post \/ DeleteRecord \/ DeleteCustomer
    \/ records = {} /\ reader = Closed /\ (Upload \/ Finish) /\ UNCHANGED <<records, reader>>
Spec == Init /\ [][Next]_vars

-----------------------------------------------------------------------------
(* The figures depend on the records alone: they are looked at whenever no *)
(* list is open.                                                           *)
Viewed == reader.at = "closed"

(* Every view of the same records tells the same total and the same number *)
(* of investments: summary, series, portfolio, managers, funds aging.      *)
ViewsAgree == Viewed =>
    LET R == records
        sum == [count |-> Summary(R).count, value |-> Summary(R).total]
        rows == ToSet(Portfolio(R))
    IN /\ \A k \in {"daily", "monthly", "quarterly"} :
            sum = [count |-> Total(Points(R, k), LAMBDA p : p.figure.count),
                   value |-> Total(Points(R, k), LAMBDA p : p.figure.value)]
       /\ sum = [count |-> Total(rows, LAMBDA c : c.count), value |-> Total(rows, LAMBDA c : c.total)]
       /\ sum = [count |-> Total(Managers(R), LAMBDA m : m.accounts),
                 value |-> Total(Managers(R), LAMBDA m : m.total)]
       /\ sum.value = Total(Buckets, LAMBDA b : FundsAging(R)[b].value)

(* A split leaves nothing out and counts nothing twice: new and returning, *)
(* inflow and rollover, tenors, in the summary, in each point, customer    *)
(* and manager, although some filter for both sides, some for one, and     *)
(* managers take a customer's type from its last record.                   *)
SplitsPartition == Viewed =>
    LET R == records
        s == Summary(R)
    IN /\ s.byType["new"].value + s.byType["returning"].value = s.total
       /\ s.inflow.value + s.rollover.value = s.total
       /\ Total(s.tenor, LAMBDA t : t.figure.value) = s.total
       /\ \A p \in Points(R, "monthly") :
            /\ p.new + p.returning = p.figure.value /\ p.inflow + p.rollover = p.figure.value
            /\ Total(DOMAIN p.banded, LAMBDA c : p.banded[c]) <= p.figure.value
       /\ \A c \in ToSet(Portfolio(R)) : c.total = Total(Categories, LAMBDA t : c.exposure[t])
       /\ \A m \in Managers(R) :
            /\ m.byType["new"].value + m.byType["returning"].value = m.total
            /\ m.byType["new"].count + m.byType["returning"].count = m.customers
            /\ \A b \in Buckets : m.aging[b].value <= FundsAging(R)[b].value

(* The hard-coded classification follows the bands of the table that the   *)
(* settings hold, at every boundary.  The category that a record holds may *)
(* be another: that of a source, or of the tenor before an UPDATE.         *)
TenorFollowsBands == Viewed =>
    \A r \in records : \A b \in TenorBands :
        r.days \in b.from .. b.to <=> Classify(r.days) = b.code

(* Whoever turns a list from its first to its last page while no record    *)
(* comes or goes has seen each customer, or record, that matches once,     *)
(* although every page is computed and sorted anew, and the commissions on *)
(* the pages add up to the sum that was shown beside each of them.         *)
QuietPagesCover ==
    reader.at = "shown" /\ reader.quiet /\ reader.page >= TotalPages(reader.total) =>
        /\ IsInjective(reader.seen)
        /\ ToSet(reader.seen) = IF reader.view = "portfolio"
             THEN Customers(Matching(reader.filter)) ELSE {r.id : r \in Matching(reader.filter)}
        /\ reader.earned = reader.promised
        /\ reader.total = Len(reader.seen)
=============================================================================

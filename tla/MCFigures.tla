------------------------------ MODULE MCFigures ------------------------------
(***************************************************************************)
(* The records that twelve rows of a CSV file become: three customers who  *)
(* are new and later returning, managers shared and missing, and a tenor   *)
(* at either side of each boundary. Cells to be read back, and rows that   *)
(* lack things, are unreadable or are at a boundary.                       *)
(***************************************************************************)
EXTENDS Figures

Text(t) == [Empty EXCEPT !.text = t]
Words(W) == IF W = {} THEN Empty ELSE [Text("w") EXCEPT !.words = W]
Number(n) == [Text("n") EXCEPT !.number = n]
Iso(d) == [Text("d") EXCEPT !.date = [form |-> "iso", year |-> 2024, month |-> 1, day |-> d]]
Headers == <<"user_id", "creation_date", "maturity_date", "amout", "amount", "customer_class",
             "funds_class", "inflow", "rollover", "tenure", "act_officer", "customer_name",
             "currency">>
Row(cells) ==
    LET there == SelectSeq(Headers, LAMBDA h : h \in DOMAIN cells)
    IN [i \in DOMAIN there |-> [header |-> there[i], cell |-> cells[there[i]]]]

(* Two of the customers' rows say nothing of the type, or of the fund      *)
(* class: they are returning, and what the columns of the amounts say.     *)
Kind(c, type, fund, days, m, amount, day, commission) ==
    LET row == Row([user_id |-> Text(c), customer_class |-> Words(type), funds_class |-> Words(fund),
                    rollover |-> Number(10), tenure |-> Number(10 * days), act_officer |-> Text(m),
                    amout |-> Number(10 * amount), creation_date |-> Iso(day + 1)])
        r == Imported(Staged(Normalized(row)))
    IN [customer |-> r.customer, type |-> r.type, fund |-> r.fund, days |-> r.days,
        category |-> r.category,
        manager |-> IF r.manager = Null THEN Unassigned ELSE r.manager,
        amount |-> r.amount \div 10, day |-> r.date[3] - 1, commission |-> commission]
KindsOfRows ==
    {Kind("c1", {"ntb"}, {"infl"}, 30, "m1", 2, 0, 1), Kind("c1", {}, {"retn"}, 120, "m1", 1, 1, 2),
     Kind("c2", {"new"}, {"infl"}, 121, "m1", 1, 1, Null), Kind("c2", {"retn"}, {"infl"}, 210, "", 2, 2, 0),
     Kind("c1", {"ntb"}, {"roll"}, 240, "", 0, 3, 1), Kind("c2", {"ntb"}, {"other"}, 360, "m2", 3, 4, 1),
     Kind("c1", {"retn"}, {"infl"}, 390, "m2", 1, 5, Null), Kind("c3", {}, {"roll"}, 481, "m1", 2, 0, 3),
     Kind("c2", {"ntb"}, {"infl"}, 29, "m2", 1, 2, 1), Kind("c3", {"return"}, {"retn"}, 480, "m1", 2, 4, 1),
     Kind("c3", {"new"}, {"infl"}, 150, "m2", 1, 1, 2), Kind("c1", {"retn"}, {"infl"}, 361, "m1", 1, 4, 1)}

(* Two of them after the sheet has them with another tenor: the category   *)
(* is the one they were posted with.                                       *)
Updated(k, days) == [k EXCEPT !.days = days]
UpdatedKinds ==
    {Updated(Kind("c1", {"ntb"}, {"infl"}, 30, "m1", 2, 0, 1), 210),
     Updated(Kind("c2", {"ntb"}, {"other"}, 360, "m2", 3, 4, 1), 29)}

(* Named apart, so that TLC evaluates the set once. *)
MCKinds == KindsOfRows \cup UpdatedKinds

MCCells == {c \in BoundedSeq({"a", Quote, Comma, Blank}, 3) : Trim(c) = c}
           \cup {<<"a", NewLine, "a">>, <<NewLine>>}
MCRows ==
    {Row([user_id |-> c, creation_date |-> d, maturity_date |-> e, amount |-> a, amout |-> a2,
          customer_class |-> t, funds_class |-> f, inflow |-> i, rollover |-> o, tenure |-> n,
          customer_name |-> x, currency |-> x]) :
        c \in {Empty, Text("c1")}, d \in {Empty, Text("?"), Iso(1)}, e \in {Empty, Text("?")},
        a \in {Empty, Text("?"), Number(-10), Number(0)}, a2 \in {Empty, Number(10)},
        t \in {Words({}), Words({"other"}), Words({"new", "return"})},
        f \in {Words({}), Words({"other"}), Words({"infl", "retn"})},
        i \in {Empty, Number(0), Number(10)}, o \in {Empty, Number(10)},
        n \in {Empty, Text("?"), Number(-10), Number(0), Number(4), Number(900)},
        x \in {Empty, Text("x")}}
=============================================================================

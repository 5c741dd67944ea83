--------------------------- MODULE FiguresProofs ---------------------------
(***************************************************************************)
(* That cells are read from a CSV file as they were written, what every    *)
(* row becomes, how every tenor is classed, that all views tell the same   *)
(* figures, that every split of them is complete, and that lists read page *)
(* by page are read whole.                                                 *)
(***************************************************************************)
EXTENDS Figures, TLAPS, WellFoundedInduction, FiniteSetTheorems, FunctionTheorems, SequenceTheorems

(* A set of places in a sequence has a last one. *)
LEMMA LastPlace ==
    ASSUME NEW n \in Nat, NEW S \in SUBSET (1 .. n), S # {}
    PROVE  Max(S) \in S
<1> DEFINE R == {xy \in Nat \X Nat : xy[1] < xy[2]}
           T == {m \in Nat : n - m \in S}
<1>1. IsWellFoundedOn(R, Nat)
  <2>1. R = OpToRel(<, Nat)
    BY DEF OpToRel
  <2> QED BY <2>1, NatLessThanWellFounded
<1>2. \A k, m \in Nat : <<k, m>> \notin R => m <= k
  OBVIOUS
<1>3. T # {}
  <2>1. PICK x \in S : TRUE
    OBVIOUS
  <2>2. n - x \in Nat /\ n - (n - x) = x
    BY <2>1
  <2>3. n - x \in T
    BY <2>1, <2>2
  <2> QED BY <2>3
<1> HIDE DEF R
<1>4. PICK m \in T : \A k \in T : <<k, m>> \notin R
  BY <1>1, <1>3, WFMin
<1>5. ASSUME NEW x \in S PROVE n - m >= x
  <2>1. n - x \in Nat /\ n - (n - x) = x /\ x \in Int
    BY <1>5
  <2>2. n - x \in T
    BY <2>1
  <2>3. m <= n - x
    BY <1>2, <1>4, <2>1, <2>2
  <2> QED BY <2>1, <2>3
<1>6. n - m \in S
  OBVIOUS
<1> QED BY <1>5, <1>6 DEF Max

-----------------------------------------------------------------------------
(* Rows. *)

(* What the parser keeps of a cell is never undefined.                     *)
LEMMA CellsHaveText ==
    ASSUME NEW row \in Rows, NEW c
    PROVE  Value(Normalized(row), c).text # Null
<1> DEFINE of == {i \in DOMAIN row : Column(row[i].header) = c}
<1>1. CASE c \in DOMAIN Normalized(row)
  <2>1. c \in {Column(row[i].header) : i \in DOMAIN row}
    BY <1>1 DEF Normalized
  <2>2. Len(row) \in Nat /\ of \in SUBSET (1 .. Len(row)) /\ of # {}
    BY <2>1, RowAssumption
  <2>3. Max(of) \in DOMAIN row
    <3> HIDE DEF of
    <3>1. Max(of) \in of /\ of \subseteq 1 .. Len(row)
      BY <2>2, LastPlace
    <3> QED BY <3>1, RowAssumption
  <2>4. Value(Normalized(row), c) = row[Max(of)].cell
    BY <1>1, <2>1 DEF Normalized, Value
  <2> QED BY <2>3, <2>4, RowAssumption
<1>2. CASE c \notin DOMAIN Normalized(row)
  BY <1>2, NullAssumption DEF Value, Empty
<1> QED BY <1>1, <1>2

(* Without a failure, each column that the importer has a default for was  *)
(* given and was read, but name and type, and a type that was given was.   *)
LEMMA NothingMissing ==
    ASSUME NEW v, Failures(v) = {}
    PROVE  /\ Value(v, "customer_id").text # ""
           /\ Fund(v) # Null /\ Days(Value(v, "tenor_days")) # Null
           /\ Money(Value(v, "investment_amount")) # Null
           /\ Date(Value(v, "mobilisation_date")) # Null
           /\ Value(v, "customer_type").text # "" => CustomerType(Value(v, "customer_type")) # Null
<1> DEFINE given(c) == Value(v, c).text # ""
           needed == {"customer_id", "mobilisation_date", "investment_amount", "fund_type", "tenor_days"}
           unread == [customer_type |-> CustomerType(Value(v, "customer_type")), fund_type |-> Fund(v),
                      tenor_days |-> Days(Value(v, "tenor_days")),
                      investment_amount |-> Money(Value(v, "investment_amount")),
                      mobilisation_date |-> Date(Value(v, "mobilisation_date")),
                      maturity_date |-> Date(Value(v, "maturity_date"))]
<1>1. Failures(v) = {<<c, "required">> : c \in {d \in needed : ~given(d)}}
                    \cup {<<c, "invalid">> : c \in {d \in DOMAIN unread : given(d) /\ unread[d] = Null}}
  BY DEF Failures
<1>2. \A d \in needed : given(d)
  <2> HIDE DEF needed, unread, given
  <2> SUFFICES ASSUME NEW d \in needed, ~given(d) PROVE FALSE
    OBVIOUS
  <2>1. <<d, "required">> \in Failures(v)
    BY <1>1
  <2> QED BY <2>1
<1>3. \A d \in DOMAIN unread : given(d) => unread[d] # Null
  <2> HIDE DEF needed, unread, given
  <2> SUFFICES ASSUME NEW d \in DOMAIN unread, given(d), unread[d] = Null PROVE FALSE
    OBVIOUS
  <2>1. <<d, "invalid">> \in Failures(v)
    BY <1>1
  <2> QED BY <2>1
<1> QED BY <1>2, <1>3

(* A day count that is read has a category, 0 the one of none.             *)
LEMMA CategoryKept ==
    ASSUME NEW v, Days(Value(v, "tenor_days")) # Null
    PROVE  Imported(Staged(v)).category = Classify(Days(Value(v, "tenor_days")))
<1> DEFINE days == Days(Value(v, "tenor_days"))
<1>1. Staged(v).category = IF days \in {Null, 0} THEN Null ELSE Classify(days)
  BY DEF Staged
<1>2. Imported(Staged(v)).category = IF Staged(v).category = Null THEN "unclassified" ELSE Staged(v).category
  BY DEF Imported, Staged
<1>3. CASE days = 0
  BY <1>1, <1>2, <1>3 DEF Classify
<1>4. CASE days # 0
  <2> HIDE DEF days
  <2>1. Staged(v).category = Classify(days)
    BY <1>1, <1>4 DEF days
  <2>2. Classify(days) # Null
    <3>1. \A c \in {"short_term", "mid_short_term", "medium_term", "long_term", "unclassified"} : c # Null
      BY CategoryAssumption DEF Categories, TenorBands
    <3>2. Classify(days) \in {"short_term", "mid_short_term", "medium_term", "long_term", "unclassified"}
      BY DEF Classify
    <3> QED BY <3>1, <3>2
  <2> QED BY <1>2, <2>1, <2>2 DEF days
<1> QED BY <1>3, <1>4

(* What is given is kept: the importer's defaults touch only what a row    *)
(* does not have.                                                          *)
LEMMA WholeRow ==
    ASSUME NEW row \in Rows, Failures(Normalized(row)) = {}
    PROVE  LET v == Normalized(row)
               staged == Staged(v)
               posted == Imported(staged)
           IN  /\ \A field \in {"customer", "fund", "days", "date", "amount"} :
                    staged[field] # Null /\ posted[field] = staged[field]
               /\ posted.category = Classify(staged.days)
               /\ Value(v, "customer_name").text # "" => posted.name = Value(v, "customer_name").text
               /\ Value(v, "customer_type").text # "" =>
                    staged.type # Null /\ posted.type = staged.type
               /\ Value(v, "currency").text # "" => posted.currency = Value(v, "currency").text
<1> DEFINE v == Normalized(row)
           s == Staged(v)
           text(c) == IF Value(v, c).text = "" THEN Null ELSE Value(v, c).text
<1>1. /\ s = [customer |-> s.customer, name |-> s.name, type |-> s.type, fund |-> s.fund,
              days |-> s.days, category |-> s.category, date |-> s.date, amount |-> s.amount,
              currency |-> s.currency, manager |-> s.manager]
      /\ s.customer = text("customer_id") /\ s.name = text("customer_name")
      /\ s.type = CustomerType(Value(v, "customer_type")) /\ s.fund = Fund(v)
      /\ s.days = Days(Value(v, "tenor_days")) /\ s.date = Date(Value(v, "mobilisation_date"))
      /\ s.amount = Money(Value(v, "investment_amount"))
      /\ s.currency = IF text("currency") = Null THEN "NGN" ELSE text("currency")
  BY DEF Staged
<1>2. /\ Value(v, "customer_id").text # Null /\ Value(v, "customer_name").text # Null
      /\ Value(v, "currency").text # Null
  BY CellsHaveText
<1>3. Imported(s).category = Classify(s.days)
  <2>1. Days(Value(v, "tenor_days")) # Null
    BY NothingMissing
  <2> HIDE DEF v
  <2> QED BY <1>1, <2>1, CategoryKept
<1> HIDE DEF v
<1>4. /\ Value(v, "customer_id").text # "" /\ Fund(v) # Null /\ Days(Value(v, "tenor_days")) # Null
      /\ Money(Value(v, "investment_amount")) # Null /\ Date(Value(v, "mobilisation_date")) # Null
      /\ Value(v, "customer_type").text # "" => CustomerType(Value(v, "customer_type")) # Null
  BY NothingMissing DEF v
<1> HIDE DEF s
<1>5. s.customer # Null /\ s.fund # Null /\ s.days # Null /\ s.date # Null /\ s.amount # Null
  BY <1>1, <1>2, <1>4
<1>6. /\ Imported(s).customer = s.customer /\ Imported(s).fund = s.fund
      /\ Imported(s).days = s.days /\ Imported(s).date = s.date /\ Imported(s).amount = s.amount
      /\ s.name # Null => Imported(s).name = s.name
      /\ s.type # Null => Imported(s).type = s.type
      /\ Imported(s).currency = s.currency
  BY <1>1, <1>5 DEF Imported
<1>7. \A field \in {"customer", "fund", "days", "date", "amount"} :
        s[field] # Null /\ Imported(s)[field] = s[field]
  BY <1>5, <1>6
<1>8. Value(v, "customer_name").text # "" => Imported(s).name = Value(v, "customer_name").text
  BY <1>1, <1>2, <1>6
<1>9. Value(v, "customer_type").text # "" => s.type # Null /\ Imported(s).type = s.type
  BY <1>1, <1>4, <1>6
<1>10. Value(v, "currency").text # "" => Imported(s).currency = Value(v, "currency").text
  BY <1>1, <1>2, <1>6
<1> QED BY <1>3, <1>7, <1>8, <1>9, <1>10 DEF s, v

(* Every row of any file, whatever its columns, that shows no failure is   *)
(* posted with the customer, fund, tenor, date and amount it was written   *)
(* with, in the category of its tenor; name, type and currency are made up *)
(* only where it gives none.                                               *)
THEOREM ValidRowsStayWhole == Spec => []ValidRowsAreWhole
<1> DEFINE RowGiven == file.kind = "row" => file.row \in Rows
<1>1. Init => RowGiven
  BY DEF Init, Nothing
<1>2. RowGiven /\ [Next]_vars => RowGiven'
  BY DEF Next, Upload, Finish, Nothing, vars
<1>3. RowGiven => ValidRowsAreWhole
  BY WholeRow DEF ValidRowsAreWhole
<1> QED BY <1>1, <1>2, <1>3, PTL DEF Spec

-----------------------------------------------------------------------------
(* Cells on a line. *)

(* A set of numbers has a least one.                                       *)
LEMMA FirstNumber ==
    ASSUME NEW S \in SUBSET Nat, S # {}
    PROVE  \E m \in S : \A k \in S : m <= k
<1> DEFINE R == {xy \in Nat \X Nat : xy[1] < xy[2]}
<1>1. IsWellFoundedOn(R, Nat)
  <2>1. R = OpToRel(<, Nat)
    BY DEF OpToRel
  <2> QED BY <2>1, NatLessThanWellFounded
<1>2. \A k, m \in Nat : <<k, m>> \notin R => m <= k
  OBVIOUS
<1> HIDE DEF R
<1>3. PICK m \in S : \A k \in S : <<k, m>> \notin R
  BY <1>1, WFMin
<1> QED BY <1>2, <1>3

(* A set with 0 in it, and with each number the one after, has them all.   *)
LEMMA UpTo ==
    ASSUME NEW n \in Nat, NEW G, 0 \in G, \A i \in 1 .. n : i - 1 \in G => i \in G
    PROVE  \A i \in 0 .. n : i \in G
<1> DEFINE bad == {i \in 0 .. n : i \notin G}
<1> SUFFICES ASSUME bad # {} PROVE FALSE
  OBVIOUS
<1>1. bad \in SUBSET Nat
  OBVIOUS
<1>2. PICK m \in bad : \A k \in bad : m <= k
  <2> HIDE DEF bad
  <2> QED BY <1>1, FirstNumber
<1>3. m \in 0 .. n /\ m \notin G
  OBVIOUS
<1>4. m # 0
  BY <1>3
<1>5. m \in 1 .. n /\ m - 1 \in 0 .. n /\ ~ (m <= m - 1)
  BY <1>3, <1>4
<1>6. m - 1 \in G
  BY <1>2, <1>5
<1> QED BY <1>3, <1>5, <1>6

(* The three passes: what each has after the first places follows from     *)
(* what it had one place before.                                           *)
LEMMA ReadSteps ==
    ASSUME NEW line, Len(line) \in Nat
    PROVE  \E r : /\ r[0] = Unread
                  /\ \A i \in 1 .. Len(line) : r[i] = Reading(line, r[i - 1], i)
                  /\ Read(line) = r[Len(line)]
<1> DEFINE n == Len(line)
           next(h, i) == IF i = 0 THEN Unread ELSE Reading(line, h[i - 1], i)
           step(h, m) == [i \in 0 .. m |-> next(h, i)]
           read[i \in 0 .. n] == IF i = 0 THEN Unread ELSE Reading(line, read[i - 1], i)
<1>1. Read(line) = read[n]
  BY DEF Read
<1>2. read = CHOOSE h : h = step(h, n)
  OBVIOUS
<1> HIDE DEF read
<1>3. \A m \in Nat : \E h : h = step(h, m)
  <2> DEFINE bad == {m \in Nat : ~ \E h : h = step(h, m)}
  <2> SUFFICES ASSUME bad # {} PROVE FALSE
    OBVIOUS
  <2>1. PICK m \in bad : \A k \in bad : m <= k
    BY FirstNumber
  <2>2. CASE m = 0
    <3> DEFINE h == [i \in 0 .. 0 |-> Unread]
    <3>1. h = step(h, 0)
      OBVIOUS
    <3> QED BY <2>1, <2>2, <3>1
  <2>3. CASE m # 0
    <3>0. m \in Nat /\ m - 1 \in Nat /\ ~ (m <= m - 1)
      BY <2>3
    <3>1. m - 1 \notin bad
      <4> HIDE DEF bad
      <4> QED BY <2>1, <3>0
    <3>2. PICK h : h = step(h, m - 1)
      BY <3>0, <3>1
    <3> DEFINE g == [i \in 0 .. m |-> IF i = m THEN next(h, m) ELSE h[i]]
    <3>3. \A i \in 0 .. m : g[i] = next(g, i)
      <4> SUFFICES ASSUME NEW i \in 0 .. m PROVE g[i] = next(g, i)
        OBVIOUS
      <4>1. i # 0 => g[i - 1] = h[i - 1]
        BY <3>0
      <4>2. next(g, i) = next(h, i)
        BY <4>1
      <4>3. i # m => h[i] = next(h, i)
        <5>1. i # m => i \in 0 .. m - 1
          BY <3>0
        <5> HIDE DEF next, g, bad
        <5> QED BY <3>2, <5>1
      <4> HIDE DEF next
      <4> QED BY <4>2, <4>3
    <3>4. g = step(g, m)
      <4> HIDE DEF next
      <4>1. DOMAIN g = 0 .. m /\ g = [i \in 0 .. m |-> g[i]]
        OBVIOUS
      <4> HIDE DEF g
      <4> QED BY <3>3, <4>1
    <3> QED BY <2>1, <3>4
  <2> QED BY <2>2, <2>3
<1>4. read = step(read, n)
  <2> HIDE DEF step
  <2> QED BY <1>2, <1>3
<1>5. read[0] = Unread /\ \A i \in 1 .. n : read[i] = Reading(line, read[i - 1], i)
  <2>1. \A i \in 0 .. n : read[i] = next(read, i)
    <3> HIDE DEF next
    <3> QED BY <1>4
  <2> QED BY <2>1
<1> QED BY <1>1, <1>5

(* The pass over the lines keeps those that are not blank.                 *)
LEMMA KeptSteps ==
    ASSUME NEW lines, Len(lines) \in Nat
    PROVE  \E r : /\ r[0] = <<>>
                  /\ \A i \in 1 .. Len(lines) :
                       r[i] = IF Trim(lines[i]) = <<>> THEN r[i - 1] ELSE Append(r[i - 1], Trim(lines[i]))
                  /\ Kept(lines) = r[Len(lines)]
<1> DEFINE n == Len(lines)
           add(s, l) == IF Trim(l) = <<>> THEN s ELSE Append(s, Trim(l))
           next(h, i) == IF i = 0 THEN <<>> ELSE add(h[i - 1], lines[i])
           step(h, m) == [i \in 0 .. m |-> next(h, i)]
           kept[i \in 0 .. n] ==
             IF i = 0 THEN <<>>
             ELSE IF Trim(lines[i]) = <<>> THEN kept[i - 1] ELSE Append(kept[i - 1], Trim(lines[i]))
<1>1. Kept(lines) = kept[n]
  BY DEF Kept
<1>2. kept = CHOOSE h : h = step(h, n)
  OBVIOUS
<1> HIDE DEF kept
<1>3. \A m \in Nat : \E h : h = step(h, m)
  <2> DEFINE bad == {m \in Nat : ~ \E h : h = step(h, m)}
  <2> SUFFICES ASSUME bad # {} PROVE FALSE
    OBVIOUS
  <2>1. PICK m \in bad : \A k \in bad : m <= k
    BY FirstNumber
  <2>2. CASE m = 0
    <3> DEFINE h == [i \in 0 .. 0 |-> <<>>]
    <3>1. h = step(h, 0)
      OBVIOUS
    <3> QED BY <2>1, <2>2, <3>1
  <2>3. CASE m # 0
    <3>0. m \in Nat /\ m - 1 \in Nat /\ ~ (m <= m - 1)
      BY <2>3
    <3>1. m - 1 \notin bad
      <4> HIDE DEF bad
      <4> QED BY <2>1, <3>0
    <3>2. PICK h : h = step(h, m - 1)
      BY <3>0, <3>1
    <3> DEFINE g == [i \in 0 .. m |-> IF i = m THEN next(h, m) ELSE h[i]]
    <3>3. \A i \in 0 .. m : g[i] = next(g, i)
      <4> SUFFICES ASSUME NEW i \in 0 .. m PROVE g[i] = next(g, i)
        OBVIOUS
      <4>1. i # 0 => g[i - 1] = h[i - 1]
        BY <3>0
      <4>2. next(g, i) = next(h, i)
        BY <4>1
      <4>3. i # m => h[i] = next(h, i)
        <5>1. i # m => i \in 0 .. m - 1
          BY <3>0
        <5> HIDE DEF next, g, bad
        <5> QED BY <3>2, <5>1
      <4> HIDE DEF next
      <4> QED BY <4>2, <4>3
    <3>4. g = step(g, m)
      <4> HIDE DEF next
      <4>1. DOMAIN g = 0 .. m /\ g = [i \in 0 .. m |-> g[i]]
        OBVIOUS
      <4> HIDE DEF g
      <4> QED BY <3>3, <4>1
    <3> QED BY <2>1, <3>4
  <2> QED BY <2>2, <2>3
<1>4. kept = step(kept, n)
  <2> HIDE DEF step
  <2> QED BY <1>2, <1>3
<1>5. kept[0] = <<>> /\ \A i \in 1 .. n : kept[i] = add(kept[i - 1], lines[i])
  <2>1. \A i \in 0 .. n : kept[i] = next(kept, i)
    <3> HIDE DEF next
    <3> QED BY <1>4
  <2> QED BY <2>1
<1> QED BY <1>1, <1>5

(* What has been cut, and the line that is being read. *)
Whole(lines, line) == [lines |-> lines, line |-> line]

(* The pass over the text cuts it at the line breaks.                      *)
LEMMA LineSteps ==
    ASSUME NEW content, Len(content) \in Nat
    PROVE  \E r : /\ r[0] = Whole(<<>>, <<>>)
                  /\ \A i \in 1 .. Len(content) : r[i] = Breaking(r[i - 1], content[i])
                  /\ Lines(content) = Append(r[Len(content)].lines, r[Len(content)].line)
<1> DEFINE n == Len(content)
           next(h, i) == IF i = 0 THEN Whole(<<>>, <<>>) ELSE Breaking(h[i - 1], content[i])
           step(h, m) == [i \in 0 .. m |-> next(h, i)]
           broken[i \in 0 .. n] ==
             IF i = 0 THEN Whole(<<>>, <<>>) ELSE Breaking(broken[i - 1], content[i])
<1>1. Lines(content) = Append(broken[n].lines, broken[n].line)
  BY DEF Lines, Whole
<1>2. broken = CHOOSE h : h = step(h, n)
  OBVIOUS
<1> HIDE DEF broken
<1>3. \A m \in Nat : \E h : h = step(h, m)
  <2> DEFINE bad == {m \in Nat : ~ \E h : h = step(h, m)}
  <2> SUFFICES ASSUME bad # {} PROVE FALSE
    OBVIOUS
  <2>1. PICK m \in bad : \A k \in bad : m <= k
    BY FirstNumber
  <2>2. CASE m = 0
    <3> DEFINE h == [i \in 0 .. 0 |-> Whole(<<>>, <<>>)]
    <3>1. h = step(h, 0)
      OBVIOUS
    <3> QED BY <2>1, <2>2, <3>1
  <2>3. CASE m # 0
    <3>0. m \in Nat /\ m - 1 \in Nat /\ ~ (m <= m - 1)
      BY <2>3
    <3>1. m - 1 \notin bad
      <4> HIDE DEF bad
      <4> QED BY <2>1, <3>0
    <3>2. PICK h : h = step(h, m - 1)
      BY <3>0, <3>1
    <3> DEFINE g == [i \in 0 .. m |-> IF i = m THEN next(h, m) ELSE h[i]]
    <3>3. \A i \in 0 .. m : g[i] = next(g, i)
      <4> SUFFICES ASSUME NEW i \in 0 .. m PROVE g[i] = next(g, i)
        OBVIOUS
      <4>1. i # 0 => g[i - 1] = h[i - 1]
        BY <3>0
      <4>2. next(g, i) = next(h, i)
        BY <4>1
      <4>3. i # m => h[i] = next(h, i)
        <5>1. i # m => i \in 0 .. m - 1
          BY <3>0
        <5> HIDE DEF next, g, bad
        <5> QED BY <3>2, <5>1
      <4> HIDE DEF next
      <4> QED BY <4>2, <4>3
    <3>4. g = step(g, m)
      <4> HIDE DEF next
      <4>1. DOMAIN g = 0 .. m /\ g = [i \in 0 .. m |-> g[i]]
        OBVIOUS
      <4> HIDE DEF g
      <4> QED BY <3>3, <4>1
    <3> QED BY <2>1, <3>4
  <2> QED BY <2>2, <2>3
<1>4. broken = step(broken, n)
  <2> HIDE DEF step
  <2> QED BY <1>2, <1>3
<1>5. broken[0] = Whole(<<>>, <<>>) /\ \A i \in 1 .. n : broken[i] = Breaking(broken[i - 1], content[i])
  <2>1. \A i \in 0 .. n : broken[i] = next(broken, i)
    <3> HIDE DEF next
    <3> QED BY <1>4
  <2> QED BY <2>1
<1> QED BY <1>1, <1>5

(* Sequences are joined one after the other.                               *)
LEMMA FlattenSteps ==
    ASSUME NEW seqs, Len(seqs) \in Nat, Len(seqs) = 0 => seqs = <<>>, NEW S,
           \A i \in 1 .. Len(seqs) : seqs[i] \in Seq(S)
    PROVE  \E r : /\ r[0] = <<>>
                  /\ \A i \in 1 .. Len(seqs) : r[i] = r[i - 1] \o seqs[i]
                  /\ FlattenSeq(seqs) = r[Len(seqs)]
<1> DEFINE n == Len(seqs)
           next(h, i) == IF i = 1 THEN seqs[i] ELSE h[i - 1] \o seqs[i]
           step(h, m) == [i \in 1 .. m |-> next(h, i)]
           flat[i \in 1 .. n] == IF i = 1 THEN seqs[i] ELSE flat[i - 1] \o seqs[i]
<1>1. FlattenSeq(seqs) = IF n = 0 THEN seqs ELSE flat[n]
  BY DEF FlattenSeq
<1>2. flat = CHOOSE h : h = step(h, n)
  OBVIOUS
<1> HIDE DEF flat
<1>3. \A m \in Nat : \E h : h = step(h, m)
  <2> DEFINE bad == {m \in Nat : ~ \E h : h = step(h, m)}
  <2> SUFFICES ASSUME bad # {} PROVE FALSE
    OBVIOUS
  <2>1. PICK m \in bad : \A k \in bad : m <= k
    BY FirstNumber
  <2>2. CASE m = 0
    <3> DEFINE h == [i \in 1 .. 0 |-> <<>>]
    <3>1. h = step(h, 0)
      OBVIOUS
    <3> QED BY <2>1, <2>2, <3>1
  <2>3. CASE m # 0
    <3>0. m \in Nat /\ m - 1 \in Nat /\ ~ (m <= m - 1)
      BY <2>3
    <3>1. m - 1 \notin bad
      <4> HIDE DEF bad
      <4> QED BY <2>1, <3>0
    <3>2. PICK h : h = step(h, m - 1)
      BY <3>0, <3>1
    <3> DEFINE g == [i \in 1 .. m |-> IF i = m THEN next(h, m) ELSE h[i]]
    <3>3. \A i \in 1 .. m : g[i] = next(g, i)
      <4> SUFFICES ASSUME NEW i \in 1 .. m PROVE g[i] = next(g, i)
        OBVIOUS
      <4>1. i # 1 => g[i - 1] = h[i - 1]
        BY <3>0
      <4>2. next(g, i) = next(h, i)
        BY <4>1
      <4>3. i # m => h[i] = next(h, i)
        <5>1. i # m => i \in 1 .. m - 1
          BY <3>0
        <5> HIDE DEF next, g, bad
        <5> QED BY <3>2, <5>1
      <4> HIDE DEF next
      <4> QED BY <4>2, <4>3
    <3>4. g = step(g, m)
      <4> HIDE DEF next
      <4>1. DOMAIN g = 1 .. m /\ g = [i \in 1 .. m |-> g[i]]
        OBVIOUS
      <4> HIDE DEF g
      <4> QED BY <3>3, <4>1
    <3> QED BY <2>1, <3>4
  <2> QED BY <2>2, <2>3
<1>4. flat = step(flat, n)
  <2> HIDE DEF step
  <2> QED BY <1>2, <1>3
<1> DEFINE r == [i \in 0 .. n |-> IF i = 0 THEN <<>> ELSE flat[i]]
<1>5. \A i \in 1 .. n : r[i] = r[i - 1] \o seqs[i]
  <2>1. \A i \in 1 .. n : flat[i] = next(flat, i)
    <3> HIDE DEF next
    <3> QED BY <1>4
  <2>2. ASSUME 1 \in 1 .. n PROVE r[1] = r[0] \o seqs[1]
    <3>1. r[1] = seqs[1] /\ r[0] = <<>> /\ seqs[1] \in Seq(S)
      BY <2>1, <2>2
    <3> QED BY <3>1, ConcatEmptySeq
  <2>3. ASSUME NEW i \in 1 .. n, i # 1 PROVE r[i] = r[i - 1] \o seqs[i]
    <3>1. i - 1 \in 1 .. n /\ i # 0 /\ i - 1 # 0
      BY <2>3
    <3>2. r[i] = flat[i] /\ r[i - 1] = flat[i - 1]
      BY <3>1
    <3> HIDE DEF r
    <3> QED BY <2>1, <2>3, <3>2
  <2> SUFFICES ASSUME NEW i \in 1 .. n PROVE r[i] = r[i - 1] \o seqs[i]
    OBVIOUS
  <2>4. CASE i = 1
    <3>1. r[i] = r[1] /\ seqs[i] = seqs[1] /\ r[i - 1] = r[0] /\ 1 \in 1 .. n
      BY <2>4
    <3> HIDE DEF r
    <3> QED BY <2>2, <3>1
  <2>5. CASE i # 1
    <3> HIDE DEF r
    <3> QED BY <2>3, <2>5
  <2> QED BY <2>4, <2>5
<1>6. r[0] = <<>> /\ FlattenSeq(seqs) = r[n]
  <2>1. CASE n = 0
    BY <2>1, <1>1
  <2>2. CASE n # 0
    BY <2>2, <1>1
  <2> QED BY <2>1, <2>2
<1> QED BY <1>5, <1>6

(* Texts of one line: the provers do not know that a literal is a string.  *)
Character == (STRING \cup {Quote, Comma, Blank, "x", "y"}) \ {NewLine}
Letters == Seq(Character)

(* A text that is trimmed stays as it is; blanks vanish.                   *)
LEMMA TrimKeeps ==
    ASSUME NEW s \in Letters, Trimmed(s)
    PROVE  Trim(s) = s
<1> DEFINE solid == {i \in DOMAIN s : s[i] # Blank}
<1>1. Trim(s) = IF solid = {} THEN <<>> ELSE SubSeq(s, Min(solid), Max(solid))
  BY DEF Trim
<1>2. DOMAIN s = 1 .. Len(s) /\ Len(s) \in Nat
  BY LenProperties DEF Letters
<1>3. CASE s = <<>>
  <2>1. solid = {}
    BY <1>3
  <2> QED BY <1>1, <1>3, <2>1
<1>4. CASE s # <<>>
  <2>1. Len(s) \in Nat \ {0}
    BY <1>4, EmptySeq DEF Letters
  <2>2. 1 \in solid /\ Len(s) \in solid /\ \A i \in solid : i \in Int /\ 1 <= i /\ i <= Len(s)
    BY <1>2, <1>4, <2>1 DEF Trimmed
  <2> HIDE DEF solid
  <2>3. Min(solid) = 1 /\ Max(solid) = Len(s)
    <3>1. Min(solid) \in solid /\ \A y \in solid : Min(solid) <= y
      BY <2>2 DEF Min
    <3>2. Max(solid) \in solid /\ \A y \in solid : Max(solid) >= y
      BY <2>2 DEF Max
    <3> QED BY <2>1, <2>2, <3>1, <3>2
  <2>4. solid # {}
    BY <2>2
  <2>5. SubSeq(s, 1, Len(s)) = s
    BY SubSeqFull DEF Letters
  <2> QED BY <1>1, <2>3, <2>4, <2>5
<1> QED BY <1>3, <1>4

(* A line of blanks is an empty one.                                       *)
LEMMA TrimBlanks == Trim(<<Blank>>) = <<>> /\ Trim(<<>>) = <<>>
  BY DEF Trim

(* The state in the midst of a line.                                       *)
Amid(cells, cell, quoted, skip) == [cells |-> cells, cell |-> cell, quoted |-> quoted, skip |-> skip]

(* What has been read of a text, with the next character.                  *)
LEMMA OneMore ==
    ASSUME NEW c \in Letters, NEW j \in 1 .. Len(c)
    PROVE  Append(SubSeq(c, 1, j - 1), c[j]) = SubSeq(c, 1, j)
<1>1. SubSeq(c, 1, j) = SubSeq(c, 1, j - 1) \o <<c[j]>>
  <2>1. 1 \in 1 .. Len(c) /\ j \in 1 .. Len(c)
    BY LenProperties DEF Letters
  <2> QED BY <2>1, SubSeqRecursiveSecond DEF Letters
<1>2. SubSeq(c, 1, j - 1) \in Seq(Character) /\ c[j] \in Character
  <2>1. \A i \in 1 .. j - 1 : c[i] \in Character
    BY ElementOfSeq, LenProperties DEF Letters
  <2>2. c[j] \in Character /\ j - 1 \in Int
    BY ElementOfSeq, LenProperties DEF Letters
  <2> QED BY <2>1, <2>2, SubSeqProperties
<1>3. SubSeq(c, 1, j - 1) \o <<c[j]>> = Append(SubSeq(c, 1, j - 1), c[j])
  BY <1>2
<1> QED BY <1>1, <1>3

Piece(x) == IF x = Quote THEN <<Quote, Quote>> ELSE <<x>>

(* The three signs are characters, and no two are the same.                *)
LEMMA Signs ==
    /\ Quote \in Character /\ Comma \in Character /\ Blank \in Character
    /\ Quote # Comma /\ Quote # Blank /\ Comma # Blank
<1>1. Quote \in Character /\ Comma \in Character /\ Blank \in Character
  <2>1. Quote # NewLine /\ Comma # NewLine /\ Blank # NewLine
    BY Zenon DEF Quote, Comma, Blank, NewLine
  <2> QED BY <2>1 DEF Character
<1>2. Quote # Comma /\ Quote # Blank /\ Comma # Blank
  BY Zenon DEF Quote, Comma, Blank
<1> QED BY <1>1, <1>2

(* Where in a text of pieces each character of the original is: p[i] is    *)
(* how long the first i of them are.                                       *)
LEMMA PiecesPlaced ==
    ASSUME NEW c \in Letters
    PROVE  LET D == FlattenSeq([i \in DOMAIN c |-> Piece(c[i])]) IN
           /\ D \in Letters
           /\ \E p : /\ p[0] = 0 /\ p[Len(c)] = Len(D)
                     /\ \A i \in 0 .. Len(c) : p[i] \in Nat
                     /\ \A i \in 1 .. Len(c) :
                          /\ p[i] = p[i - 1] + (IF c[i] = Quote THEN 2 ELSE 1)
                          /\ D[p[i - 1] + 1] = c[i]
                          /\ c[i] = Quote => D[p[i - 1] + 2] = Quote
<1> DEFINE n == Len(c)
           seqs == [i \in DOMAIN c |-> Piece(c[i])]
           D == FlattenSeq(seqs)
<1>1. n \in Nat /\ DOMAIN c = 1 .. n /\ \A i \in 1 .. n : c[i] \in Character
  BY ElementOfSeq, LenProperties DEF Letters
<1>2. \A i \in 1 .. n : Piece(c[i]) \in Seq(Character) /\ Len(Piece(c[i])) = (IF c[i] = Quote THEN 2 ELSE 1)
  <2> SUFFICES ASSUME NEW i \in 1 .. n
               PROVE  Piece(c[i]) \in Seq(Character) /\ Len(Piece(c[i])) = (IF c[i] = Quote THEN 2 ELSE 1)
    OBVIOUS
  <2>1. c[i] \in Character /\ Quote \in Character
    BY <1>1, Signs
  <2>2. CASE c[i] = Quote
    BY <2>1, <2>2 DEF Piece
  <2>3. CASE c[i] # Quote
    BY <2>1, <2>3 DEF Piece
  <2> QED BY <2>2, <2>3
<1>3. Len(seqs) = n /\ (n = 0 => seqs = <<>>) /\ \A i \in 1 .. n : seqs[i] = Piece(c[i])
  <2> HIDE DEF n
  <2>1. seqs = [i \in 1 .. n |-> Piece(c[i])]
    BY <1>1
  <2>2. seqs \in Seq(Seq(Character))
    BY <1>1, <1>2, <2>1
  <2>3. DOMAIN seqs = 1 .. n
    BY <2>1
  <2>4. Len(seqs) = n
    BY <1>1, <2>2, <2>3, LenProperties
  <2>5. n = 0 => seqs = <<>>
    BY <2>2, <2>4, EmptySeq
  <2> QED BY <2>1, <2>4, <2>5
<1> HIDE DEF seqs, n
<1>4. PICK r : /\ r[0] = <<>>
               /\ \A i \in 1 .. n : r[i] = r[i - 1] \o seqs[i]
               /\ D = r[n]
  BY <1>1, <1>2, <1>3, FlattenSteps
<1> HIDE DEF D
<1>5. \A i \in 0 .. n : r[i] \in Seq(Character)
  <2> DEFINE G == {i \in 0 .. n : r[i] \in Seq(Character)}
  <2>1. 0 \in G
    <3>1. 0 \in 0 .. n
      BY <1>1
    <3>2. r[0] \in Seq(Character)
      BY <1>4, EmptySeq
    <3> QED BY <3>1, <3>2
  <2>2. ASSUME NEW i \in 1 .. n, i - 1 \in G PROVE i \in G
    <3>1. i \in 0 .. n
      BY <1>1
    <3>2. r[i - 1] \in Seq(Character)
      BY <2>2
    <3>3. r[i] = r[i - 1] \o Piece(c[i])
      BY <1>3, <1>4
    <3>4. r[i] \in Seq(Character)
      BY <1>2, <3>2, <3>3, ConcatProperties
    <3> QED BY <3>1, <3>4
  <2>3. \A i \in 0 .. n : i \in G
    <3> HIDE DEF G
    <3> QED BY <1>1, <2>1, <2>2, UpTo
  <2> QED BY <2>3
<1>6. \A i \in 0 .. n : Len(r[i]) \in Nat
  BY <1>5, LenProperties
<1> DEFINE joins(i) == /\ i - 1 \in 0 .. n /\ i \in 0 .. n
                       /\ Len(r[i]) = Len(r[i - 1]) + (IF c[i] = Quote THEN 2 ELSE 1)
                       /\ Len(r[i - 1]) + 1 \in 1 .. Len(r[i])
                       /\ c[i] = Quote => Len(r[i - 1]) + 2 \in 1 .. Len(r[i])
                       /\ Len(r[i - 1]) <= Len(r[i])
                       /\ \A k \in 1 .. Len(r[i - 1]) : r[i][k] = r[i - 1][k]
                       /\ r[i][Len(r[i - 1]) + 1] = c[i]
                       /\ c[i] = Quote => r[i][Len(r[i - 1]) + 2] = Quote
<1>7. \A i \in 1 .. n : joins(i)
  <2> SUFFICES ASSUME NEW i \in 1 .. n PROVE joins(i)
    OBVIOUS
  <2>1. i - 1 \in 0 .. n /\ i \in 0 .. n
    BY <1>1
  <2> DEFINE s == r[i - 1]
             t == Piece(c[i])
  <2>2. s \in Seq(Character) /\ t \in Seq(Character) /\ r[i] = s \o t /\ Len(s) \in Nat
    BY <1>2, <1>3, <1>4, <1>5, <1>6, <2>1
  <2>3. Len(t) = (IF c[i] = Quote THEN 2 ELSE 1) /\ t[1] = c[i] /\ (c[i] = Quote => t[2] = Quote)
    BY <1>2 DEF Piece
  <2> HIDE DEF s, t
  <2>4. /\ Len(r[i]) = Len(s) + Len(t)
        /\ \A k \in 1 .. Len(s) + Len(t) : r[i][k] = IF k <= Len(s) THEN s[k] ELSE t[k - Len(s)]
    BY <2>2, ConcatProperties
  <2>5. \A k \in 1 .. Len(s) : r[i][k] = s[k]
    BY <2>2, <2>3, <2>4
  <2>6. r[i][Len(s) + 1] = t[1] /\ (c[i] = Quote => r[i][Len(s) + 2] = t[2])
    BY <2>2, <2>3, <2>4
  <2>7. Len(s) + 1 \in 1 .. Len(r[i]) /\ (c[i] = Quote => Len(s) + 2 \in 1 .. Len(r[i])) /\ Len(s) <= Len(r[i])
    <3>1. CASE c[i] = Quote
      BY <2>2, <2>3, <2>4, <3>1
    <3>2. CASE c[i] # Quote
      BY <2>2, <2>3, <2>4, <3>2
    <3> QED BY <3>1, <3>2
  <2> QED BY <2>1, <2>3, <2>4, <2>5, <2>6, <2>7 DEF s
<1> HIDE DEF joins
<1>8. \A i \in 0 .. n : Len(r[i]) <= Len(D) /\ \A k \in 1 .. Len(r[i]) : D[k] = r[i][k]
  <2> DEFINE good(i) == Len(r[i]) <= Len(D) /\ \A k \in 1 .. Len(r[i]) : D[k] = r[i][k]
             G == {m \in 0 .. n : good(n - m)}
  <2>1. 0 \in G
    <3>1. good(n)
      BY <1>1, <1>4, <1>6
    <3>2. n - 0 = n /\ 0 \in 0 .. n
      BY <1>1
    <3> HIDE DEF good
    <3> QED BY <3>1, <3>2
  <2>2. ASSUME NEW m \in 1 .. n, m - 1 \in G PROVE m \in G
    <3>1. m \in 0 .. n /\ n - (m - 1) \in 1 .. n /\ n - m = (n - (m - 1)) - 1
      BY <1>1
    <3>2. PICK i \in 1 .. n : n - (m - 1) = i /\ n - m = i - 1
      BY <3>1
    <3>3. good(i)
      <4> HIDE DEF good
      <4> QED BY <2>2, <3>2
    <3>4. Len(r[i]) \in Nat /\ Len(r[i - 1]) \in Nat /\ Len(D) \in Nat
      BY <1>1, <1>4, <1>6, <1>7 DEF joins
    <3>5. Len(r[i - 1]) <= Len(r[i]) /\ \A k \in 1 .. Len(r[i - 1]) : r[i][k] = r[i - 1][k]
      BY <1>7 DEF joins
    <3> HIDE DEF G
    <3>6. \A k \in 1 .. Len(r[i - 1]) : k \in 1 .. Len(r[i])
      BY <3>4, <3>5
    <3>7. Len(r[i - 1]) <= Len(D)
      BY <3>3, <3>4, <3>5
    <3>8. good(i - 1)
      BY <3>3, <3>5, <3>6, <3>7
    <3> HIDE DEF good
    <3> QED BY <3>1, <3>2, <3>8 DEF G
  <2>3. \A m \in 0 .. n : m \in G
    <3> HIDE DEF G
    <3> QED BY <1>1, <2>1, <2>2, UpTo
  <2> SUFFICES ASSUME NEW i \in 0 .. n PROVE good(i)
    OBVIOUS
  <2>4. n - i \in 0 .. n /\ n - (n - i) = i
    BY <1>1
  <2> HIDE DEF good
  <2> QED BY <2>3, <2>4
<1> DEFINE p == [i \in 0 .. n |-> Len(r[i])]
<1>9. p[0] = 0 /\ p[n] = Len(D) /\ \A i \in 0 .. n : p[i] \in Nat /\ p[i] = Len(r[i])
  BY <1>1, <1>4, <1>6, EmptySeq
<1> HIDE DEF p
<1>10. ASSUME NEW i \in 1 .. n
       PROVE  /\ p[i] = p[i - 1] + (IF c[i] = Quote THEN 2 ELSE 1)
              /\ D[p[i - 1] + 1] = c[i]
              /\ c[i] = Quote => D[p[i - 1] + 2] = Quote
  <2>1. i \in 0 .. n /\ i - 1 \in 0 .. n /\ Len(r[i]) \in Nat /\ Len(r[i - 1]) \in Nat
    BY <1>6, <1>7 DEF joins
  <2>2. p[i] = Len(r[i]) /\ p[i - 1] = Len(r[i - 1])
    BY <1>9, <2>1
  <2>3. \A k \in 1 .. Len(r[i]) : D[k] = r[i][k]
    BY <1>8, <2>1
  <2>4. Len(r[i]) = Len(r[i - 1]) + (IF c[i] = Quote THEN 2 ELSE 1)
    BY <1>7 DEF joins
  <2>7. r[i][Len(r[i - 1]) + 1] = c[i] /\ (c[i] = Quote => r[i][Len(r[i - 1]) + 2] = Quote)
    BY <1>7 DEF joins
  <2>8. Len(r[i - 1]) + 1 \in 1 .. Len(r[i]) /\ (c[i] = Quote => Len(r[i - 1]) + 2 \in 1 .. Len(r[i]))
    BY <1>7 DEF joins
  <2>5. D[Len(r[i - 1]) + 1] = c[i]
    BY <2>3, <2>7, <2>8
  <2>6. c[i] = Quote => D[Len(r[i - 1]) + 2] = Quote
    BY <2>3, <2>7, <2>8
  <2> QED BY <2>2, <2>4, <2>5, <2>6
<1>11. D \in Letters
  BY <1>1, <1>4, <1>5 DEF Letters
<1> QED BY <1>9, <1>10, <1>11 DEF n, D, seqs

Bare(c, sparing) == sparing /\ {Quote, Comma, NewLine} \cap ToSet(c) = {}

(* A text that needs no quotes, and gets none, is written as it is.        *)
LEMMA WrittenBare ==
    ASSUME NEW c \in Letters, NEW sparing \in BOOLEAN, Bare(c, sparing)
    PROVE  Written(c, sparing) = c /\ \A i \in 1 .. Len(c) : c[i] \notin {Quote, Comma}
<1>1. DOMAIN c = 1 .. Len(c)
  BY LenProperties DEF Letters
<1> QED BY <1>1 DEF Written, Bare, ToSet

(* Where the characters of two texts are when one follows the other.       *)
LEMMA Joined ==
    ASSUME NEW s \in Letters, NEW t \in Letters
    PROVE  /\ s \o t \in Letters /\ Len(s \o t) = Len(s) + Len(t)
           /\ Len(s) \in Nat /\ Len(t) \in Nat
           /\ \A k \in 1 .. Len(s) : (s \o t)[k] = s[k]
           /\ \A k \in 1 .. Len(t) : (s \o t)[Len(s) + k] = t[k] /\ Len(s) + k \in 1 .. Len(s \o t)
<1>1. Len(s) \in Nat /\ Len(t) \in Nat
  BY LenProperties DEF Letters
<1>2. /\ s \o t \in Letters /\ Len(s \o t) = Len(s) + Len(t)
      /\ \A k \in 1 .. Len(s) + Len(t) : (s \o t)[k] = IF k <= Len(s) THEN s[k] ELSE t[k - Len(s)]
  BY ConcatProperties DEF Letters
<1>3. ASSUME NEW k \in 1 .. Len(s) PROVE (s \o t)[k] = s[k]
  BY <1>1, <1>2
<1>4. ASSUME NEW k \in 1 .. Len(t)
      PROVE  (s \o t)[Len(s) + k] = t[k] /\ Len(s) + k \in 1 .. Len(s \o t)
  <2>1. Len(s) + k \in 1 .. Len(s) + Len(t) /\ ~ (Len(s) + k <= Len(s)) /\ (Len(s) + k) - Len(s) = k
    BY <1>1
  <2> QED BY <1>2, <2>1
<1> QED BY <1>1, <1>2, <1>3, <1>4

(* Where the characters of a text are when it is written in quotes.        *)
LEMMA WrittenQuoted ==
    ASSUME NEW c \in Letters, NEW sparing \in BOOLEAN, ~ Bare(c, sparing)
    PROVE  LET W == Written(c, sparing) IN
           /\ W \in Letters
           /\ \E p : /\ p[0] = 0 /\ Len(W) = p[Len(c)] + 2
                     /\ W[1] = Quote /\ W[p[Len(c)] + 2] = Quote
                     /\ \A i \in 0 .. Len(c) : p[i] \in Nat
                     /\ \A i \in 1 .. Len(c) :
                          /\ p[i] = p[i - 1] + (IF c[i] = Quote THEN 2 ELSE 1)
                          /\ W[p[i - 1] + 2] = c[i]
                          /\ c[i] = Quote => W[p[i - 1] + 3] = Quote
                          /\ p[i] <= p[Len(c)]
<1> DEFINE D == FlattenSeq([i \in DOMAIN c |-> Piece(c[i])])
           W == Written(c, sparing)
           n == Len(c)
<1>1. W = (<<Quote>> \o D) \o <<Quote>>
  BY DEF Written, Bare, Piece
<1>2. n \in Nat
  BY LenProperties DEF Letters
<1>3. D \in Letters
  BY PiecesPlaced
<1>4. PICK p : /\ p[0] = 0 /\ p[n] = Len(D)
               /\ \A i \in 0 .. n : p[i] \in Nat
               /\ \A i \in 1 .. n :
                    /\ p[i] = p[i - 1] + (IF c[i] = Quote THEN 2 ELSE 1)
                    /\ D[p[i - 1] + 1] = c[i]
                    /\ c[i] = Quote => D[p[i - 1] + 2] = Quote
  BY PiecesPlaced
<1> HIDE DEF D, W
<1>5. Len(D) \in Nat
  BY <1>3, LenProperties DEF Letters
<1>6. /\ W \in Letters /\ Len(W) = Len(D) + 2 /\ W[1] = Quote /\ W[Len(D) + 2] = Quote
      /\ \A k \in 1 .. Len(D) : W[k + 1] = D[k]
  <2> DEFINE q == <<Quote>>
             s == q \o D
  <2>1. q \in Letters /\ Len(q) = 1 /\ q[1] = Quote /\ 1 \in 1 .. Len(q)
    BY Signs DEF Letters
  <2>2. W = s \o q
    BY <1>1
  <2> HIDE DEF q
  <2>3. /\ s \in Letters /\ Len(s) = Len(q) + Len(D) /\ \A k \in 1 .. Len(q) : s[k] = q[k]
        /\ \A k \in 1 .. Len(D) : s[Len(q) + k] = D[k] /\ Len(q) + k \in 1 .. Len(s)
    BY <1>3, <2>1, Joined
  <2> HIDE DEF s
  <2>4. /\ W \in Letters /\ Len(W) = Len(s) + Len(q) /\ \A k \in 1 .. Len(s) : W[k] = s[k]
        /\ \A k \in 1 .. Len(q) : W[Len(s) + k] = q[k] /\ Len(s) + k \in 1 .. Len(W)
    BY <2>1, <2>2, <2>3, Joined
  <2>5. Len(s) = Len(D) + 1 /\ Len(W) = Len(D) + 2 /\ 1 \in 1 .. Len(s) /\ Len(s) + 1 = Len(D) + 2
    BY <1>5, <2>1, <2>3, <2>4
  <2>6. W[1] = Quote /\ W[Len(D) + 2] = Quote
    BY <2>1, <2>3, <2>4, <2>5
  <2>7. ASSUME NEW k \in 1 .. Len(D) PROVE W[k + 1] = D[k]
    <3>1. s[Len(q) + k] = D[k] /\ Len(q) + k \in 1 .. Len(s)
      BY <2>3
    <3>2. W[Len(q) + k] = s[Len(q) + k]
      BY <2>4, <3>1
    <3>3. Len(q) + k = k + 1
      BY <1>5, <2>1
    <3> QED BY <3>1, <3>2, <3>3
  <2> QED BY <2>4, <2>5, <2>6, <2>7
<1> DEFINE joins(i) == /\ p[i] = p[i - 1] + (IF c[i] = Quote THEN 2 ELSE 1)
                       /\ D[p[i - 1] + 1] = c[i]
                       /\ c[i] = Quote => D[p[i - 1] + 2] = Quote
<1>7. \A i \in 1 .. n : joins(i) /\ i - 1 \in 0 .. n /\ i \in 0 .. n
  BY <1>2, <1>4
<1> HIDE DEF joins
<1>8. \A i \in 0 .. n : p[i] <= p[n]
  <2> DEFINE G == {m \in 0 .. n : p[n - m] <= p[n]}
  <2>1. 0 \in G
    <3>1. n - 0 = n /\ 0 \in 0 .. n /\ p[n] <= p[n]
      BY <1>2, <1>4, <1>5
    <3> QED BY <3>1
  <2>2. ASSUME NEW m \in 1 .. n, m - 1 \in G PROVE m \in G
    <3>1. m \in 0 .. n /\ n - (m - 1) \in 1 .. n /\ n - m = (n - (m - 1)) - 1
      BY <1>2
    <3>2. PICK i \in 1 .. n : n - (m - 1) = i /\ n - m = i - 1
      BY <3>1
    <3>3. p[i] <= p[n]
      BY <2>2, <3>2
    <3>4. p[i] \in Nat /\ p[i - 1] \in Nat /\ p[n] \in Nat
      BY <1>4, <1>5, <1>7
    <3>5. p[i] = p[i - 1] + 1 \/ p[i] = p[i - 1] + 2
      BY <1>7 DEF joins
    <3> HIDE DEF G
    <3>6. p[i - 1] <= p[n]
      BY ONLY <3>3, <3>4, <3>5
    <3> QED BY <3>1, <3>2, <3>6 DEF G
  <2>3. \A m \in 0 .. n : m \in G
    <3> HIDE DEF G
    <3> QED BY <1>2, <2>1, <2>2, UpTo
  <2> SUFFICES ASSUME NEW i \in 0 .. n PROVE p[i] <= p[n]
    OBVIOUS
  <2>4. n - i \in 0 .. n /\ n - (n - i) = i
    BY <1>2
  <2> QED BY <2>3, <2>4
<1>9. ASSUME NEW i \in 1 .. n
      PROVE  /\ p[i] = p[i - 1] + (IF c[i] = Quote THEN 2 ELSE 1)
             /\ W[p[i - 1] + 2] = c[i]
             /\ c[i] = Quote => W[p[i - 1] + 3] = Quote
             /\ p[i] <= p[n]
  <2>1. p[i] = p[i - 1] + (IF c[i] = Quote THEN 2 ELSE 1)
    BY <1>7 DEF joins
  <2>2. p[i] <= p[n] /\ p[i] \in Nat /\ p[i - 1] \in Nat /\ p[n] = Len(D)
    BY <1>4, <1>7, <1>8
  <2>3. p[i - 1] + 1 \in 1 .. Len(D) /\ (c[i] = Quote => p[i - 1] + 2 \in 1 .. Len(D))
    <3>1. CASE c[i] = Quote
      BY <1>5, <2>1, <2>2, <3>1
    <3>2. CASE c[i] # Quote
      BY <1>5, <2>1, <2>2, <3>2
    <3> QED BY <3>1, <3>2
  <2>4. W[(p[i - 1] + 1) + 1] = D[p[i - 1] + 1] /\ (c[i] = Quote => W[(p[i - 1] + 2) + 1] = D[p[i - 1] + 2])
    BY <1>6, <2>3
  <2>5. (p[i - 1] + 1) + 1 = p[i - 1] + 2 /\ (p[i - 1] + 2) + 1 = p[i - 1] + 3
    BY <2>2
  <2>6. D[p[i - 1] + 1] = c[i] /\ (c[i] = Quote => D[p[i - 1] + 2] = Quote)
    BY <1>7 DEF joins
  <2> QED BY <2>1, <2>2, <2>4, <2>5, <2>6
<1> QED BY <1>4, <1>6, <1>9 DEF W

(* Nothing of a text, and all of it.                                       *)
LEMMA SubSeqEnds == \A c \in Letters : SubSeq(c, 1, 0) = <<>> /\ SubSeq(c, 1, Len(c)) = c
<1> SUFFICES ASSUME NEW c \in Letters PROVE SubSeq(c, 1, 0) = <<>> /\ SubSeq(c, 1, Len(c)) = c
  OBVIOUS
<1>1. SubSeq(c, 1, Len(c)) = c
  BY SubSeqFull DEF Letters
<1>2. SubSeq(c, 1, 0) = <<>>
  BY SubSeqEmpty DEF Letters
<1> QED BY <1>1, <1>2

(* A pass over a line, place by place.                                     *)
Pass(line, r) ==
    Len(line) \in Nat /\ \A i \in 1 .. Len(line) : r[i] = Reading(line, r[i - 1], i)

(* The cases of a character, each by itself.                               *)
LEMMA ReadsPlain ==
    ASSUME NEW line, NEW i, NEW cs, NEW x, line[i] \notin {Quote, Comma}
    PROVE  Reading(line, Amid(cs, x, FALSE, FALSE), i) = Amid(cs, Append(x, line[i]), FALSE, FALSE)
  BY DEF Reading, Amid

(* Inside quotes a comma is text.                                          *)
LEMMA ReadsQuoted ==
    ASSUME NEW line, NEW i, NEW cs, NEW x, line[i] # Quote
    PROVE  Reading(line, Amid(cs, x, TRUE, FALSE), i) = Amid(cs, Append(x, line[i]), TRUE, FALSE)
  BY DEF Reading, Amid

(* The second of two quotes has been read with the first.                  *)
LEMMA ReadsSecond ==
    ASSUME NEW line, NEW i, NEW cs, NEW x
    PROVE  Reading(line, Amid(cs, x, TRUE, TRUE), i) = Amid(cs, x, TRUE, FALSE)
  BY DEF Reading, Amid

(* A quote outside quotes opens them.                                      *)
LEMMA ReadsOpening ==
    ASSUME NEW line, NEW i, NEW cs, NEW x, line[i] = Quote
    PROVE  Reading(line, Amid(cs, x, FALSE, FALSE), i) = Amid(cs, x, TRUE, FALSE)
  BY DEF Reading, Amid

(* A quote inside quotes that none follows closes them.                    *)
LEMMA ReadsClosing ==
    ASSUME NEW line, NEW i, NEW cs, NEW x, line[i] = Quote, ~ (i < Len(line) /\ line[i + 1] = Quote)
    PROVE  Reading(line, Amid(cs, x, TRUE, FALSE), i) = Amid(cs, x, FALSE, FALSE)
  BY DEF Reading, Amid

(* After the place k, with x read of a cell: outside quotes and inside.    *)
Outside(r, k, cs, x) == r[k] = Amid(cs, x, FALSE, FALSE)
Inside(r, k, cs, x) == r[k] = Amid(cs, x, TRUE, FALSE)

(* Inside quotes, y is written from the place after q up to e; and a text  *)
(* lies in a line after the place k, with no quote following it.           *)
Quoted(line, q, e, y) ==
    /\ q \in Nat /\ e \in Nat /\ e <= Len(line) /\ line[q + 1] = y
    /\ IF y = Quote THEN e = q + 2 /\ line[q + 2] = Quote ELSE e = q + 1
End(W, k) == k + Len(W)
LiesIn(line, W, k) ==
    /\ k \in Nat /\ k + Len(W) <= Len(line) /\ \A j \in 1 .. Len(W) : line[k + j] = W[j]
    /\ k + Len(W) = Len(line) \/ line[k + Len(W) + 1] # Quote

(* Inside quotes, a character is read that is written once or twice.       *)
LEMMA QuotedCharacter ==
    ASSUME NEW line, NEW r, Pass(line, r),
           NEW cs, NEW x, NEW y, NEW q, NEW e, Inside(r, q, cs, x), Quoted(line, q, e, y)
    PROVE  Inside(r, e, cs, Append(x, y))
<1>0. Len(line) \in Nat /\ \A i \in 1 .. Len(line) : r[i] = Reading(line, r[i - 1], i)
  BY DEF Pass
<1>9. /\ q \in Nat /\ e \in Nat /\ e <= Len(line) /\ line[q + 1] = y
      /\ IF y = Quote THEN e = q + 2 /\ line[q + 2] = Quote ELSE e = q + 1
  BY DEF Quoted
<1>1. q + 1 \in 1 .. Len(line) /\ (q + 1) - 1 = q
  BY <1>0, <1>9
<1>2. r[q + 1] = Reading(line, Amid(cs, x, TRUE, FALSE), q + 1)
  BY <1>0, <1>1, <1>9 DEF Inside
<1>3. CASE y # Quote
  <2>1. r[q + 1] = Amid(cs, Append(x, y), TRUE, FALSE)
    BY <1>2, <1>3, <1>9, ReadsQuoted
  <2> QED BY <1>3, <1>9, <2>1 DEF Inside
<1>4. CASE y = Quote
  <2>1. q + 2 \in 1 .. Len(line) /\ (q + 2) - 1 = q + 1 /\ (q + 1) + 1 = q + 2 /\ q + 1 < Len(line)
    BY <1>0, <1>4, <1>9
  <2>2. line[q + 1] = Quote /\ line[(q + 1) + 1] = Quote /\ q + 1 < Len(line)
    BY <1>4, <1>9, <2>1
  <2>3. Reading(line, Amid(cs, x, TRUE, FALSE), q + 1) = Amid(cs, Append(x, Quote), TRUE, TRUE)
    BY ONLY <2>2 DEF Reading, Amid
  <2>4. r[q + 2] = Reading(line, Amid(cs, Append(x, Quote), TRUE, TRUE), q + 2)
    BY <1>0, <1>2, <2>1, <2>3
  <2>5. Reading(line, Amid(cs, Append(x, Quote), TRUE, TRUE), q + 2) = Amid(cs, Append(x, Quote), TRUE, FALSE)
    BY ONLY ReadsSecond
  <2> QED BY <1>4, <1>9, <2>4, <2>5 DEF Inside
<1> QED BY <1>3, <1>4

(* A text without quotes and commas is read whole.                         *)
LEMMA ReadBare ==
    ASSUME NEW line, NEW r, Pass(line, r),
           NEW cs, NEW k, Outside(r, k, cs, <<>>),
           NEW c \in Letters, NEW sparing \in BOOLEAN, Bare(c, sparing), LiesIn(line, Written(c, sparing), k)
    PROVE  Outside(r, End(Written(c, sparing), k), cs, c)
<1>0. Len(line) \in Nat /\ \A i \in 1 .. Len(line) : r[i] = Reading(line, r[i - 1], i)
  BY DEF Pass
<1>5. /\ k \in Nat /\ r[k] = Amid(cs, <<>>, FALSE, FALSE) /\ k + Len(c) <= Len(line)
      /\ \A j \in 1 .. Len(c) : line[k + j] = c[j] /\ c[j] \notin {Quote, Comma}
  BY WrittenBare DEF LiesIn, Outside
<1> USE <1>5
<1> DEFINE n == Len(c)
           part(j) == Amid(cs, SubSeq(c, 1, j), FALSE, FALSE)
           G == {j \in 0 .. n : r[k + j] = part(j)}
<1>1. n \in Nat
  BY LenProperties DEF Letters
<1>2. 0 \in G
  <2>1. part(0) = Amid(cs, <<>>, FALSE, FALSE)
    BY SubSeqEnds
  <2> HIDE DEF part, n
  <2>2. 0 \in 0 .. n /\ k + 0 = k
    BY <1>1
  <2> QED BY <2>1, <2>2
<1>3. ASSUME NEW j \in 1 .. n, j - 1 \in G PROVE j \in G
  <2>1. r[k + (j - 1)] = part(j - 1)
    BY <1>3
  <2>2. k + j \in 1 .. Len(line) /\ (k + j) - 1 = k + (j - 1) /\ j \in 0 .. n
    BY <1>0, <1>1
  <2>3. r[k + j] = Reading(line, part(j - 1), k + j)
    BY <1>0, <2>1, <2>2
  <2>4. line[k + j] = c[j] /\ line[k + j] \notin {Quote, Comma}
    OBVIOUS
  <2>5. Append(SubSeq(c, 1, j - 1), c[j]) = SubSeq(c, 1, j)
    BY OneMore
  <2>6. Reading(line, part(j - 1), k + j) = Amid(cs, Append(SubSeq(c, 1, j - 1), line[k + j]), FALSE, FALSE)
    BY <2>4, ReadsPlain
  <2>7. r[k + j] = part(j)
    BY <2>3, <2>4, <2>5, <2>6
  <2> HIDE DEF part
  <2> QED BY <2>2, <2>7
<1>4. n \in G
  <2> HIDE DEF G
  <2>1. n \in 0 .. n
    BY <1>1
  <2>2. \A j \in 1 .. n : j - 1 \in G => j \in G
    BY <1>3
  <2> HIDE DEF n
  <2> QED BY <1>1, <1>2, <2>1, <2>2, UpTo
<1>6. part(n) = Amid(cs, c, FALSE, FALSE)
  BY SubSeqEnds
<1>7. r[k + n] = Amid(cs, c, FALSE, FALSE)
  <2> HIDE DEF part
  <2> QED BY <1>4, <1>6
<1> QED BY <1>7, WrittenBare DEF Outside, End

(* A text in quotes is read whole, whatever it holds.                      *)
LEMMA ReadQuoted ==
    ASSUME NEW line, NEW r, Pass(line, r),
           NEW cs, NEW k, Outside(r, k, cs, <<>>),
           NEW c \in Letters, NEW sparing \in BOOLEAN, ~ Bare(c, sparing), LiesIn(line, Written(c, sparing), k)
    PROVE  Outside(r, End(Written(c, sparing), k), cs, c)
<1>0. Len(line) \in Nat /\ \A i \in 1 .. Len(line) : r[i] = Reading(line, r[i - 1], i)
  BY DEF Pass
<1> DEFINE W == Written(c, sparing)
<1>16. /\ k \in Nat /\ r[k] = Amid(cs, <<>>, FALSE, FALSE)
       /\ k + Len(W) <= Len(line) /\ \A j \in 1 .. Len(W) : line[k + j] = W[j]
       /\ k + Len(W) = Len(line) \/ line[k + Len(W) + 1] # Quote
  BY DEF LiesIn, Outside
<1> USE <1>16
<1> DEFINE n == Len(c)
           placed(p, i) == /\ p[i] = p[i - 1] + (IF c[i] = Quote THEN 2 ELSE 1)
                           /\ W[p[i - 1] + 2] = c[i]
                           /\ c[i] = Quote => W[p[i - 1] + 3] = Quote
                           /\ p[i] <= p[n]
<1>1. n \in Nat
  BY LenProperties DEF Letters
<1>2. PICK p : /\ p[0] = 0 /\ Len(W) = p[n] + 2
               /\ W[1] = Quote /\ W[p[n] + 2] = Quote
               /\ \A i \in 0 .. n : p[i] \in Nat
               /\ \A i \in 1 .. n : placed(p, i)
  BY WrittenQuoted
<1> HIDE DEF W
<1> DEFINE here(i) == (k + 1) + p[i]
           part(i) == Amid(cs, SubSeq(c, 1, i), TRUE, FALSE)
           G == {i \in 0 .. n : r[here(i)] = part(i)}
<1> HIDE DEF placed
<1>3. p[n] \in Nat /\ p[0] = 0 /\ Len(W) = p[n] + 2 /\ 1 \in 1 .. Len(W) /\ p[n] + 2 \in 1 .. Len(W)
  <2>1. p[n] \in Nat /\ p[0] = 0 /\ Len(W) = p[n] + 2
    BY <1>1, <1>2
  <2> HIDE DEF n
  <2> QED BY <2>1
<1>4. r[k + 1] = Amid(cs, <<>>, TRUE, FALSE)
  <2>1. k + 1 \in 1 .. Len(line) /\ (k + 1) - 1 = k
    BY <1>0, <1>3
  <2>2. line[k + 1] = Quote
    BY <1>2, <1>3
  <2>3. r[k + 1] = Reading(line, Amid(cs, <<>>, FALSE, FALSE), k + 1)
    BY <1>0, <2>1
  <2>4. Reading(line, Amid(cs, <<>>, FALSE, FALSE), k + 1) = Amid(cs, <<>>, TRUE, FALSE)
    BY ONLY <2>2, ReadsOpening
  <2> QED BY <2>3, <2>4
<1>5. 0 \in G
  <2>1. part(0) = Amid(cs, <<>>, TRUE, FALSE)
    BY SubSeqEnds
  <2>2. here(0) = k + 1
    BY <1>3
  <2> HIDE DEF part, here, n
  <2>3. 0 \in 0 .. n
    BY <1>1
  <2> QED BY <1>4, <2>1, <2>2, <2>3
<1>6. ASSUME NEW i \in 1 .. n, i - 1 \in G PROVE i \in G
  <2> DEFINE a == p[i - 1]
             w == IF c[i] = Quote THEN 2 ELSE 1
             q == (k + 1) + a
             x == SubSeq(c, 1, i - 1)
  <2>1. i \in 0 .. n /\ i - 1 \in 0 .. n
    BY <1>1
  <2>2. a \in Nat /\ p[i] \in Nat
    BY <1>2, <2>1
  <2>3. placed(p, i)
    BY <1>2
  <2>4. p[i] = a + w /\ W[a + 2] = c[i] /\ (c[i] = Quote => W[a + 3] = Quote) /\ a + w <= p[n]
    BY <2>3 DEF placed
  <2>5. r[q] = Amid(cs, x, TRUE, FALSE)
    BY <1>6
  <2>6. Append(x, c[i]) = SubSeq(c, 1, i)
    BY OneMore
  <2>7. w \in {1, 2} /\ (c[i] = Quote => w = 2)
    OBVIOUS
  <2>8. IF c[i] = Quote THEN w = 2 ELSE w = 1
    OBVIOUS
  <2> HIDE DEF a, w, x, n
  <2> DEFINE m == p[n]
             L == Len(line)
             N == Len(W)
  <2>15. m \in Nat /\ L \in Nat /\ N = m + 2 /\ a + w <= m /\ k + N <= L /\ a \in Nat
    BY <1>0, <1>3, <2>2, <2>4
  <2> HIDE DEF m, L, N, G
  <2>9. /\ a + 2 \in 1 .. N /\ k + (a + 2) = q + 1 /\ q \in Nat /\ q + w <= L
        /\ q + w = (k + 1) + (a + w)
    BY ONLY k \in Nat, <2>15, <2>7 DEF q
  <2>10. c[i] = Quote => a + 3 \in 1 .. N /\ k + (a + 3) = q + 2
    BY <2>15, <2>7
  <2> HIDE DEF q
  <2>11. line[q + 1] = c[i]
    BY <2>4, <2>9 DEF N
  <2>12. c[i] = Quote => line[q + 2] = Quote
    BY <2>4, <2>10 DEF N
  <2>13. r[q + w] = Amid(cs, Append(x, c[i]), TRUE, FALSE)
    <3> DEFINE e == q + w
    <3>1. Quoted(line, q, e, c[i])
      BY <2>7, <2>8, <2>9, <2>11, <2>12 DEF Quoted, L
    <3>2. Inside(r, q, cs, x)
      BY <2>5 DEF Inside
    <3> HIDE DEF here, part, e
    <3>3. Inside(r, e, cs, Append(x, c[i]))
      BY <3>1, <3>2, QuotedCharacter
    <3> QED BY <3>3 DEF e, Inside
  <2>14. r[here(i)] = part(i)
    BY <2>4, <2>6, <2>9, <2>13
  <2> HIDE DEF here, part
  <2> QED BY <2>1, <2>14 DEF G
<1>7. n \in G
  <2> HIDE DEF G
  <2>1. n \in 0 .. n
    BY <1>1
  <2>2. \A i \in 1 .. n : i - 1 \in G => i \in G
    BY <1>6
  <2> HIDE DEF n
  <2> QED BY <1>1, <1>5, <2>1, <2>2, UpTo
<1>8. part(n) = Amid(cs, c, TRUE, FALSE)
  BY SubSeqEnds
<1>9. r[(k + 1) + p[n]] = Amid(cs, c, TRUE, FALSE)
  <2>1. r[here(n)] = part(n)
    <3> HIDE DEF here, part
    <3> QED BY <1>7
  <2> QED BY <1>8, <2>1
<1> HIDE DEF n, G, part, here
<1> DEFINE m == p[n]
           N == Len(W)
           L == Len(line)
           e == k + (m + 2)
<1>10. m \in Nat /\ N = m + 2 /\ N \in Nat /\ L \in Nat /\ k + N <= L
  BY <1>0, <1>3
<1> HIDE DEF m, N, L
<1>11. e \in 1 .. L /\ k + N = e /\ e - 1 = (k + 1) + m
  BY <1>10
<1>12. line[e] = Quote
  BY <1>2, <1>3 DEF m
<1> HIDE DEF e
<1>13. ~ (e < Len(line) /\ line[e + 1] = Quote)
  BY <1>11 DEF N, L
<1>14. Reading(line, Amid(cs, c, TRUE, FALSE), e) = Amid(cs, c, FALSE, FALSE)
  BY ONLY <1>12, <1>13, ReadsClosing
<1>15. r[e] = Reading(line, Amid(cs, c, TRUE, FALSE), e)
  BY <1>0, <1>9, <1>11 DEF m, L
<1> QED BY <1>11, <1>14, <1>15 DEF N, W, End, Outside

(* Whichever way it is written, a text is read whole.                      *)
LEMMA ReadCell ==
    ASSUME NEW line, NEW r, Pass(line, r), NEW cs, NEW k, Outside(r, k, cs, <<>>),
           NEW c \in Letters, NEW sparing \in BOOLEAN, LiesIn(line, Written(c, sparing), k)
    PROVE  Outside(r, End(Written(c, sparing), k), cs, c)
  BY ReadBare, ReadQuoted

(* What is written of a trimmed text is trimmed as well.                   *)
LEMMA WrittenEnds ==
    ASSUME NEW c \in Letters, Trimmed(c), NEW sparing \in BOOLEAN
    PROVE  LET W == Written(c, sparing) IN
           W \in Letters /\ Len(W) \in Nat /\ (Len(W) # 0 => W[1] # Blank /\ W[Len(W)] # Blank)
<1> DEFINE W == Written(c, sparing)
           good == W \in Letters /\ Len(W) \in Nat /\ (Len(W) # 0 => W[1] # Blank /\ W[Len(W)] # Blank)
<1>1. ASSUME Bare(c, sparing) PROVE good
  <2>1. W = c /\ Len(c) \in Nat /\ (Len(c) # 0 => c # <<>>)
    BY <1>1, WrittenBare, LenProperties DEF Letters
  <2> HIDE DEF W
  <2> QED BY <2>1 DEF Trimmed
<1>2. ASSUME ~ Bare(c, sparing) PROVE good
  <2>1. PICK p : W \in Letters /\ Len(W) = p[Len(c)] + 2 /\ W[1] = Quote /\ W[p[Len(c)] + 2] = Quote
    BY <1>2, WrittenQuoted
  <2> HIDE DEF W
  <2>2. Len(W) \in Nat /\ W[Len(W)] = Quote
    BY <2>1, LenProperties DEF Letters
  <2> QED BY <2>1, <2>2, Signs
<1> QED BY <1>1, <1>2

Line(c, d, sparing) == Written(c, sparing) \o <<Comma>> \o Written(d, sparing)

(* Where on a line its two cells and the comma are.                        *)
LEMMA LinePlaced ==
    ASSUME NEW A \in Letters, NEW B \in Letters
    PROVE  LET line == A \o <<Comma>> \o B IN
           /\ line \in Letters /\ Len(line) = Len(A) + 1 + Len(B)
           /\ Len(A) \in Nat /\ Len(B) \in Nat
           /\ \A j \in 1 .. Len(A) : line[j] = A[j]
           /\ line[Len(A) + 1] = Comma
           /\ \A j \in 1 .. Len(B) : line[Len(A) + 1 + j] = B[j]
<1> DEFINE q == <<Comma>>
           s == A \o q
           line == s \o B
<1>1. q \in Letters /\ Len(q) = 1 /\ q[1] = Comma /\ 1 \in 1 .. Len(q)
  BY Signs DEF Letters
<1>2. A \o <<Comma>> \o B = line
  OBVIOUS
<1> HIDE DEF q
<1>3. /\ s \in Letters /\ Len(s) = Len(A) + Len(q) /\ Len(A) \in Nat
      /\ \A k \in 1 .. Len(A) : s[k] = A[k]
      /\ \A k \in 1 .. Len(q) : s[Len(A) + k] = q[k] /\ Len(A) + k \in 1 .. Len(s)
  BY <1>1, Joined
<1> HIDE DEF s
<1>4. /\ line \in Letters /\ Len(line) = Len(s) + Len(B) /\ Len(B) \in Nat
      /\ \A k \in 1 .. Len(s) : line[k] = s[k]
      /\ \A k \in 1 .. Len(B) : line[Len(s) + k] = B[k]
  BY <1>3, Joined
<1> HIDE DEF line
<1>5. Len(s) = Len(A) + 1
  BY <1>1, <1>3
<1>6. line[Len(A) + 1] = Comma
  BY <1>1, <1>3, <1>4
<1>7. \A j \in 1 .. Len(A) : line[j] = A[j]
  <2>1. \A j \in 1 .. Len(A) : j \in 1 .. Len(s)
    BY <1>3, <1>5
  <2> QED BY <1>3, <1>4, <2>1
<1>8. \A j \in 1 .. Len(B) : line[Len(A) + 1 + j] = B[j]
  BY <1>4, <1>5
<1>9. Len(line) = Len(A) + 1 + Len(B)
  BY <1>4, <1>5
<1> QED BY <1>2, <1>3, <1>4, <1>6, <1>7, <1>8, <1>9

(* Two cells, one after the other.                                         *)
LEMMA Pair ==
    ASSUME NEW c, NEW d
    PROVE  Append(<<c>>, d) = <<c, d>>
<1> DEFINE S == {c, d}
           s == <<c>>
           t == Append(s, d)
<1>1. s \in Seq(S) /\ Len(s) = 1 /\ s[1] = c /\ <<c, d>> \in Seq(S)
  OBVIOUS
<1>2. d \in S
  OBVIOUS
<1> HIDE DEF s, S
<1>3. /\ t \in Seq(S) /\ Len(t) = Len(s) + 1 /\ t[Len(s) + 1] = d
      /\ \A i \in 1 .. Len(s) : t[i] = s[i]
  <2>1. s \in Seq(S)
    BY <1>1
  <2> QED BY ONLY <1>2, <2>1, AppendProperties
<1> HIDE DEF t
<1>4. 1 \in 1 .. Len(s) /\ Len(s) + 1 = 2
  BY <1>1
<1>5. Len(t) = 2 /\ t[1] = c /\ t[2] = d
  BY <1>1, <1>3, <1>4
<1>6. t = <<c, d>>
  BY <1>1, <1>3, <1>5
<1> QED BY <1>6 DEF s, t

(* A line of two cells, each written quoted or bare, is cut into them.     *)
LEMMA LineReads ==
    ASSUME NEW c \in Letters, Trimmed(c), NEW d \in Letters, Trimmed(d), NEW sparing \in BOOLEAN
    PROVE  ParseLine(Line(c, d, sparing)) = <<c, d>>
<1> DEFINE A == Written(c, sparing)
           B == Written(d, sparing)
           line == A \o <<Comma>> \o B
<1>1. A \in Letters /\ B \in Letters
  BY WrittenEnds
<1> HIDE DEF A, B
<1>2. /\ line \in Letters /\ Len(line) = Len(A) + 1 + Len(B)
      /\ Len(A) \in Nat /\ Len(B) \in Nat
      /\ \A j \in 1 .. Len(A) : line[j] = A[j]
      /\ line[Len(A) + 1] = Comma
      /\ \A j \in 1 .. Len(B) : line[Len(A) + 1 + j] = B[j]
  BY <1>1, LinePlaced
<1>3. Line(c, d, sparing) = line
  BY DEF Line, A, B
<1> HIDE DEF line
<1>4. PICK r : /\ r[0] = Unread
               /\ \A i \in 1 .. Len(line) : r[i] = Reading(line, r[i - 1], i)
               /\ Read(line) = r[Len(line)]
  <2>1. Len(line) \in Nat
    BY <1>2
  <2> QED BY <2>1, ReadSteps
<1>5. Pass(line, r)
  BY <1>2, <1>4 DEF Pass
<1> DEFINE a == Len(A)
           L == Len(line)
<1>6. Outside(r, 0, <<>>, <<>>)
  BY <1>4 DEF Outside, Unread, Amid
<1>7. LiesIn(line, A, 0) /\ End(A, 0) = a
  <2>1. 0 + Len(A) = Len(A) /\ Len(A) <= Len(line) /\ \A j \in 1 .. Len(A) : 0 + j = j
    BY <1>2
  <2>2. line[0 + Len(A) + 1] # Quote
    BY <1>2, <2>1, Signs
  <2>3. \A j \in 1 .. Len(A) : line[0 + j] = A[j]
    BY <1>2, <2>1
  <2> QED BY <2>1, <2>2, <2>3 DEF LiesIn, End
<1>8. Outside(r, a, <<>>, c)
  <2>1. Outside(r, End(A, 0), <<>>, c)
    BY <1>5, <1>6, <1>7, ReadCell DEF A
  <2> QED BY <1>7, <2>1
<1>9. Outside(r, a + 1, <<c>>, <<>>)
  <2>1. a + 1 \in 1 .. Len(line) /\ (a + 1) - 1 = a
    BY <1>2
  <2>2. r[a + 1] = Reading(line, Amid(<<>>, c, FALSE, FALSE), a + 1)
    BY <1>4, <1>8, <2>1 DEF Outside
  <2>3. Reading(line, Amid(<<>>, c, FALSE, FALSE), a + 1) = Amid(Append(<<>>, Trim(c)), <<>>, FALSE, FALSE)
    <3>1. line[a + 1] = Comma
      BY <1>2
    <3>2. Quote # Comma
      BY Signs
    <3> QED BY ONLY <3>1, <3>2 DEF Reading, Amid
  <2>4. Append(<<>>, Trim(c)) = <<c>>
    BY TrimKeeps
  <2> QED BY <2>2, <2>3, <2>4 DEF Outside
<1>10. LiesIn(line, B, a + 1) /\ End(B, a + 1) = L
  <2>1. a + 1 \in Nat /\ a + 1 + Len(B) = Len(line) /\ Len(line) \in Nat
    BY <1>2
  <2> QED BY <1>2, <2>1 DEF LiesIn, End
<1>11. Outside(r, L, <<c>>, d)
  <2>1. Outside(r, End(B, a + 1), <<c>>, d)
    <3> HIDE DEF a
    <3> DEFINE k == a + 1
    <3>1. Outside(r, k, <<c>>, <<>>) /\ LiesIn(line, B, k)
      BY <1>9, <1>10
    <3> HIDE DEF k
    <3>2. Outside(r, End(B, k), <<c>>, d)
      BY <1>5, <3>1, ReadCell DEF B
    <3> QED BY <3>2 DEF k
  <2> QED BY <1>10, <2>1
<1>12. ParseLine(line) = Append(<<c>>, Trim(d))
  BY <1>4, <1>11 DEF ParseLine, Outside, Amid
<1>13. Append(<<c>>, Trim(d)) = <<c, d>>
  <2>1. Trim(d) = d
    BY TrimKeeps
  <2>2. Append(<<c>>, d) = <<c, d>>
    BY Pair
  <2> QED BY <2>1, <2>2
<1> QED BY <1>3, <1>12, <1>13

(* A line of two cells has nothing to trim.                                *)
LEMMA LineTrimmed ==
    ASSUME NEW c \in Letters, Trimmed(c), NEW d \in Letters, Trimmed(d), NEW sparing \in BOOLEAN
    PROVE  LET line == Line(c, d, sparing) IN line \in Letters /\ line # <<>> /\ Trim(line) = line
<1> DEFINE A == Written(c, sparing)
           B == Written(d, sparing)
           line == A \o <<Comma>> \o B
<1>1. /\ A \in Letters /\ (Len(A) # 0 => A[1] # Blank)
      /\ B \in Letters /\ (Len(B) # 0 => B[Len(B)] # Blank)
  BY WrittenEnds
<1> HIDE DEF A, B
<1>2. /\ line \in Letters /\ Len(line) = Len(A) + 1 + Len(B)
      /\ Len(A) \in Nat /\ Len(B) \in Nat
      /\ \A j \in 1 .. Len(A) : line[j] = A[j]
      /\ line[Len(A) + 1] = Comma
      /\ \A j \in 1 .. Len(B) : line[Len(A) + 1 + j] = B[j]
  BY <1>1, LinePlaced
<1>3. Line(c, d, sparing) = line
  BY DEF Line, A, B
<1> HIDE DEF line
<1>4. line # <<>>
  <2>1. Len(line) # 0
    BY <1>2
  <2> QED BY <2>1
<1>5. line[1] # Blank
  <2>1. CASE Len(A) = 0
    <3>1. Len(A) + 1 = 1
      BY <2>1
    <3> QED BY <1>2, <3>1, Signs
  <2>2. CASE Len(A) # 0
    <3>1. 1 \in 1 .. Len(A)
      BY <1>2, <2>2
    <3> QED BY <1>1, <1>2, <2>2, <3>1
  <2> QED BY <2>1, <2>2
<1>6. line[Len(line)] # Blank
  <2>1. CASE Len(B) = 0
    <3>1. Len(line) = Len(A) + 1
      BY <1>2, <2>1
    <3> QED BY <1>2, <3>1, Signs
  <2>2. CASE Len(B) # 0
    <3>1. Len(B) \in 1 .. Len(B)
      BY <1>2, <2>2
    <3>2. line[Len(line)] = B[Len(B)]
      BY <1>2, <3>1
    <3> QED BY <1>1, <2>2, <3>2
  <2> QED BY <2>1, <2>2
<1>7. Trim(line) = line
  BY <1>2, <1>5, <1>6, TrimKeeps DEF Trimmed
<1> QED BY <1>2, <1>3, <1>4, <1>7

(* Of two lines among empty ones, both are kept and nothing else.          *)
LEMMA KeptBetween ==
    ASSUME NEW header \in Letters, header # <<>>, Trim(header) = header,
           NEW line \in Letters, line # <<>>, Trim(line) = line
    PROVE  Kept(<<header, <<Blank>>, line, <<>>>>) = <<header, line>>
<1> DEFINE lines == <<header, <<Blank>>, line, <<>>>>
<1>1. Len(lines) = 4 /\ lines[1] = header /\ lines[2] = <<Blank>> /\ lines[3] = line /\ lines[4] = <<>>
  OBVIOUS
<1> HIDE DEF lines
<1>2. PICK r : /\ r[0] = <<>>
               /\ \A i \in 1 .. Len(lines) :
                    r[i] = IF Trim(lines[i]) = <<>> THEN r[i - 1] ELSE Append(r[i - 1], Trim(lines[i]))
               /\ Kept(lines) = r[Len(lines)]
  <2>1. Len(lines) \in Nat
    BY <1>1
  <2> QED BY <2>1, KeptSteps
<1> DEFINE next(i) == IF Trim(lines[i]) = <<>> THEN r[i - 1] ELSE Append(r[i - 1], Trim(lines[i]))
<1>3. r[1] = next(1) /\ r[2] = next(2) /\ r[3] = next(3) /\ r[4] = next(4)
  <2>1. \A i \in 1 .. 4 : r[i] = next(i)
    BY <1>1, <1>2
  <2>2. 1 \in 1 .. 4 /\ 2 \in 1 .. 4 /\ 3 \in 1 .. 4 /\ 4 \in 1 .. 4
    OBVIOUS
  <2> HIDE DEF next
  <2> QED BY <2>1, <2>2
<1>4. r[1] = <<header>>
  <2>1. r[1] = Append(<<>>, header)
    BY <1>1, <1>2, <1>3
  <2> QED BY <2>1
<1>5. r[2] = <<header>>
  BY <1>1, <1>3, <1>4, TrimBlanks
<1>6. r[3] = <<header, line>>
  <2>1. r[3] = Append(<<header>>, line)
    <3>1. 3 - 1 = 2 /\ Trim(lines[3]) = line /\ Trim(lines[3]) # <<>>
      BY <1>1
    <3> QED BY <1>3, <1>5, <3>1
  <2> QED BY <2>1, Pair
<1>7. r[4] = <<header, line>>
  BY <1>1, <1>3, <1>6, TrimBlanks
<1> QED BY <1>1, <1>2, <1>7 DEF lines

(* The line of the columns is one like any other.                          *)
LEMMA HeaderLine ==
    /\ <<"x">> \in Letters /\ Trimmed(<<"x">>) /\ <<"y">> \in Letters /\ Trimmed(<<"y">>)
    /\ Line(<<"x">>, <<"y">>, TRUE) = <<"x", Comma, "y">>
<1>1. "x" \in Character /\ "y" \in Character /\ Comma \in Character
  <2>1. "x" # NewLine /\ "y" # NewLine
    BY Zenon DEF NewLine
  <2> QED BY <2>1, Signs DEF Character
<1>2. "x" \notin {Quote, Comma, Blank} /\ "y" \notin {Quote, Comma, Blank}
  <2>1. "x" # Quote /\ "x" # Comma /\ "x" # Blank
    BY Zenon DEF Quote, Comma, Blank
  <2>2. "y" # Quote /\ "y" # Comma /\ "y" # Blank
    BY Zenon DEF Quote, Comma, Blank
  <2> QED BY <2>1, <2>2
<1> DEFINE x == <<"x">>
           y == <<"y">>
<1>3. /\ x \in Letters /\ Len(x) = 1 /\ DOMAIN x = {1} /\ x[1] = "x"
      /\ y \in Letters /\ Len(y) = 1 /\ DOMAIN y = {1} /\ y[1] = "y"
  BY <1>1 DEF Letters
<1>4. x \o <<Comma>> \o y = <<"x", Comma, "y">>
  <2> DEFINE s == x \o <<Comma>> \o y
             t == <<"x", Comma, "y">>
  <2> HIDE DEF x, y
  <2>1. s \in Letters /\ Len(s) = 3 /\ s[1] = "x" /\ s[2] = Comma /\ s[3] = "y"
    <3>1. /\ s \in Letters /\ Len(s) = Len(x) + 1 + Len(y)
          /\ \A j \in 1 .. Len(x) : s[j] = x[j]
          /\ s[Len(x) + 1] = Comma
          /\ \A j \in 1 .. Len(y) : s[Len(x) + 1 + j] = y[j]
      BY <1>3, LinePlaced
    <3>2. 1 \in 1 .. Len(x) /\ 1 \in 1 .. Len(y) /\ Len(x) + 1 = 2 /\ Len(x) + 1 + 1 = 3
      BY <1>3
    <3> HIDE DEF s
    <3> QED BY <1>3, <3>1, <3>2
  <2>2. t \in Letters /\ Len(t) = 3 /\ t[1] = "x" /\ t[2] = Comma /\ t[3] = "y"
    BY <1>1 DEF Letters
  <2> HIDE DEF s, t
  <2>3. \A i \in 1 .. Len(s) : s[i] = t[i]
    BY <2>1, <2>2
  <2>4. s = t
    BY <2>1, <2>2, <2>3, SeqEqual DEF Letters
  <2> QED BY <2>4 DEF s, t
<1> HIDE DEF x, y
<1>5. Trimmed(x) /\ Trimmed(y)
  BY <1>2, <1>3 DEF Trimmed
<1>6. Bare(x, TRUE) /\ Bare(y, TRUE)
  <2>1. "x" # NewLine /\ "y" # NewLine
    BY <1>1 DEF Character
  <2> QED BY <1>2, <1>3, <2>1 DEF Bare, ToSet
<1>7. Written(x, TRUE) = x /\ Written(y, TRUE) = y
  BY <1>3, <1>6, WrittenBare
<1> QED BY <1>3, <1>4, <1>5, <1>7 DEF Line, x, y

(* Texts of several lines, and where a text of one of them lies in them.   *)
Texts == Seq(Character \cup {NewLine})
Broken(t, r) == t \in Texts /\ \A i \in 1 .. Len(t) : r[i] = Breaking(r[i - 1], t[i])
Holds(t, w, k) == /\ k \in Nat /\ k + Len(w) <= Len(t)
                  /\ \A j \in 1 .. Len(w) : t[k + j] = w[j]
At(r, k, lines, line) == r[k] = Whole(lines, line)
AfterLine(k, w) == k + Len(w)
Ends(t, k) == k \in 1 .. Len(t) /\ t[k] = NewLine

(* A text without a line break is read into the line.                      *)
LEMMA LineGrows ==
    ASSUME NEW t, NEW r, Broken(t, r), NEW w \in Letters, NEW k, Holds(t, w, k),
           NEW done, At(r, k, done, <<>>)
    PROVE  At(r, AfterLine(k, w), done, w)
<1>1. Len(w) \in Nat /\ Len(t) \in Nat /\ k \in Nat
  BY LenProperties DEF Letters, Broken, Texts, Holds
<1> DEFINE G == {i \in 0 .. Len(w) : r[k + i] = Whole(done, SubSeq(w, 1, i))}
<1>2. 0 \in G
  <2>1. SubSeq(w, 1, 0) = <<>>
    BY SubSeqEmpty DEF Letters
  <2>2. k + 0 = k /\ 0 \in 0 .. Len(w)
    BY <1>1
  <2> QED BY <2>1, <2>2 DEF At
<1>3. ASSUME NEW i \in 1 .. Len(w), i - 1 \in G PROVE i \in G
  <2>1. k + i \in 1 .. Len(t) /\ (k + i) - 1 = k + (i - 1) /\ i \in 0 .. Len(w)
    BY <1>1 DEF Holds
  <2>2. r[k + (i - 1)] = Whole(done, SubSeq(w, 1, i - 1))
    BY <1>3
  <2>3. r[k + i] = Breaking(Whole(done, SubSeq(w, 1, i - 1)), w[i])
    BY <2>1, <2>2 DEF Broken, Holds
  <2>4. w[i] # NewLine
    <3>1. w[i] \in Character
      BY ElementOfSeq DEF Letters
    <3> QED BY <3>1 DEF Character
  <2>5. Append(SubSeq(w, 1, i - 1), w[i]) = SubSeq(w, 1, i)
    BY OneMore
  <2> DEFINE some == SubSeq(w, 1, i - 1)
             more == SubSeq(w, 1, i)
  <2>6. r[k + i] = Whole(done, more)
    <3> HIDE DEF some, more
    <3>1. r[k + i] = Breaking(Whole(done, some), w[i]) /\ Append(some, w[i]) = more
      BY <2>3, <2>5 DEF some, more
    <3> QED BY <2>4, <3>1 DEF Breaking, Whole
  <2> QED BY <2>1, <2>6
<1>4. \A i \in 0 .. Len(w) : i \in G
  <2> HIDE DEF G
  <2> QED BY <1>1, <1>2, <1>3, UpTo
<1>5. SubSeq(w, 1, Len(w)) = w /\ Len(w) \in 0 .. Len(w)
  BY <1>1, SubSeqFull DEF Letters
<1> QED BY <1>4, <1>5 DEF At, AfterLine

(* A line break ends it.                                                   *)
LEMMA LineEnds ==
    ASSUME NEW t, NEW r, Broken(t, r), NEW k, Ends(t, k), NEW done, NEW w, At(r, k - 1, done, w)
    PROVE  At(r, k, Append(done, w), <<>>)
<1>1. r[k] = Breaking(Whole(done, w), NewLine)
  BY DEF Broken, Ends, At
<1> QED BY <1>1 DEF Breaking, Whole, At

(* Three lines, one after the other, and four.                            *)
LEMMA Triple ==
    ASSUME NEW a, NEW b, NEW c
    PROVE  Append(<<a, b>>, c) = <<a, b, c>>
<1> DEFINE S == {a, b, c}
           s == <<a, b>>
           t == Append(s, c)
<1>1. s \in Seq(S) /\ Len(s) = 2 /\ s[1] = a /\ s[2] = b /\ <<a, b, c>> \in Seq(S)
  OBVIOUS
<1>2. c \in S
  OBVIOUS
<1> HIDE DEF s, S
<1>3. /\ t \in Seq(S) /\ Len(t) = Len(s) + 1 /\ t[Len(s) + 1] = c
      /\ \A i \in 1 .. Len(s) : t[i] = s[i]
  <2>1. s \in Seq(S)
    BY <1>1
  <2> QED BY ONLY <1>2, <2>1, AppendProperties
<1> HIDE DEF t
<1>4. 1 \in 1 .. Len(s) /\ 2 \in 1 .. Len(s) /\ Len(s) + 1 = 3
  BY <1>1
<1>5. Len(t) = 3 /\ t[1] = a /\ t[2] = b /\ t[3] = c
  BY <1>1, <1>3, <1>4
<1>6. t = <<a, b, c>>
  BY <1>1, <1>3, <1>5
<1> QED BY <1>6 DEF s, t

LEMMA Quadruple ==
    ASSUME NEW a, NEW b, NEW c, NEW d
    PROVE  Append(<<a, b, c>>, d) = <<a, b, c, d>>
<1> DEFINE S == {a, b, c, d}
           s == <<a, b, c>>
           t == Append(s, d)
<1>1. s \in Seq(S) /\ Len(s) = 3 /\ s[1] = a /\ s[2] = b /\ s[3] = c /\ <<a, b, c, d>> \in Seq(S)
  OBVIOUS
<1>2. d \in S
  OBVIOUS
<1> HIDE DEF s, S
<1>3. /\ t \in Seq(S) /\ Len(t) = Len(s) + 1 /\ t[Len(s) + 1] = d
      /\ \A i \in 1 .. Len(s) : t[i] = s[i]
  <2>1. s \in Seq(S)
    BY <1>1
  <2> QED BY ONLY <1>2, <2>1, AppendProperties
<1> HIDE DEF t
<1>4. 1 \in 1 .. Len(s) /\ 2 \in 1 .. Len(s) /\ 3 \in 1 .. Len(s) /\ Len(s) + 1 = 4
  BY <1>1
<1>5. Len(t) = 4 /\ t[1] = a /\ t[2] = b /\ t[3] = c /\ t[4] = d
  BY <1>1, <1>3, <1>4
<1>6. t = <<a, b, c, d>>
  BY <1>1, <1>3, <1>5
<1> QED BY <1>6 DEF s, t

(* Where the characters of two texts are when one follows the other.       *)
LEMMA TextsJoined ==
    ASSUME NEW s \in Texts, NEW t \in Texts
    PROVE  /\ s \o t \in Texts /\ Len(s \o t) = Len(s) + Len(t)
           /\ Len(s) \in Nat /\ Len(t) \in Nat
           /\ \A k \in 1 .. Len(s) : (s \o t)[k] = s[k]
           /\ \A k \in 1 .. Len(t) : (s \o t)[Len(s) + k] = t[k] /\ Len(s) + k \in 1 .. Len(s \o t)
<1>1. Len(s) \in Nat /\ Len(t) \in Nat
  BY LenProperties DEF Texts
<1>2. /\ s \o t \in Texts /\ Len(s \o t) = Len(s) + Len(t)
      /\ \A k \in 1 .. Len(s) + Len(t) : (s \o t)[k] = IF k <= Len(s) THEN s[k] ELSE t[k - Len(s)]
  BY ConcatProperties DEF Texts
<1>3. ASSUME NEW k \in 1 .. Len(s) PROVE (s \o t)[k] = s[k]
  BY <1>1, <1>2
<1>4. ASSUME NEW k \in 1 .. Len(t)
      PROVE  (s \o t)[Len(s) + k] = t[k] /\ Len(s) + k \in 1 .. Len(s \o t)
  <2>1. Len(s) + k \in 1 .. Len(s) + Len(t) /\ ~ (Len(s) + k <= Len(s)) /\ (Len(s) + k) - Len(s) = k
    BY <1>1
  <2> QED BY <1>2, <2>1
<1> QED BY <1>1, <1>2, <1>3, <1>4

(* The file that is read: the line of the columns, one of a blank, one of  *)
(* cells, and an empty one.                                                *)
Before == <<"x", Comma, "y", NewLine, Blank, NewLine>>
Content(line) == Before \o line \o <<NewLine>>

LEMMA ContentPlaced ==
    ASSUME NEW line \in Letters
    PROVE  LET t == Content(line) IN
           /\ t \in Texts /\ Len(line) \in Nat /\ Len(t) = Len(line) + 7
           /\ Holds(t, <<"x", Comma, "y">>, 0) /\ Ends(t, 4)
           /\ Holds(t, <<Blank>>, 4) /\ Ends(t, 6)
           /\ Holds(t, line, 6) /\ Ends(t, Len(line) + 7)
<1> DEFINE q == <<NewLine>>
           b == Before
           s == b \o line
           t == s \o q
           L == Len(line)
<1>1. q \in Texts /\ Len(q) = 1 /\ q[1] = NewLine /\ 1 \in 1 .. Len(q)
  BY DEF Texts
<1>2. /\ b \in Texts /\ Len(b) = 6 /\ b[1] = "x" /\ b[2] = Comma /\ b[3] = "y"
      /\ b[4] = NewLine /\ b[5] = Blank /\ b[6] = NewLine
  <2>1. "x" \in Character /\ "y" \in Character /\ Comma \in Character /\ Blank \in Character
    <3>1. "x" # NewLine /\ "y" # NewLine
      BY Zenon DEF NewLine
    <3> QED BY <3>1, Signs DEF Character
  <2> QED BY <2>1 DEF Texts, Before
<1>3. line \in Texts /\ L \in Nat
  <2>1. Character \subseteq Character \cup {NewLine}
    OBVIOUS
  <2>2. L \in Nat
    BY LenProperties DEF Letters
  <2> QED BY <2>1, <2>2, SeqMonotonic DEF Letters, Texts
<1>4. Content(line) = t
  BY DEF Content
<1> HIDE DEF q, b
<1>5. /\ s \in Texts /\ Len(s) = Len(b) + L
      /\ \A k \in 1 .. Len(b) : s[k] = b[k]
      /\ \A k \in 1 .. L : s[Len(b) + k] = line[k]
  BY <1>2, <1>3, TextsJoined
<1> HIDE DEF s
<1>6. /\ t \in Texts /\ Len(t) = Len(s) + Len(q)
      /\ \A k \in 1 .. Len(s) : t[k] = s[k]
      /\ \A k \in 1 .. Len(q) : t[Len(s) + k] = q[k]
  BY <1>1, <1>5, TextsJoined
<1> HIDE DEF t, L
<1>7. Len(s) = L + 6 /\ Len(t) = L + 7
  BY <1>1, <1>2, <1>3, <1>5, <1>6
<1>8. \A k \in 1 .. 6 : t[k] = b[k]
  <2> SUFFICES ASSUME NEW k \in 1 .. 6 PROVE t[k] = b[k]
    OBVIOUS
  <2>1. k \in 1 .. Len(s) /\ k \in 1 .. Len(b)
    BY <1>2, <1>3, <1>7
  <2> QED BY <1>5, <1>6, <2>1
<1>9. /\ t[1] = "x" /\ t[2] = Comma /\ t[3] = "y" /\ t[4] = NewLine /\ t[5] = Blank /\ t[6] = NewLine
  BY <1>2, <1>8
<1>10. \A k \in 1 .. L : t[6 + k] = line[k]
  <2> SUFFICES ASSUME NEW k \in 1 .. L PROVE t[6 + k] = line[k]
    OBVIOUS
  <2>1. 6 + k \in 1 .. Len(s)
    BY <1>3, <1>7
  <2> QED BY <1>2, <1>5, <1>6, <2>1
<1>11. t[L + 7] = NewLine
  <2>1. L + 7 = Len(s) + 1
    BY <1>3, <1>7
  <2> QED BY <1>1, <1>6, <2>1
<1>12. Holds(t, <<"x", Comma, "y">>, 0)
  <2> DEFINE w == <<"x", Comma, "y">>
  <2>1. Len(w) = 3 /\ w[1] = "x" /\ w[2] = Comma /\ w[3] = "y"
    OBVIOUS
  <2> HIDE DEF w
  <2>2. 0 \in Nat /\ 0 + Len(w) <= Len(t)
    BY <1>3, <1>7, <2>1
  <2>3. \A j \in 1 .. Len(w) : t[0 + j] = w[j]
    BY <1>9, <2>1
  <2> QED BY <2>2, <2>3 DEF Holds, w
<1>13. Holds(t, <<Blank>>, 4)
  <2> DEFINE w == <<Blank>>
  <2>1. Len(w) = 1 /\ w[1] = Blank
    OBVIOUS
  <2> HIDE DEF w
  <2>2. 4 \in Nat /\ 4 + Len(w) <= Len(t)
    BY <1>3, <1>7, <2>1
  <2>3. \A j \in 1 .. Len(w) : t[4 + j] = w[j]
    BY <1>9, <2>1
  <2> QED BY <2>2, <2>3 DEF Holds, w
<1>14. Holds(t, line, 6)
  <2>1. 6 \in Nat /\ 6 + Len(line) <= Len(t)
    BY <1>3, <1>7 DEF L
  <2> QED BY <1>10, <2>1 DEF Holds, L
<1>15. Ends(t, 4) /\ Ends(t, 6) /\ Ends(t, L + 7)
  BY <1>3, <1>7, <1>9, <1>11 DEF Ends
<1> QED BY <1>3, <1>4, <1>6, <1>7, <1>12, <1>13, <1>14, <1>15 DEF L

(* It is cut into these four.                                              *)
LEMMA ContentLines ==
    ASSUME NEW line \in Letters
    PROVE  Lines(Content(line)) = << <<"x", Comma, "y">>, <<Blank>>, line, <<>> >>
<1> DEFINE t == Content(line)
           header == <<"x", Comma, "y">>
           blank == <<Blank>>
           n == Len(line)
<1>1. /\ t \in Texts /\ n \in Nat /\ Len(t) = n + 7
      /\ Holds(t, header, 0) /\ Ends(t, 4) /\ Holds(t, blank, 4) /\ Ends(t, 6)
      /\ Holds(t, line, 6) /\ Ends(t, n + 7)
  BY ContentPlaced
<1>2. header \in Letters /\ Len(header) = 3 /\ blank \in Letters /\ Len(blank) = 1
  <2>1. "x" \in Character /\ "y" \in Character /\ Comma \in Character /\ Blank \in Character
    <3>1. "x" # NewLine /\ "y" # NewLine
      BY Zenon DEF NewLine
    <3> QED BY <3>1, Signs DEF Character
  <2> QED BY <2>1 DEF Letters
<1>3. Len(t) \in Nat
  BY <1>1
<1> HIDE DEF t, header, blank
<1>4. PICK r : /\ r[0] = Whole(<<>>, <<>>)
               /\ \A i \in 1 .. Len(t) : r[i] = Breaking(r[i - 1], t[i])
               /\ Lines(t) = Append(r[Len(t)].lines, r[Len(t)].line)
  BY <1>3, LineSteps
<1>5. Broken(t, r)
  BY <1>1, <1>4 DEF Broken
<1>6. At(r, 0, <<>>, <<>>)
  BY <1>4 DEF At
<1>7. At(r, 3, <<>>, header)
  <2>1. At(r, AfterLine(0, header), <<>>, header)
    BY <1>1, <1>2, <1>5, <1>6, LineGrows
  <2>2. AfterLine(0, header) = 3
    BY <1>2 DEF AfterLine
  <2> QED BY <2>1, <2>2
<1>8. At(r, 4, <<header>>, <<>>)
  <2>1. At(r, 4 - 1, <<>>, header)
    BY <1>7
  <2>2. At(r, 4, Append(<<>>, header), <<>>)
    BY <1>1, <1>5, <2>1, LineEnds
  <2> QED BY <2>2
<1>9. At(r, 5, <<header>>, blank)
  <2>1. At(r, AfterLine(4, blank), <<header>>, blank)
    BY <1>1, <1>2, <1>5, <1>8, LineGrows
  <2>2. AfterLine(4, blank) = 5
    BY <1>2 DEF AfterLine
  <2> QED BY <2>1, <2>2
<1>10. At(r, 6, <<header, blank>>, <<>>)
  <2>1. At(r, 6 - 1, <<header>>, blank)
    BY <1>9
  <2>2. At(r, 6, Append(<<header>>, blank), <<>>)
    BY <1>1, <1>5, <2>1, LineEnds
  <2> QED BY <2>2, Pair
<1>11. At(r, (n + 7) - 1, <<header, blank>>, line)
  <2>1. At(r, AfterLine(6, line), <<header, blank>>, line)
    BY <1>1, <1>5, <1>10, LineGrows
  <2>2. AfterLine(6, line) = (n + 7) - 1
    BY <1>1 DEF AfterLine
  <2> QED BY <2>1, <2>2
<1>12. At(r, n + 7, <<header, blank, line>>, <<>>)
  <2>1. At(r, n + 7, Append(<<header, blank>>, line), <<>>)
    BY <1>1, <1>5, <1>11, LineEnds
  <2> QED BY <2>1, Triple
<1>13. r[Len(t)] = Whole(<<header, blank, line>>, <<>>)
  BY <1>1, <1>12 DEF At
<1>14. Lines(t) = Append(<<header, blank, line>>, <<>>)
  BY <1>4, <1>13 DEF Whole
<1>15. Lines(t) = <<header, blank, line, <<>> >>
  BY <1>14, Quadruple
<1> QED BY <1>15 DEF t, header, blank

(* The record that is read from the file has the cells as they were.       *)
LEMMA ContentReadBack ==
    ASSUME NEW c \in Letters, Trimmed(c), NEW d \in Letters, Trimmed(d), NEW sparing \in BOOLEAN
    PROVE  ParseCsv(Content(Line(c, d, sparing))) =
             << [number |-> 2, values |-> [h \in {<<"x">>, <<"y">>} |-> IF h = <<"x">> THEN c ELSE d]] >>
<1> DEFINE x == <<"x">>
           y == <<"y">>
           header == <<"x", Comma, "y">>
           line == Line(c, d, sparing)
           content == Content(line)
           kept == <<header, line>>
           headers == <<x, y>>
           cells == <<c, d>>
           column(h) == Max({j \in DOMAIN headers : headers[j] = h})
<1>1. ParseLine(header) = headers /\ ParseLine(line) = cells
  BY HeaderLine, LineReads
<1>2. Kept(Lines(content)) = kept
  <2>1. header \in Letters /\ header # <<>> /\ Trim(header) = header
    <3>1. header = Line(x, y, TRUE)
      BY HeaderLine
    <3> HIDE DEF header
    <3> QED BY <3>1, HeaderLine, LineTrimmed
  <2>2. line \in Letters /\ line # <<>> /\ Trim(line) = line
    BY LineTrimmed
  <2>3. Lines(content) = << header, <<Blank>>, line, <<>> >>
    <3> HIDE DEF line
    <3> QED BY <2>2, ContentLines
  <2> HIDE DEF header, line, content
  <2> QED BY <2>1, <2>2, <2>3, KeptBetween
<1>3. x # y
  OBVIOUS
<1>4. kept # <<>> /\ Head(kept) = header /\ kept[2] = line /\ Len(kept) - 1 = 1
  OBVIOUS
<1> HIDE DEF x, y, header, line, content, kept
<1>5. ParseCsv(content) =
        [i \in 1 .. 1 |->
          [number |-> i + 1,
           values |-> [h \in ToSet(headers) |->
              IF column(h) \in DOMAIN ParseLine(kept[i + 1]) THEN ParseLine(kept[i + 1])[column(h)] ELSE <<>>]]]
  BY <1>1, <1>2, <1>4 DEF ParseCsv
<1>6. ToSet(headers) = {x, y} /\ DOMAIN headers = {1, 2} /\ headers[1] = x /\ headers[2] = y
  BY DEF ToSet
<1>7. DOMAIN cells = {1, 2} /\ cells[1] = c /\ cells[2] = d
  OBVIOUS
<1> HIDE DEF headers, cells
<1>8. column(x) = 1 /\ column(y) = 2
  <2>1. {j \in DOMAIN headers : headers[j] = x} = {1} /\ {j \in DOMAIN headers : headers[j] = y} = {2}
    BY <1>3, <1>6
  <2>2. Max({1}) = 1 /\ Max({2}) = 2
    BY DEF Max
  <2> QED BY <2>1, <2>2
<1> HIDE DEF column
<1> DEFINE values == [h \in {x, y} |-> IF h = x THEN c ELSE d]
<1>9. [h \in {x, y} |-> IF column(h) \in DOMAIN cells THEN cells[column(h)] ELSE <<>>] = values
  BY <1>3, <1>7, <1>8
<1>10. ParseCsv(content) = [i \in 1 .. 1 |-> [number |-> 2, values |-> values]]
  <2>1. \A i \in 1 .. 1 : i + 1 = 2 /\ ParseLine(kept[i + 1]) = cells
    BY <1>1, <1>4
  <2> HIDE DEF values
  <2> QED BY <1>5, <1>6, <1>9, <2>1
<1>11. [i \in 1 .. 1 |-> [number |-> 2, values |-> values]] = << [number |-> 2, values |-> values] >>
  <2> HIDE DEF values
  <2> QED OBVIOUS
<1> QED BY <1>10, <1>11 DEF content, header, line, x, y

(* The cells without a line break are trimmed texts of one line.           *)
LEMMA CellsAreLetters ==
    ASSUME NEW c \in Cells, NewLine \notin ToSet(c)
    PROVE  c \in Letters /\ Trimmed(c)
<1>1. c \in Seq(STRING) /\ Trimmed(c)
  BY CellsAssumption
<1>2. \A i \in 1 .. Len(c) : c[i] \in Character
  <2>1. DOMAIN c = 1 .. Len(c) /\ \A i \in 1 .. Len(c) : c[i] \in STRING
    BY <1>1, ElementOfSeq, LenProperties
  <2>2. \A i \in 1 .. Len(c) : c[i] # NewLine
    BY <2>1 DEF ToSet
  <2> QED BY <2>1, <2>2 DEF Character
<1>3. c \in Letters
  BY <1>1, <1>2, LenProperties, IsASeq DEF Letters
<1> QED BY <1>1, <1>3

(* A date is not what stands for none.                                     *)
LEMMA DatesAreGiven ==
    ASSUME NEW d \in Dates
    PROVE  d # Null
  BY NullAssumption

(* From 1951 to 2050 a year is known by its last two digits.               *)
LEMMA DaysReadBack ==
    \A year \in 1951 .. 2050 : Date(FirstOfFebruary("short", year % 100)) = Date(FirstOfFebruary("iso", year))
<1> SUFFICES ASSUME NEW year \in 1951 .. 2050
             PROVE  Date(FirstOfFebruary("short", year % 100)) = Date(FirstOfFebruary("iso", year))
  OBVIOUS
<1> DEFINE n == year % 100
           short == [form |-> "short", year |-> n, month |-> 2, day |-> 1]
           iso == [form |-> "iso", year |-> year, month |-> 2, day |-> 1]
<1>1. n \in 0 .. 2050 /\ year \in 0 .. 2050 /\ (IF n <= 50 THEN 2000 ELSE 1900) + n = year
  OBVIOUS
<1> HIDE DEF n
<1>2. short # Null /\ iso # Null
  <2>1. short \in Dates /\ iso \in Dates
    BY <1>1 DEF Dates
  <2> HIDE DEF short, iso
  <2> QED BY <2>1, DatesAreGiven
<1>3. FirstOfFebruary("short", n).date = short /\ FirstOfFebruary("iso", year).date = iso
  BY DEF FirstOfFebruary, Empty
<1>4. Date(FirstOfFebruary("short", n)) = <<year, 2, 1>>
  BY <1>1, <1>2, <1>3 DEF Date
<1>5. Date(FirstOfFebruary("iso", year)) = <<year, 2, 1>>
  BY <1>1, <1>2, <1>3 DEF Date
<1> QED BY <1>4, <1>5 DEF n

(* What is being read of a file, and that it is read back.                 *)
Uploaded ==
    /\ file.kind = "line" => \E c, d \in Cells : file.cells = <<c, d>> /\ file.sparing \in BOOLEAN
    /\ file.kind = "day" => file.year \in 1951 .. 2050

LEMMA UploadedReadBack == Uploaded => CellsReadBack
<1> SUFFICES ASSUME Uploaded PROVE CellsReadBack
  OBVIOUS
<1>1. ASSUME file.kind = "line", \A i \in 1 .. 2 : NewLine \notin ToSet(file.cells[i])
      PROVE  LET cell(i) == Written(file.cells[i], file.sparing)
                 content == <<"x", Comma, "y", NewLine, Blank, NewLine>>
                            \o (cell(1) \o <<Comma>> \o cell(2)) \o <<NewLine>>
             IN ParseCsv(content) =
                  << [number |-> 2,
                      values |-> [h \in {<<"x">>, <<"y">>} |-> file.cells[IF h = <<"x">> THEN 1 ELSE 2]]] >>
  <2>1. PICK c, d \in Cells : file.cells = <<c, d>> /\ file.sparing \in BOOLEAN
    BY <1>1 DEF Uploaded
  <2>2. file.cells[1] = c /\ file.cells[2] = d
    BY <2>1
  <2> DEFINE sparing == file.sparing
  <2>3. c \in Letters /\ Trimmed(c) /\ d \in Letters /\ Trimmed(d) /\ sparing \in BOOLEAN
    <3>1. NewLine \notin ToSet(c) /\ NewLine \notin ToSet(d)
      BY <1>1, <2>2
    <3> QED BY <2>1, <3>1, CellsAreLetters
  <2> HIDE DEF sparing
  <2>4. ParseCsv(Content(Line(c, d, sparing))) =
          << [number |-> 2, values |-> [h \in {<<"x">>, <<"y">>} |-> IF h = <<"x">> THEN c ELSE d]] >>
    BY <2>3, ContentReadBack
  <2>5. [h \in {<<"x">>, <<"y">>} |-> IF h = <<"x">> THEN c ELSE d]
          = [h \in {<<"x">>, <<"y">>} |-> file.cells[IF h = <<"x">> THEN 1 ELSE 2]]
    BY <2>2
  <2>6. Line(c, d, sparing) = Written(file.cells[1], file.sparing) \o <<Comma>> \o Written(file.cells[2], file.sparing)
    BY <2>2 DEF Line, sparing
  <2> QED BY <2>4, <2>5, <2>6 DEF Content, Before
<1>2. ASSUME file.kind = "day"
      PROVE  Date(FirstOfFebruary("short", file.year % 100)) = Date(FirstOfFebruary("iso", file.year))
  <2>1. file.year \in 1951 .. 2050
    BY <1>2 DEF Uploaded
  <2> QED BY <2>1, DaysReadBack
<1> QED BY <1>1, <1>2 DEF CellsReadBack

(* Any two cells without a line break, whatever quotes, commas and blanks  *)
(* they hold, are read back from the text of a file as they were written;  *)
(* and a year of two digits is the one that is meant.                      *)
THEOREM EveryCellReadsBack == Spec => []CellsReadBack
<1>1. Init => Uploaded
  BY DEF Init, Nothing, Uploaded
<1>2. Uploaded /\ [Next]_vars => Uploaded'
  <2>1. Uploaded /\ UNCHANGED file => Uploaded'
    BY DEF Uploaded
  <2>2. Upload => Uploaded'
    BY DEF Upload, Uploaded
  <2>3. Finish => Uploaded'
    BY DEF Finish, Nothing, Uploaded
  <2> QED BY <2>1, <2>2, <2>3 DEF Next, vars
<1>3. Uploaded => CellsReadBack
  BY UploadedReadBack
<1> QED BY <1>1, <1>2, <1>3, PTL DEF Spec

-----------------------------------------------------------------------------
(* Tenors. *)

(* A tenor is in a band just when it is classed as the band is.            *)
LEMMA BandsTellClasses ==
    ASSUME NEW days \in Nat, NEW b \in TenorBands
    PROVE  days \in b.from .. b.to <=> Classify(days) = b.code
<1>1. Classify(days) = "short_term" <=> days \in 30 .. 120
  BY DEF Classify
<1>2. Classify(days) = "mid_short_term" <=> days \in 150 .. 210
  BY DEF Classify
<1>3. Classify(days) = "medium_term" <=> days \in 240 .. 360
  BY DEF Classify
<1>4. Classify(days) = "long_term" <=> days \in 390 .. 480
  BY DEF Classify
<1> QED BY <1>1, <1>2, <1>3, <1>4 DEF TenorBands

(* Whatever tenors records have, the classes of the code are the bands     *)
(* that the settings' table is seeded with.                                *)
THEOREM TenorsFollowBands == Spec => []TenorFollowsBands
<1> DEFINE Timed == \A r \in records : r.days \in Nat
<1>1. Init => Timed
  BY DEF Init
<1>2. Timed /\ [Next]_vars => Timed'
  <2> SUFFICES ASSUME Timed, [Next]_vars PROVE Timed'
    OBVIOUS
  <2>1. CASE Post
    <3>1. PICK i \in Ids, k \in Kinds :
            records' = records \cup {[x \in DOMAIN k \cup {"id"} |-> IF x = "id" THEN i ELSE k[x]]}
      BY <2>1 DEF Post
    <3>2. "days" \in DOMAIN k /\ k.days \in Nat
      BY FiguresAssumption
    <3> QED BY <3>1, <3>2
  <2>2. CASE DeleteRecord \/ DeleteCustomer
    BY <2>2 DEF DeleteRecord, DeleteCustomer
  <2>3. CASE UNCHANGED records
    BY <2>3
  <2> QED BY <2>1, <2>2, <2>3 DEF Next, Open, Query, Turn, Close, vars
<1>3. Timed => TenorFollowsBands
  BY BandsTellClasses DEF TenorFollowsBands
<1> QED BY <1>1, <1>2, <1>3, PTL DEF Spec

-----------------------------------------------------------------------------
(* Sums of naturals over finite sets.  A sum is counted, unit by unit, so  *)
(* that what finite sets have in common is all that is needed about it.    *)

(* A function with a finite domain takes finitely many values.             *)
LEMMA ImageFinite ==
    ASSUME NEW f, IsFiniteSet(DOMAIN f)
    PROVE  IsFiniteSet({f[x] : x \in DOMAIN f})
<1> DEFINE T == {f[x] : x \in DOMAIN f}
           g == [x \in DOMAIN f |-> f[x]]
<1>1. g \in Surjection(DOMAIN f, T)
  BY DEF Surjection
<1> QED BY <1>1, FS_Surjection

(* A sum of naturals counts its units. *)
Units(f) == UNION {{x} \X (1 .. f[x]) : x \in DOMAIN f}

(* The units one value contributes.                                        *)
LEMMA UnitsOf ==
    ASSUME NEW f, NEW x, f[x] \in Nat
    PROVE  IsFiniteSet({x} \X (1 .. f[x])) /\ Cardinality({x} \X (1 .. f[x])) = f[x]
<1>1. IsFiniteSet({x}) /\ Cardinality({x}) = 1
  BY FS_Singleton
<1>2. IsFiniteSet(1 .. f[x]) /\ Cardinality(1 .. f[x]) = f[x]
  BY FS_Interval
<1>3. /\ IsFiniteSet({x} \X (1 .. f[x]))
      /\ Cardinality({x} \X (1 .. f[x])) = Cardinality({x}) * Cardinality(1 .. f[x])
  BY <1>1, <1>2, FS_Product
<1> QED BY <1>1, <1>2, <1>3

LEMMA UnitsFinite ==
    ASSUME NEW f, IsFiniteSet(DOMAIN f), \A x \in DOMAIN f : f[x] \in Nat
    PROVE  IsFiniteSet(Units(f))
<1> DEFINE g == [x \in DOMAIN f |-> {x} \X (1 .. f[x])]
<1>1. \A x \in DOMAIN f : IsFiniteSet({x} \X (1 .. f[x]))
  BY UnitsOf
<1>2. IsFiniteSet({g[x] : x \in DOMAIN g})
  BY ImageFinite
<1>3. {g[x] : x \in DOMAIN g} = {{x} \X (1 .. f[x]) : x \in DOMAIN f}
  OBVIOUS
<1> QED BY <1>1, <1>2, <1>3, FS_UNION DEF Units

(* The recursion over a finite set that SumFunction is reaches the number  *)
(* of units: a subset where it did not would have a least one, which has   *)
(* an element to take out.                                                 *)
LEMMA SumCounts ==
    ASSUME NEW f, IsFiniteSet(DOMAIN f), \A x \in DOMAIN f : f[x] \in Nat
    PROVE  SumFunction(f) = Cardinality(Units(f))
<1> DEFINE S == DOMAIN f
           iter[s \in SUBSET S] == IF s = {} THEN 0 ELSE LET x == CHOOSE x \in s : TRUE IN f[x] + iter[s \ {x}]
<1>1. SumFunction(f) = iter[S]
  BY DEF SumFunction, SumFunctionOnSet, FoldFunctionOnSet, MapThenFoldSet
<1> DEFINE part(s) == UNION {{x} \X (1 .. f[x]) : x \in s}
           g == [s \in SUBSET S |-> Cardinality(part(s))]
           pick(s) == CHOOSE x \in s : TRUE
           step(h) == [s \in SUBSET S |-> IF s = {} THEN 0 ELSE f[pick(s)] + h[s \ {pick(s)}]]
<1>2. iter = CHOOSE h : h = step(h)
  OBVIOUS
<1>3. \A s \in SUBSET S : IsFiniteSet(part(s))
  <2> SUFFICES ASSUME NEW s \in SUBSET S PROVE IsFiniteSet(part(s))
    OBVIOUS
  <2>1. part(s) \subseteq Units(f) /\ IsFiniteSet(Units(f))
    BY UnitsFinite DEF Units
  <2> QED BY <2>1, FS_Subset
<1>4. \A s \in SUBSET S : \A x \in s : g[s] = f[x] + g[s \ {x}]
  <2> SUFFICES ASSUME NEW s \in SUBSET S, NEW x \in s PROVE g[s] = f[x] + g[s \ {x}]
    OBVIOUS
  <2> DEFINE own == {x} \X (1 .. f[x])
             rest == part(s \ {x})
  <2>1. f[x] \in Nat /\ IsFiniteSet(own) /\ Cardinality(own) = f[x]
    BY UnitsOf
  <2>2. part(s) = own \cup rest /\ own \cap rest = {}
    OBVIOUS
  <2>3. IsFiniteSet(rest) /\ s \ {x} \in SUBSET S
    BY <1>3
  <2> HIDE DEF own, rest
  <2>4. Cardinality(own \cup rest) = Cardinality(own) + Cardinality(rest) - Cardinality({})
    BY <2>1, <2>2, <2>3, FS_Union
  <2>5. Cardinality(rest) \in Nat /\ Cardinality({}) = 0
    BY <2>3, FS_CardinalityType, FS_EmptySet
  <2>6. Cardinality(own \cup rest) = f[x] + Cardinality(rest)
    BY <2>1, <2>4, <2>5
  <2> QED BY <2>2, <2>3, <2>6 DEF rest
<1>5. g = step(g)
  <2>1. g[{}] = 0
    <3>1. part({}) = {}
      OBVIOUS
    <3> QED BY <3>1, FS_EmptySet
  <2>2. ASSUME NEW s \in SUBSET S, s # {}
        PROVE  g[s] = f[pick(s)] + g[s \ {pick(s)}]
    <3>1. pick(s) \in s
      BY <2>2
    <3> HIDE DEF pick, g
    <3> QED BY <3>1, <1>4
  <2> HIDE DEF part, pick
  <2>3. DOMAIN step(g) = SUBSET S /\ DOMAIN g = SUBSET S
    OBVIOUS
  <2>4. \A s \in SUBSET S : g[s] = step(g)[s]
    <3> HIDE DEF g
    <3> QED BY <2>1, <2>2
  <2>5. step(g) = [s \in SUBSET S |-> step(g)[s]] /\ g = [s \in SUBSET S |-> g[s]]
    OBVIOUS
  <2> HIDE DEF g, step
  <2> QED BY <2>4, <2>5
<1>6. iter = step(iter)
  <2> HIDE DEF g
  <2> QED BY <1>2, <1>5
<1>7. \A s \in SUBSET S : iter[s] = g[s]
  <2> DEFINE bad == {s \in SUBSET S : iter[s] # g[s]}
  <2> SUFFICES ASSUME bad # {} PROVE FALSE
    OBVIOUS
  <2>1. IsWellFoundedOn(StrictSubsetOrdering(S), SUBSET S)
    BY FS_StrictSubsetOrderingWellFounded, FS_FiniteSubsetsOfFinite
  <2>2. PICK s \in bad : \A t \in bad : <<t, s>> \notin StrictSubsetOrdering(S)
    BY <2>1, WFMin
  <2>3. s # {}
    <3>1. iter[{}] = 0 /\ g[{}] = 0
      <4> HIDE DEF g, iter, part
      <4> QED BY <1>5, <1>6
    <3> QED BY <3>1
  <2> DEFINE x == pick(s)
  <2>4. x \in s /\ s \ {x} \in SUBSET S /\ <<s \ {x}, s>> \in StrictSubsetOrdering(S)
    BY <2>3 DEF StrictSubsetOrdering
  <2>5. s \ {x} \notin bad
    BY <2>2, <2>4
  <2>6. iter[s \ {x}] = g[s \ {x}]
    <3> HIDE DEF g, iter
    <3> QED BY <2>4, <2>5
  <2>7. iter[s] = f[x] + iter[s \ {x}] /\ g[s] = f[x] + g[s \ {x}]
    <3> HIDE DEF g, iter, pick, bad
    <3>1. s \in SUBSET S
      BY DEF bad
    <3> QED BY <1>5, <1>6, <2>3, <3>1
  <2>8. iter[s] = g[s]
    <3> HIDE DEF g, iter, pick, bad
    <3> QED BY <2>6, <2>7
  <2> HIDE DEF g, iter
  <2> QED BY <2>8
<1>8. g[S] = Cardinality(Units(f))
  BY DEF Units
<1> HIDE DEF g, iter
<1> QED BY <1>1, <1>7, <1>8

(* Parts of a set that are disjoint count as many as they hold together. *)
LEMMA PartsCount ==
    ASSUME NEW part, IsFiniteSet(DOMAIN part), \A w \in DOMAIN part : IsFiniteSet(part[w]),
           \A v, w \in DOMAIN part : v # w => part[v] \cap part[w] = {}
    PROVE  LET all == UNION {part[w] : w \in DOMAIN part}
           IN  /\ IsFiniteSet(all)
               /\ SumFunction([w \in DOMAIN part |-> Cardinality(part[w])]) = Cardinality(all)
<1> DEFINE all == UNION {part[w] : w \in DOMAIN part}
           f == [w \in DOMAIN part |-> Cardinality(part[w])]
           b == [w \in DOMAIN part |-> CHOOSE m : m \in Bijection(1 .. f[w], part[w])]
           g == [u \in Units(f) |-> b[u[1]][u[2]]]
<1>1. \A w \in DOMAIN part : f[w] \in Nat /\ b[w] \in Bijection(1 .. f[w], part[w])
  <2> SUFFICES ASSUME NEW w \in DOMAIN part
               PROVE  f[w] \in Nat /\ b[w] \in Bijection(1 .. f[w], part[w])
    OBVIOUS
  <2>1. f[w] \in Nat /\ Bijection(1 .. f[w], part[w]) # {}
    BY FS_CardinalityType DEF ExistsBijection
  <2> QED BY <2>1
<1>2. SumFunction(f) = Cardinality(Units(f)) /\ IsFiniteSet(Units(f))
  BY <1>1, SumCounts, UnitsFinite
<1> HIDE DEF f, b
<1>3. DOMAIN f = DOMAIN part /\ DOMAIN b = DOMAIN part
  BY DEF f, b
<1>4. \A u \in Units(f) : u = <<u[1], u[2]>> /\ u[1] \in DOMAIN part /\ u[2] \in 1 .. f[u[1]]
  BY <1>3 DEF Units
<1>5. \A w \in DOMAIN part : \A i \in 1 .. f[w] : <<w, i>> \in Units(f)
  BY <1>3 DEF Units
<1>6. g \in [Units(f) -> all]
  BY <1>1, <1>4 DEF Bijection, Injection
<1>7. \A u, v \in Units(f) : g[u] = g[v] => u = v
  <2> SUFFICES ASSUME NEW u \in Units(f), NEW v \in Units(f), g[u] = g[v]
               PROVE  u = v
    OBVIOUS
  <2>1. b[u[1]][u[2]] = b[v[1]][v[2]] /\ b[u[1]][u[2]] \in part[u[1]] /\ b[v[1]][v[2]] \in part[v[1]]
    BY <1>1, <1>4 DEF Bijection, Injection
  <2>2. u[1] = v[1]
    BY <2>1, <1>4
  <2>3. u[2] = v[2]
    BY <2>1, <2>2, <1>1, <1>4 DEF Bijection, Injection, IsInjective
  <2> QED BY <2>2, <2>3, <1>4
<1>8. \A x \in all : \E u \in Units(f) : g[u] = x
  <2> SUFFICES ASSUME NEW w \in DOMAIN part, NEW x \in part[w]
               PROVE  \E u \in Units(f) : g[u] = x
    OBVIOUS
  <2>1. PICK i \in 1 .. f[w] : b[w][i] = x
    BY <1>1 DEF Bijection, Surjection
  <2>2. <<w, i>> \in Units(f) /\ g[<<w, i>>] = x
    BY <1>5, <2>1
  <2> QED BY <2>2
<1> HIDE DEF g, all
<1>9. g \in Bijection(Units(f), all)
  BY <1>6, <1>7, <1>8 DEF Bijection, Injection, Surjection, IsInjective
<1>10. IsFiniteSet(all) /\ Cardinality(all) = Cardinality(Units(f))
  BY <1>2, <1>9, FS_Bijection DEF ExistsBijection
<1> QED BY <1>2, <1>10 DEF f, all

(* A sum over disjoint parts is the sum of the sums over the parts. *)
LEMMA PartsSum ==
    ASSUME NEW f, IsFiniteSet(DOMAIN f), \A x \in DOMAIN f : f[x] \in Nat,
           NEW part, IsFiniteSet(DOMAIN part), \A w \in DOMAIN part : part[w] \subseteq DOMAIN f,
           \A v, w \in DOMAIN part : v # w => part[v] \cap part[w] = {}
    PROVE  SumFunction([w \in DOMAIN part |-> SumFunction([x \in part[w] |-> f[x]])])
             = SumFunction([x \in UNION {part[w] : w \in DOMAIN part} |-> f[x]])
<1> DEFINE over(R) == [x \in R |-> f[x]]
           all == UNION {part[w] : w \in DOMAIN part}
           units == [w \in DOMAIN part |-> Units(over(part[w]))]
<1>1. \A R \in SUBSET DOMAIN f : /\ IsFiniteSet(Units(over(R)))
                                 /\ SumFunction(over(R)) = Cardinality(Units(over(R)))
  <2> SUFFICES ASSUME NEW R \in SUBSET DOMAIN f
               PROVE  /\ IsFiniteSet(Units(over(R)))
                      /\ SumFunction(over(R)) = Cardinality(Units(over(R)))
    OBVIOUS
  <2>1. IsFiniteSet(R) /\ DOMAIN over(R) = R /\ \A x \in R : over(R)[x] \in Nat
    BY FS_Subset
  <2> HIDE DEF over
  <2> QED BY <2>1, SumCounts, UnitsFinite
<1>2. \A R : Units(over(R)) = UNION {{x} \X (1 .. f[x]) : x \in R}
  BY DEF Units
<1>3. UNION {units[w] : w \in DOMAIN units} = Units(over(all))
  <2> DEFINE own(x) == {x} \X (1 .. f[x])
  <2>1. \A w \in DOMAIN part : units[w] = UNION {own(x) : x \in part[w]}
    BY <1>2
  <2>2. Units(over(all)) = UNION {own(x) : x \in all}
    BY <1>2
  <2> HIDE DEF own
  <2>3. UNION {units[w] : w \in DOMAIN part} = UNION {own(x) : x \in all}
    <3> HIDE DEF units
    <3> QED BY <2>1
  <2> QED BY <2>2, <2>3
<1>4. \A v, w \in DOMAIN units : v # w => units[v] \cap units[w] = {}
  BY <1>2
<1>5. IsFiniteSet(DOMAIN units) /\ \A w \in DOMAIN units : IsFiniteSet(units[w])
  BY <1>1
<1> HIDE DEF units
<1>6. SumFunction([w \in DOMAIN units |-> Cardinality(units[w])]) = Cardinality(Units(over(all)))
  BY <1>3, <1>4, <1>5, PartsCount
<1>7. [w \in DOMAIN units |-> Cardinality(units[w])] = [w \in DOMAIN part |-> SumFunction(over(part[w]))]
  BY <1>1 DEF units
<1>8. Cardinality(Units(over(all))) = SumFunction(over(all))
  BY <1>1
<1> QED BY <1>6, <1>7, <1>8

-----------------------------------------------------------------------------
(* Every view tells of all records.                                        *)

(* What the views rely on: finitely many records, of natural amounts, days  *)
(* and tenors, with a type, a fund and a category, and no two with one id.  *)
Recorded(R) ==
    /\ IsFiniteSet(R)
    /\ \A r \in R : /\ r.id \in Nat /\ r.amount \in Nat /\ r.day \in Nat /\ r.days \in Nat
                    /\ r.type \in Types /\ r.fund \in Funds /\ r.category \in Categories
                    /\ r.commission \in Nat \cup {Null}
    /\ \A r, s \in R : r.id = s.id => r = s

LEMMA RecordedPart ==
    ASSUME NEW R, Recorded(R), NEW S \in SUBSET R
    PROVE  Recorded(S)
  BY FS_Subset DEF Recorded

(* The value of records counts their units too.                            *)
LEMMA WorthCounts ==
    ASSUME NEW R, Recorded(R)
    PROVE  /\ IsFiniteSet(Units([r \in R |-> r.amount]))
           /\ Worth(R) = Cardinality(Units([r \in R |-> r.amount])) /\ Worth(R) \in Nat
<1> DEFINE f == [r \in R |-> r.amount]
<1>1. IsFiniteSet(DOMAIN f) /\ \A r \in DOMAIN f : f[r] \in Nat
  BY DEF Recorded
<1>2. Worth(R) = SumFunction(f)
  BY DEF Worth, Total
<1> HIDE DEF f
<1>3. Worth(R) = Cardinality(Units(f)) /\ IsFiniteSet(Units(f))
  BY <1>1, <1>2, SumCounts, UnitsFinite
<1> QED BY <1>3, FS_CardinalityType DEF f

(* A part of the records is worth no more than all, and the rest makes up  *)
(* for the difference.                                                     *)
LEMMA WorthOfPart ==
    ASSUME NEW R, Recorded(R), NEW S \in SUBSET R
    PROVE  /\ Worth(S) \in Nat /\ Worth(S) <= Worth(R)
           /\ Worth(R) = Worth(S) + Worth(R \ S)
<1> DEFINE units(T) == Units([r \in T |-> r.amount])
<1>1. Recorded(S) /\ Recorded(R \ S)
  BY RecordedPart
<1>2. units(R) = units(S) \cup units(R \ S) /\ units(S) \cap units(R \ S) = {}
  BY DEF Units
<1>3. \A T \in {S, R, R \ S} : IsFiniteSet(units(T)) /\ Worth(T) = Cardinality(units(T)) /\ Worth(T) \in Nat
  BY <1>1, WorthCounts
<1> HIDE DEF units
<1>4. Cardinality(units(S) \cup units(R \ S))
        = Cardinality(units(S)) + Cardinality(units(R \ S)) - Cardinality({})
  BY <1>2, <1>3, FS_Union
<1>5. Cardinality({}) = 0
  BY FS_EmptySet
<1>6. Cardinality(units(R)) = Cardinality(units(S)) + Cardinality(units(R \ S))
  <2> HIDE DEF units
  <2>1. Cardinality(units(S)) \in Nat /\ Cardinality(units(R \ S)) \in Nat
    BY <1>3
  <2> QED BY <1>2, <1>4, <1>5, <2>1
<1>7. Worth(R) = Worth(S) + Worth(R \ S)
  BY <1>3, <1>6
<1> QED BY <1>3, <1>7

(* Parts of the records that are disjoint are worth, and count, what they   *)
(* do together.                                                             *)
LEMMA WorthOfParts ==
    ASSUME NEW R, Recorded(R), NEW part, IsFiniteSet(DOMAIN part),
           \A w \in DOMAIN part : part[w] \subseteq R,
           \A v, w \in DOMAIN part : v # w => part[v] \cap part[w] = {}
    PROVE  LET all == UNION {part[w] : w \in DOMAIN part}
           IN  /\ SumFunction([w \in DOMAIN part |-> Worth(part[w])]) = Worth(all)
               /\ SumFunction([w \in DOMAIN part |-> Cardinality(part[w])]) = Cardinality(all)
<1> DEFINE f == [r \in R |-> r.amount]
           all == UNION {part[w] : w \in DOMAIN part}
<1>1. IsFiniteSet(DOMAIN f) /\ DOMAIN f = R /\ \A r \in DOMAIN f : f[r] \in Nat
  BY DEF Recorded
<1>2. \A S \in SUBSET R : Worth(S) = SumFunction([r \in S |-> f[r]])
  <2> SUFFICES ASSUME NEW S \in SUBSET R PROVE Worth(S) = SumFunction([r \in S |-> f[r]])
    OBVIOUS
  <2>1. [r \in S |-> f[r]] = [r \in S |-> r.amount]
    OBVIOUS
  <2> QED BY <2>1 DEF Worth, Total
<1>3. all \subseteq R /\ \A w \in DOMAIN part : IsFiniteSet(part[w])
  BY FS_Subset DEF Recorded
<1> HIDE DEF f
<1>4. SumFunction([w \in DOMAIN part |-> SumFunction([r \in part[w] |-> f[r]])]) = SumFunction([r \in all |-> f[r]])
  BY <1>1, PartsSum
<1>5. [w \in DOMAIN part |-> SumFunction([r \in part[w] |-> f[r]])] = [w \in DOMAIN part |-> Worth(part[w])]
  BY <1>2
<1>6. SumFunction([w \in DOMAIN part |-> Cardinality(part[w])]) = Cardinality(all)
  BY <1>3, PartsCount
<1> QED BY <1>2, <1>3, <1>4, <1>5, <1>6

(* A table with a row for each value of a key tells of all records, when    *)
(* each row tells of those with its key.                                    *)
LEMMA TableTellsAll ==
    ASSUME NEW R, Recorded(R), NEW key, DOMAIN key = R, NEW rows, IsFiniteSet(rows),
           NEW of, DOMAIN of = rows,
           \A v, w \in rows : of[v] = of[w] => v = w,
           \A r \in R : \E w \in rows : of[w] = key[r]
    PROVE  /\ SumFunction([w \in rows |-> Worth({r \in R : key[r] = of[w]})]) = Worth(R)
           /\ SumFunction([w \in rows |-> Cardinality({r \in R : key[r] = of[w]})]) = Cardinality(R)
<1> DEFINE part == [w \in rows |-> {r \in R : key[r] = of[w]}]
<1>1. /\ DOMAIN part = rows /\ \A w \in DOMAIN part : part[w] \subseteq R
      /\ \A v, w \in DOMAIN part : v # w => part[v] \cap part[w] = {}
  OBVIOUS
<1>2. UNION {part[w] : w \in DOMAIN part} = R
  OBVIOUS
<1>3. /\ [w \in rows |-> Worth({r \in R : key[r] = of[w]})] = [w \in DOMAIN part |-> Worth(part[w])]
      /\ [w \in rows |-> Cardinality({r \in R : key[r] = of[w]})] = [w \in DOMAIN part |-> Cardinality(part[w])]
  OBVIOUS
<1> HIDE DEF part
<1>4. /\ SumFunction([w \in DOMAIN part |-> Worth(part[w])]) = Worth(UNION {part[w] : w \in DOMAIN part})
      /\ SumFunction([w \in DOMAIN part |-> Cardinality(part[w])]) = Cardinality(UNION {part[w] : w \in DOMAIN part})
  BY <1>1, WorthOfParts
<1> QED BY <1>2, <1>3, <1>4

LEMMA FigureTells == \A R : Figure(R).count = Cardinality(R) /\ Figure(R).value = Worth(R)
  BY DEF Figure

InPeriod(R, k, p) == {r \in R : Period(k, r.day) = p}

(* What each point of a series tells, by its period.                       *)
LEMMA PointsShape ==
    ASSUME NEW R, NEW k
    PROVE  LET points == Points(R, k)
           IN  /\ \A p \in points :
                    /\ p.figure = Figure(InPeriod(R, k, p.period))
                    /\ p.new = Worth({r \in InPeriod(R, k, p.period) : r.type = "new"})
                    /\ p.returning = Worth({r \in InPeriod(R, k, p.period) : r.type # "new"})
                    /\ p.inflow = Worth(Inflow(InPeriod(R, k, p.period)))
                    /\ p.rollover = Worth(InPeriod(R, k, p.period) \ Inflow(InPeriod(R, k, p.period)))
                    /\ p.banded = [c \in Categories \ {"unclassified"} |-> Worth(OfCategory(InPeriod(R, k, p.period), c))]
               /\ \A p, q \in points : p.period = q.period => p = q
               /\ \A r \in R : \E p \in points : p.period = Period(k, r.day)
               /\ IsFiniteSet(R) => IsFiniteSet(points)
<1> DEFINE point(p) ==
              [period |-> p, figure |-> Figure(InPeriod(R, k, p)),
               new |-> Worth({r \in InPeriod(R, k, p) : r.type = "new"}),
               returning |-> Worth({r \in InPeriod(R, k, p) : r.type # "new"}),
               inflow |-> Worth(Inflow(InPeriod(R, k, p))), rollover |-> Worth(InPeriod(R, k, p) \ Inflow(InPeriod(R, k, p))),
               banded |-> [c \in Categories \ {"unclassified"} |-> Worth(OfCategory(InPeriod(R, k, p), c))]]
           periods == {Period(k, r.day) : r \in R}
<1>1. Points(R, k) = {point(p) : p \in periods}
  BY DEF Points, InPeriod
<1>2. \A p : /\ point(p).period = p /\ point(p).figure = Figure(InPeriod(R, k, p))
             /\ point(p).new = Worth({r \in InPeriod(R, k, p) : r.type = "new"})
             /\ point(p).returning = Worth({r \in InPeriod(R, k, p) : r.type # "new"})
             /\ point(p).inflow = Worth(Inflow(InPeriod(R, k, p)))
             /\ point(p).rollover = Worth(InPeriod(R, k, p) \ Inflow(InPeriod(R, k, p)))
             /\ point(p).banded = [c \in Categories \ {"unclassified"} |-> Worth(OfCategory(InPeriod(R, k, p), c))]
  OBVIOUS
<1> HIDE DEF point
<1>3. \A w \in Points(R, k) : w.period \in periods /\ w = point(w.period)
  BY <1>1, <1>2
<1>4. \A r \in R : \E p \in Points(R, k) : p.period = Period(k, r.day)
  BY <1>1, <1>2
<1>5. ASSUME IsFiniteSet(R) PROVE IsFiniteSet(Points(R, k))
  <2> DEFINE f == [r \in R |-> point(Period(k, r.day))]
  <2>1. Points(R, k) = {f[r] : r \in DOMAIN f}
    BY <1>1
  <2>2. IsFiniteSet(DOMAIN f)
    BY <1>5
  <2> HIDE DEF f
  <2> QED BY <2>1, <2>2, ImageFinite
<1>6. \A p \in Points(R, k) :
                    /\ p.figure = Figure(InPeriod(R, k, p.period))
                    /\ p.new = Worth({r \in InPeriod(R, k, p.period) : r.type = "new"})
                    /\ p.returning = Worth({r \in InPeriod(R, k, p.period) : r.type # "new"})
                    /\ p.inflow = Worth(Inflow(InPeriod(R, k, p.period)))
                    /\ p.rollover = Worth(InPeriod(R, k, p.period) \ Inflow(InPeriod(R, k, p.period)))
                    /\ p.banded = [c \in Categories \ {"unclassified"} |-> Worth(OfCategory(InPeriod(R, k, p.period), c))]
  <2> SUFFICES ASSUME NEW w \in Points(R, k)
      PROVE  /\ w.figure = Figure(InPeriod(R, k, w.period))
                    /\ w.new = Worth({r \in InPeriod(R, k, w.period) : r.type = "new"})
                    /\ w.returning = Worth({r \in InPeriod(R, k, w.period) : r.type # "new"})
                    /\ w.inflow = Worth(Inflow(InPeriod(R, k, w.period)))
                    /\ w.rollover = Worth(InPeriod(R, k, w.period) \ Inflow(InPeriod(R, k, w.period)))
                    /\ w.banded = [c \in Categories \ {"unclassified"} |-> Worth(OfCategory(InPeriod(R, k, w.period), c))]
    OBVIOUS
  <2> DEFINE p == w.period
  <2>1. w = point(p)
    BY <1>3
  <2> HIDE DEF p
  <2> QED BY <1>2, <2>1 DEF p
<1> QED BY <1>3, <1>4, <1>5, <1>6

(* The points of a series tell of all records.                             *)
LEMMA PointsTellAll ==
    ASSUME NEW R, Recorded(R), NEW k
    PROVE  /\ Total(Points(R, k), LAMBDA p : p.figure.count) = Cardinality(R)
           /\ Total(Points(R, k), LAMBDA p : p.figure.value) = Worth(R)
<1> DEFINE rows == Points(R, k)
           key == [r \in R |-> Period(k, r.day)]
           of == [w \in rows |-> w.period]
<1>1. /\ IsFiniteSet(rows) /\ DOMAIN of = rows /\ DOMAIN key = R
      /\ \A v, w \in rows : of[v] = of[w] => v = w
      /\ \A r \in R : \E w \in rows : of[w] = key[r]
  BY PointsShape DEF Recorded
<1>2. \A w \in rows : w.figure = Figure({r \in R : key[r] = of[w]})
  <2>1. \A w \in rows : {r \in R : key[r] = of[w]} = InPeriod(R, k, w.period)
    BY DEF InPeriod
  <2>2. \A w \in rows : w.figure = Figure(InPeriod(R, k, w.period))
    BY PointsShape
  <2> QED BY <2>1, <2>2
<1> HIDE DEF key, of, rows
<1>3. /\ SumFunction([w \in rows |-> Worth({r \in R : key[r] = of[w]})]) = Worth(R)
      /\ SumFunction([w \in rows |-> Cardinality({r \in R : key[r] = of[w]})]) = Cardinality(R)
  BY <1>1, TableTellsAll
<1>4. /\ [w \in rows |-> w.figure.count] = [w \in rows |-> Cardinality({r \in R : key[r] = of[w]})]
      /\ [w \in rows |-> w.figure.value] = [w \in rows |-> Worth({r \in R : key[r] = of[w]})]
  <2>1. \A w \in rows : /\ w.figure.count = Cardinality({r \in R : key[r] = of[w]})
                         /\ w.figure.value = Worth({r \in R : key[r] = of[w]})
    <3> DEFINE own(w) == {r \in R : key[r] = of[w]}
    <3>1. \A w \in rows : w.figure = Figure(own(w))
      BY <1>2
    <3> HIDE DEF own
    <3>2. \A w \in rows : w.figure.count = Cardinality(own(w)) /\ w.figure.value = Worth(own(w))
      BY <3>1, FigureTells
    <3> QED BY <3>2 DEF own
  <2> QED BY <2>1
<1> QED BY <1>3, <1>4 DEF Total, rows

-----------------------------------------------------------------------------
(* A finite set that is ordered is the range of one sequence without       *)
(* repetitions: what sorting gives.                                        *)

(* A finite set that is ordered has a last element, and a sequence in order. *)
Ordered(R, Q) ==
    /\ \A r \in R : <<r, r>> \notin Q
    /\ \A r, s \in R : r # s => <<r, s>> \in Q \/ <<s, r>> \in Q
    /\ \A r, s, t \in R : <<r, s>> \in Q /\ <<s, t>> \in Q => <<r, t>> \in Q

(* Among the parts of a finite set, those that lack something have a least one. *)
LEMMA LeastPart ==
    ASSUME NEW R, IsFiniteSet(R), NEW bad \in SUBSET SUBSET R, bad # {}
    PROVE  \E T \in bad : \A x \in T : T \ {x} \notin bad
<1>1. IsWellFoundedOn(StrictSubsetOrdering(R), SUBSET R)
  BY FS_StrictSubsetOrderingWellFounded, FS_FiniteSubsetsOfFinite
<1>2. PICK T \in bad : \A U \in bad : <<U, T>> \notin StrictSubsetOrdering(R)
  BY <1>1, WFMin
<1>3. \A x \in T : <<T \ {x}, T>> \in StrictSubsetOrdering(R)
  BY DEF StrictSubsetOrdering
<1> QED BY <1>2, <1>3

(* A finite ordered set has a last element.                                *)
LEMMA LastOfOrder ==
    ASSUME NEW R, IsFiniteSet(R), NEW Q, Ordered(R, Q), NEW S \in SUBSET R, S # {}
    PROVE  \E m \in S : \A s \in S \ {m} : <<s, m>> \in Q
<1> DEFINE bad == {T \in SUBSET R : T # {} /\ ~ \E m \in T : \A s \in T \ {m} : <<s, m>> \in Q}
<1> SUFFICES ASSUME bad # {} PROVE FALSE
  OBVIOUS
<1>1. PICK T \in bad : \A x \in T : T \ {x} \notin bad
  BY LeastPart
<1>2. PICK x \in T : TRUE
  OBVIOUS
<1>3. CASE T \ {x} = {}
  BY <1>2, <1>3
<1>4. CASE T \ {x} # {}
  <2>1. PICK m \in T \ {x} : \A s \in (T \ {x}) \ {m} : <<s, m>> \in Q
    BY <1>1, <1>2, <1>4
  <2>2. T \in SUBSET R /\ m \in R /\ x \in R /\ m # x
    BY <1>2, <2>1
  <2>3. CASE <<x, m>> \in Q
    BY <2>1, <2>2, <2>3
  <2>4. CASE <<m, x>> \in Q
    <3>1. \A s \in T \ {x} : <<s, x>> \in Q
      BY <2>1, <2>2, <2>4 DEF Ordered
    <3> QED BY <1>2, <3>1
  <2> QED BY <2>2, <2>3, <2>4 DEF Ordered
<1> QED BY <1>3, <1>4

InSequence(s, R, Q) ==
    s \in [1 .. Cardinality(R) -> R] /\ \A i, j \in DOMAIN s : i < j => <<s[i], s[j]>> \in Q

(* A finite ordered set can be put in sequence: the least part that could  *)
(* not would have a last element, and the rest a sequence to put it        *)
(* behind.                                                                 *)
LEMMA SequenceExists ==
    ASSUME NEW R, IsFiniteSet(R), NEW Q, Ordered(R, Q)
    PROVE  \E s : InSequence(s, R, Q)
<1> DEFINE bad == {T \in SUBSET R : ~ \E s : InSequence(s, T, Q)}
<1> SUFFICES ASSUME bad # {} PROVE FALSE
  OBVIOUS
<1>1. PICK T \in bad : \A x \in T : T \ {x} \notin bad
  BY LeastPart
<1>2. CASE T = {}
  <2>1. InSequence([i \in {} |-> {}], {}, Q)
    <3>1. Cardinality({}) = 0 /\ 1 .. 0 = {}
      BY FS_EmptySet
    <3> QED BY <3>1 DEF InSequence
  <2> QED BY <1>2, <2>1
<1>3. CASE T # {}
  <2>1. PICK m \in T : \A s \in T \ {m} : <<s, m>> \in Q
    BY <1>3, LastOfOrder
  <2>2. PICK s : InSequence(s, T \ {m}, Q)
    BY <1>1, <2>1
  <2> DEFINE n == Cardinality(T \ {m})
             t == [i \in 1 .. n + 1 |-> IF i = n + 1 THEN m ELSE s[i]]
  <2>3. n \in Nat /\ Cardinality(T) = n + 1
    <3>1. IsFiniteSet(T) /\ IsFiniteSet(T \ {m})
      BY FS_Subset
    <3>2. Cardinality(T) \in Nat /\ n = Cardinality(T) - 1 /\ n \in Nat
      BY <3>1, FS_RemoveElement, FS_CardinalityType
    <3> QED BY <3>2
  <2> HIDE DEF n
  <2>4. s \in [1 .. n -> T \ {m}] /\ \A i, j \in 1 .. n : i < j => <<s[i], s[j]>> \in Q
    BY <2>2 DEF InSequence, n
  <2>5. t \in [1 .. n + 1 -> T]
    BY <2>3, <2>4
  <2>6. ASSUME NEW i \in 1 .. n + 1, NEW j \in 1 .. n + 1, i < j
        PROVE  <<t[i], t[j]>> \in Q
    BY <2>1, <2>3, <2>4, <2>6
  <2> HIDE DEF t
  <2>7. InSequence(t, T, Q)
    BY <2>3, <2>5, <2>6 DEF InSequence
  <2> QED BY <2>7
<1> QED BY <1>2, <1>3

(* What Sorted chooses lists each element once.                            *)
LEMMA SequenceCovers ==
    ASSUME NEW R, IsFiniteSet(R), NEW Q, Ordered(R, Q), NEW s, InSequence(s, R, Q)
    PROVE  /\ Len(s) = Cardinality(R) /\ s \in Seq(R)
           /\ IsInjective(s) /\ ToSet(s) = R
<1>1. Cardinality(R) \in Nat
  BY FS_CardinalityType
<1>2. s \in [1 .. Cardinality(R) -> R] /\ \A i, j \in 1 .. Cardinality(R) : i < j => <<s[i], s[j]>> \in Q
  BY DEF InSequence
<1>3. IsInjective(s)
  <2> SUFFICES ASSUME NEW i \in DOMAIN s, NEW j \in DOMAIN s, s[i] = s[j], i < j \/ j < i
               PROVE  FALSE
    BY <1>1, <1>2 DEF IsInjective
  <2> QED BY <1>1, <1>2 DEF Ordered
<1>4. s \in Injection(1 .. Cardinality(R), R)
  BY <1>2, <1>3 DEF Injection
<1>5. IsFiniteSet(1 .. Cardinality(R)) /\ Cardinality(1 .. Cardinality(R)) = Cardinality(R)
  BY <1>1, FS_Interval
<1>6. s \in Surjection(1 .. Cardinality(R), R)
  BY <1>4, <1>5, FS_Injection
<1>7. ToSet(s) = R
  BY <1>2, <1>6 DEF Surjection, ToSet
<1> QED BY <1>1, <1>2, <1>3, <1>7

(* Among records there is one with the least, and one with the greatest,   *)
(* id.                                                                     *)
LEMMA FirstAndLast ==
    ASSUME NEW R, Recorded(R), R # {}
    PROVE  FirstOf(R) \in R /\ LastOf(R) \in R
<1> DEFINE up == {rs \in R \X R : rs[1].id < rs[2].id}
           down == {rs \in R \X R : rs[1].id > rs[2].id}
<1>1. Ordered(R, up) /\ Ordered(R, down) /\ IsFiniteSet(R)
  BY DEF Ordered, Recorded
<1>2. PICK m \in R : \A s \in R \ {m} : <<s, m>> \in up
  <2> HIDE DEF up
  <2> QED BY <1>1, LastOfOrder
<1>3. PICK k \in R : \A s \in R \ {k} : <<s, k>> \in down
  <2> HIDE DEF down
  <2> QED BY <1>1, LastOfOrder
<1>4. \A s \in R : s.id \in Nat
  BY DEF Recorded
<1>5. \A s \in R : m.id >= s.id
  <2>1. \A s \in R \ {m} : s.id < m.id
    BY <1>2
  <2> QED BY <1>4, <2>1
<1>6. \A s \in R : k.id <= s.id
  <2>1. \A s \in R \ {k} : s.id > k.id
    BY <1>3
  <2> QED BY <1>4, <2>1
<1> QED BY <1>5, <1>6 DEF FirstOf, LastOf

(* The records of a customer, and the rows of the portfolio as a set.      *)
OwnOf(R, c) == {r \in R : r.customer = c}

PortfolioRows(R) == {PortfolioRow(R, c) : c \in Customers(R)}

(* What each row tells, by its customer.                                   *)
LEMMA PortfolioShape ==
    ASSUME NEW R
    PROVE  LET rows == PortfolioRows(R)
           IN  /\ \A w \in rows :
                    /\ w.customer \in Customers(R)
                    /\ w.count = Cardinality(OwnOf(R, w.customer)) /\ w.total = Worth(OwnOf(R, w.customer))
                    /\ w.inflow = Worth(Inflow(OwnOf(R, w.customer)))
                    /\ w.rollover = Worth(OwnOf(R, w.customer) \ Inflow(OwnOf(R, w.customer)))
                    /\ \A t \in Categories : w.exposure[t] = Worth(OfCategory(OwnOf(R, w.customer), t))
               /\ \A v, w \in rows : v.customer = w.customer => v = w
               /\ \A r \in R : \E w \in rows : w.customer = r.customer
               /\ IsFiniteSet(R) => IsFiniteSet(rows)
<1> DEFINE rows == PortfolioRows(R)
<1>1. \A c : /\ PortfolioRow(R, c).customer = c
             /\ PortfolioRow(R, c).count = Cardinality(OwnOf(R, c)) /\ PortfolioRow(R, c).total = Worth(OwnOf(R, c))
             /\ PortfolioRow(R, c).inflow = Worth(Inflow(OwnOf(R, c)))
             /\ PortfolioRow(R, c).rollover = Worth(OwnOf(R, c) \ Inflow(OwnOf(R, c)))
             /\ \A t \in Categories : PortfolioRow(R, c).exposure[t] = Worth(OfCategory(OwnOf(R, c), t))
  BY DEF PortfolioRow, OwnOf
<1>2. \A w \in rows : w.customer \in Customers(R) /\ w = PortfolioRow(R, w.customer)
  BY <1>1 DEF PortfolioRows
<1>3. \A r \in R : \E w \in rows : w.customer = r.customer
  BY <1>1 DEF Customers, PortfolioRows
<1>4. ASSUME IsFiniteSet(R) PROVE IsFiniteSet(rows)
  <2> DEFINE f == [r \in R |-> PortfolioRow(R, r.customer)]
  <2>1. rows = {f[r] : r \in DOMAIN f} /\ DOMAIN f = R
    BY DEF Customers, PortfolioRows
  <2> HIDE DEF f
  <2> QED BY <1>4, <2>1, ImageFinite
<1>5. \A w \in rows :
         /\ w.count = Cardinality(OwnOf(R, w.customer)) /\ w.total = Worth(OwnOf(R, w.customer))
         /\ w.inflow = Worth(Inflow(OwnOf(R, w.customer)))
         /\ w.rollover = Worth(OwnOf(R, w.customer) \ Inflow(OwnOf(R, w.customer)))
         /\ \A t \in Categories : w.exposure[t] = Worth(OfCategory(OwnOf(R, w.customer), t))
  <2> SUFFICES ASSUME NEW w \in rows
               PROVE  /\ w.count = Cardinality(OwnOf(R, w.customer)) /\ w.total = Worth(OwnOf(R, w.customer))
                      /\ w.inflow = Worth(Inflow(OwnOf(R, w.customer)))
                      /\ w.rollover = Worth(OwnOf(R, w.customer) \ Inflow(OwnOf(R, w.customer)))
                      /\ \A t \in Categories : w.exposure[t] = Worth(OfCategory(OwnOf(R, w.customer), t))
    OBVIOUS
  <2> DEFINE c == w.customer
  <2>1. w = PortfolioRow(R, c)
    BY <1>2
  <2> HIDE DEF c
  <2> QED BY <1>1, <2>1 DEF c
<1> QED BY <1>2, <1>3, <1>4, <1>5

(* However it is sorted, the portfolio has each customer's row once. *)
LEMMA PortfolioCovers ==
    ASSUME NEW R, Recorded(R)
    PROVE  LET rows == PortfolioRows(R)
           IN  /\ ToSet(Portfolio(R)) = rows /\ IsInjective(Portfolio(R))
               /\ Portfolio(R) \in Seq(rows) /\ Len(Portfolio(R)) = Cardinality(rows)
<1> DEFINE rows == PortfolioRows(R)
           first(c) == FirstOf({r \in R : r.customer = c}).id
           before(x, y) == x.total > y.total \/ (x.total = y.total /\ first(x.customer) < first(y.customer))
           Q == {xy \in rows \X rows : before(xy[1], xy[2])}
<1>1. Portfolio(R) = CHOOSE s \in [1 .. Cardinality(rows) -> rows] :
                        \A i, j \in DOMAIN s : i < j => before(s[i], s[j])
  BY DEF Portfolio, Sorted, PortfolioRows
<1>2. \A c \in Customers(R) : FirstOf({r \in R : r.customer = c}) \in {r \in R : r.customer = c}
  <2> SUFFICES ASSUME NEW c \in Customers(R)
               PROVE  FirstOf({r \in R : r.customer = c}) \in {r \in R : r.customer = c}
    OBVIOUS
  <2> DEFINE own == {r \in R : r.customer = c}
  <2>1. own # {} /\ Recorded(own)
    BY RecordedPart DEF Customers
  <2> QED BY <2>1, FirstAndLast
<1>3. /\ \A c \in Customers(R) : first(c) \in Nat
      /\ \A c, d \in Customers(R) : first(c) = first(d) => c = d
  BY <1>2 DEF Recorded
<1>4. IsFiniteSet(rows) /\ \A v, w \in rows : v.customer = w.customer => v = w
  BY PortfolioShape DEF Recorded
<1>5. \A w \in rows : w.customer \in Customers(R) /\ w.total \in Nat
  <2> SUFFICES ASSUME NEW w \in rows PROVE w.customer \in Customers(R) /\ w.total \in Nat
    OBVIOUS
  <2>1. w.customer \in Customers(R) /\ w.total = Worth(OwnOf(R, w.customer))
    <3>1. \A x \in rows : /\ x.customer \in Customers(R)
                           /\ x.total = Worth(OwnOf(R, x.customer))
      BY PortfolioShape
    <3> HIDE DEF rows
    <3> QED BY <3>1
  <2>2. OwnOf(R, w.customer) \in SUBSET R
    BY DEF OwnOf
  <2> QED BY <2>1, <2>2, WorthOfPart
<1> HIDE DEF first, rows
<1>6. Ordered(rows, Q)
  <2>1. \A v, w \in rows : <<v, w>> \in Q <=> before(v, w)
    OBVIOUS
  <2> HIDE DEF Q
  <2>2. \A v \in rows : <<v, v>> \notin Q
    BY <1>3, <1>5, <2>1
  <2>3. \A v, w \in rows : v # w => <<v, w>> \in Q \/ <<w, v>> \in Q
    BY <1>3, <1>4, <1>5, <2>1
  <2>4. \A u, v, w \in rows : <<u, v>> \in Q /\ <<v, w>> \in Q => <<u, w>> \in Q
    BY <1>3, <1>5, <2>1
  <2> QED BY <2>2, <2>3, <2>4 DEF Ordered
<1>7. \A s \in [1 .. Cardinality(rows) -> rows] :
        InSequence(s, rows, Q) <=> \A i, j \in DOMAIN s : i < j => before(s[i], s[j])
  <2> SUFFICES ASSUME NEW s \in [1 .. Cardinality(rows) -> rows]
               PROVE  InSequence(s, rows, Q) <=> \A i, j \in DOMAIN s : i < j => before(s[i], s[j])
    OBVIOUS
  <2>1. \A v, w \in rows : <<v, w>> \in Q <=> before(v, w)
    OBVIOUS
  <2> HIDE DEF Q, before
  <2>2. \A i, j \in DOMAIN s : <<s[i], s[j]>> \in Q <=> before(s[i], s[j])
    BY <2>1
  <2>3. InSequence(s, rows, Q) <=> \A i, j \in DOMAIN s : i < j => <<s[i], s[j]>> \in Q
    BY DEF InSequence
  <2> QED BY <2>2, <2>3
<1>8. InSequence(Portfolio(R), rows, Q)
  <2> HIDE DEF before, Q
  <2>1. PICK s : InSequence(s, rows, Q)
    BY <1>4, <1>6, SequenceExists
  <2>2. s \in [1 .. Cardinality(rows) -> rows]
    BY <2>1 DEF InSequence
  <2> QED BY <1>1, <1>7, <2>1, <2>2
<1> HIDE DEF Q
<1> QED BY <1>4, <1>6, <1>8, SequenceCovers DEF rows

(* The rows of the portfolio tell of all records.                          *)
LEMMA PortfolioTellsAll ==
    ASSUME NEW R, Recorded(R)
    PROVE  /\ Total(ToSet(Portfolio(R)), LAMBDA c : c.count) = Cardinality(R)
           /\ Total(ToSet(Portfolio(R)), LAMBDA c : c.total) = Worth(R)
<1> DEFINE rows == PortfolioRows(R)
           key == [r \in R |-> r.customer]
           of == [w \in rows |-> w.customer]
<1>1. /\ IsFiniteSet(rows) /\ DOMAIN of = rows /\ DOMAIN key = R
      /\ \A v, w \in rows : of[v] = of[w] => v = w
      /\ \A r \in R : \E w \in rows : of[w] = key[r]
  <2>1. /\ IsFiniteSet(rows) /\ \A v, w \in rows : v.customer = w.customer => v = w
        /\ \A r \in R : \E w \in rows : w.customer = r.customer
    BY PortfolioShape DEF Recorded
  <2> HIDE DEF rows
  <2> QED BY <2>1
<1>2. ToSet(Portfolio(R)) = rows
  BY PortfolioCovers
<1>3. \A w \in rows : w.count = Cardinality(OwnOf(R, w.customer)) /\ w.total = Worth(OwnOf(R, w.customer))
  BY PortfolioShape
<1>4. \A w \in rows : {r \in R : key[r] = of[w]} = OwnOf(R, w.customer)
  BY DEF OwnOf
<1> HIDE DEF key, of, rows
<1>5. /\ SumFunction([w \in rows |-> Worth({r \in R : key[r] = of[w]})]) = Worth(R)
      /\ SumFunction([w \in rows |-> Cardinality({r \in R : key[r] = of[w]})]) = Cardinality(R)
  BY <1>1, TableTellsAll
<1>6. /\ [w \in rows |-> w.count] = [w \in rows |-> Cardinality({r \in R : key[r] = of[w]})]
      /\ [w \in rows |-> w.total] = [w \in rows |-> Worth({r \in R : key[r] = of[w]})]
  BY <1>3, <1>4
<1> QED BY <1>2, <1>5, <1>6 DEF Total

(* The records of a manager; within them the customers of a type, and what *)
(* those brought.                                                          *)
ManagedBy(R, m) == {r \in R : r.manager = m}
Typed(R, t) == {c \in Customers(R) : LastOf({r \in R : r.customer = c}).type = t}
Mobilised(R, t) == {r \in R : r.customer \in Typed(R, t)}

(* What each manager's row tells.                                          *)
LEMMA ManagersShape ==
    ASSUME NEW R
    PROVE  /\ \A w \in Managers(R) :
                LET own == ManagedBy(R, w.manager)
                IN  /\ w.accounts = Cardinality(own) /\ w.total = Worth(own)
                    /\ w.customers = Cardinality(Customers(own)) /\ w.aging = FundsAging(own)
                    /\ w.byType["new"].count = Cardinality(Typed(own, "new"))
                    /\ w.byType["returning"].count = Cardinality(Typed(own, "returning"))
                    /\ w.byType["new"].value = Worth(Mobilised(own, "new"))
                    /\ w.byType["returning"].value = Worth(Mobilised(own, "returning"))
                    /\ w.inflow = Worth(Inflow(own)) /\ w.rollover = Worth(own \ Inflow(own))
           /\ \A v, w \in Managers(R) : v.manager = w.manager => v = w
           /\ \A r \in R : \E w \in Managers(R) : w.manager = r.manager
           /\ IsFiniteSet(R) => IsFiniteSet(Managers(R))
<1> DEFINE tells(w, m) ==
              LET own == ManagedBy(R, m)
              IN  /\ w.accounts = Cardinality(own) /\ w.total = Worth(own)
                  /\ w.customers = Cardinality(Customers(own)) /\ w.aging = FundsAging(own)
                  /\ w.byType["new"].count = Cardinality(Typed(own, "new"))
                  /\ w.byType["returning"].count = Cardinality(Typed(own, "returning"))
                  /\ w.byType["new"].value = Worth(Mobilised(own, "new"))
                  /\ w.byType["returning"].value = Worth(Mobilised(own, "returning"))
                  /\ w.inflow = Worth(Inflow(own)) /\ w.rollover = Worth(own \ Inflow(own))
<1>1. \A m : ManagerRow(R, m).manager = m /\ tells(ManagerRow(R, m), m)
  BY DEF ManagerRow, ManagedBy, Typed, Mobilised, Types
<1> HIDE DEF tells
<1>2. \A w \in Managers(R) : w = ManagerRow(R, w.manager)
  BY <1>1 DEF Managers
<1>3. \A w \in Managers(R) : tells(w, w.manager)
  <2> SUFFICES ASSUME NEW w \in Managers(R) PROVE tells(w, w.manager)
    OBVIOUS
  <2> DEFINE m == w.manager
  <2>1. w = ManagerRow(R, m)
    BY <1>2
  <2> HIDE DEF m
  <2>2. tells(w, m)
    BY <1>1, <2>1
  <2> QED BY <2>2 DEF m
<1>4. \A r \in R : \E w \in Managers(R) : w.manager = r.manager
  BY <1>1 DEF Managers
<1>5. ASSUME IsFiniteSet(R) PROVE IsFiniteSet(Managers(R))
  <2> DEFINE f == [r \in R |-> ManagerRow(R, r.manager)]
  <2>1. Managers(R) = {f[r] : r \in DOMAIN f} /\ DOMAIN f = R
    BY DEF Managers
  <2> HIDE DEF f
  <2> QED BY <1>5, <2>1, ImageFinite
<1> QED BY <1>2, <1>3, <1>4, <1>5 DEF tells

(* The rows of the managers tell of all records.                           *)
LEMMA ManagersTellAll ==
    ASSUME NEW R, Recorded(R)
    PROVE  /\ Total(Managers(R), LAMBDA m : m.accounts) = Cardinality(R)
           /\ Total(Managers(R), LAMBDA m : m.total) = Worth(R)
<1> DEFINE rows == Managers(R)
           key == [r \in R |-> r.manager]
           of == [w \in rows |-> w.manager]
<1>1. /\ IsFiniteSet(rows) /\ DOMAIN of = rows /\ DOMAIN key = R
      /\ \A v, w \in rows : of[v] = of[w] => v = w
      /\ \A r \in R : \E w \in rows : of[w] = key[r]
  BY ManagersShape DEF Recorded
<1>2. \A w \in rows : /\ w.accounts = Cardinality(ManagedBy(R, w.manager))
                      /\ w.total = Worth(ManagedBy(R, w.manager))
  BY ManagersShape
<1>3. \A w \in rows : {r \in R : key[r] = of[w]} = ManagedBy(R, w.manager)
  BY DEF ManagedBy
<1> HIDE DEF key, of, rows
<1>4. /\ SumFunction([w \in rows |-> Worth({r \in R : key[r] = of[w]})]) = Worth(R)
      /\ SumFunction([w \in rows |-> Cardinality({r \in R : key[r] = of[w]})]) = Cardinality(R)
  BY <1>1, TableTellsAll
<1>5. /\ [w \in rows |-> w.accounts] = [w \in rows |-> Cardinality({r \in R : key[r] = of[w]})]
      /\ [w \in rows |-> w.total] = [w \in rows |-> Worth({r \in R : key[r] = of[w]})]
  BY <1>2, <1>3
<1> QED BY <1>4, <1>5 DEF Total, rows

(* Classes that every record is in one of tell of all records. *)
LEMMA ClassesTellAll ==
    ASSUME NEW R, Recorded(R), NEW classes, IsFiniteSet(classes),
           NEW key, DOMAIN key = R, \A r \in R : key[r] \in classes
    PROVE  SumFunction([c \in classes |-> Worth({r \in R : key[r] = c})]) = Worth(R)
<1> DEFINE of == [c \in classes |-> c]
<1>1. /\ DOMAIN of = classes /\ DOMAIN key = R /\ \A v, w \in classes : of[v] = of[w] => v = w
      /\ \A r \in R : \E w \in classes : of[w] = key[r]
  OBVIOUS
<1>2. [c \in classes |-> Worth({r \in R : key[r] = c})] = [w \in classes |-> Worth({r \in R : key[r] = of[w]})]
  OBVIOUS
<1> HIDE DEF of
<1>3. /\ SumFunction([w \in classes |-> Worth({r \in R : key[r] = of[w]})]) = Worth(R)
      /\ SumFunction([w \in classes |-> Cardinality({r \in R : key[r] = of[w]})]) = Cardinality(R)
  BY <1>1, TableTellsAll
<1> QED BY <1>2, <1>3

(* The age buckets tell of all records.                                    *)
LEMMA BucketsTellAll ==
    ASSUME NEW R, Recorded(R)
    PROVE  Total(Buckets, LAMBDA b : FundsAging(R)[b].value) = Worth(R)
<1> DEFINE key == [r \in R |-> AgingBucket(r.days)]
<1>1. \A r \in R : AgingBucket(r.days) \in Buckets
  BY DEF AgingBucket, Buckets
<1>2. IsFiniteSet(Buckets)
  <2> DEFINE names == <<"days0To90", "days120To210", "days240To330", "days366Plus", "unclassified">>
  <2>1. Buckets = {names[i] : i \in DOMAIN names} /\ DOMAIN names = 1 .. 5
    BY DEF Buckets
  <2> HIDE DEF names
  <2>2. IsFiniteSet(1 .. 5)
    <3>1. 1 \in Int /\ 5 \in Int
      OBVIOUS
    <3>2. IsFiniteSet(1 .. 5) /\ Cardinality(1 .. 5) = IF 1 > 5 THEN 0 ELSE 5 - 1 + 1
      BY <3>1, FS_Interval, Zenon
    <3> QED BY <3>2
  <2> QED BY <2>1, <2>2, ImageFinite
<1>3. \A b \in Buckets : FundsAging(R)[b].value = Worth({r \in R : AgingBucket(r.days) = b})
  <2>1. \A b \in Buckets : FundsAging(R)[b] = Figure({r \in R : AgingBucket(r.days) = b})
    BY DEF FundsAging
  <2> QED BY <2>1, FigureTells
<1>4. [b \in Buckets |-> FundsAging(R)[b].value] = [b \in Buckets |-> Worth({r \in R : key[r] = b})]
  <2>1. \A b : {r \in R : AgingBucket(r.days) = b} = {r \in R : key[r] = b}
    OBVIOUS
  <2> HIDE DEF key
  <2> QED BY <1>3, <2>1
<1>5. DOMAIN key = R /\ \A r \in R : key[r] \in Buckets
  BY <1>1
<1> HIDE DEF key
<1>6. SumFunction([b \in Buckets |-> Worth({r \in R : key[r] = b})]) = Worth(R)
  BY <1>2, <1>5, ClassesTellAll
<1> QED BY <1>4, <1>6 DEF Total

(* Records keep their ids apart and their figures natural, whatever is     *)
(* posted or deleted.                                                      *)
LEMMA RecordsStayRecorded ==
    ASSUME Recorded(records), [Next]_vars
    PROVE  Recorded(records')
<1>1. CASE Post
  <2>1. PICK i \in Ids, k \in Kinds :
          /\ \A r \in records : r.id # i
          /\ records' = records \cup {[x \in DOMAIN k \cup {"id"} |-> IF x = "id" THEN i ELSE k[x]]}
    BY <1>1 DEF Post
  <2> DEFINE new == [x \in DOMAIN k \cup {"id"} |-> IF x = "id" THEN i ELSE k[x]]
  <2>2. /\ new.id = i /\ new.amount = k.amount /\ new.day = k.day /\ new.days = k.days
        /\ new.type = k.type /\ new.fund = k.fund /\ new.category = k.category
        /\ new.commission = k.commission
    BY FiguresAssumption
  <2> HIDE DEF new
  <2>3. /\ new.id \in Nat /\ new.amount \in Nat /\ new.day \in Nat /\ new.days \in Nat
        /\ new.type \in Types /\ new.fund \in Funds /\ new.category \in Categories
        /\ new.commission \in Nat \cup {Null}
    BY <2>2, FiguresAssumption
  <2>4. records' = records \cup {new}
    BY <2>1 DEF new
  <2>5. IsFiniteSet(records')
    BY <2>4, FS_AddElement DEF Recorded
  <2>6. \A r, s \in records' : r.id = s.id => r = s
    BY <2>1, <2>2, <2>4 DEF Recorded
  <2> QED BY <2>3, <2>4, <2>5, <2>6 DEF Recorded
<1>2. CASE DeleteRecord \/ DeleteCustomer
  <2>1. records' \in SUBSET records
    BY <1>2 DEF DeleteRecord, DeleteCustomer
  <2> QED BY <2>1, RecordedPart
<1>3. CASE UNCHANGED records
  BY <1>3
<1> QED BY <1>1, <1>2, <1>3 DEF Next, Open, Query, Turn, Close, vars

LEMMA AlwaysRecorded == Spec => []Recorded(records)
<1>1. Init => Recorded(records)
  BY FS_EmptySet DEF Init, Recorded
<1>2. Recorded(records) /\ [Next]_vars => Recorded(records)'
  BY RecordsStayRecorded
<1> QED BY <1>1, <1>2, PTL DEF Spec

(* The views of any such records agree.                                    *)
LEMMA ViewsTellAll ==
    ASSUME Recorded(records)
    PROVE  ViewsAgree
<1> DEFINE R == records
           sum == [count |-> Summary(R).count, value |-> Summary(R).total]
<1>1. sum = [count |-> Cardinality(R), value |-> Worth(R)]
  BY DEF Summary
<1> HIDE DEF sum
<1>2. \A k \in {"daily", "monthly", "quarterly"} :
        sum = [count |-> Total(Points(R, k), LAMBDA p : p.figure.count),
               value |-> Total(Points(R, k), LAMBDA p : p.figure.value)]
  BY <1>1, PointsTellAll
<1>3. sum = [count |-> Total(ToSet(Portfolio(R)), LAMBDA c : c.count),
             value |-> Total(ToSet(Portfolio(R)), LAMBDA c : c.total)]
  BY <1>1, PortfolioTellsAll
<1>4. sum = [count |-> Total(Managers(R), LAMBDA m : m.accounts),
             value |-> Total(Managers(R), LAMBDA m : m.total)]
  BY <1>1, ManagersTellAll
<1>5. sum.value = Total(Buckets, LAMBDA b : FundsAging(R)[b].value)
  BY <1>1, BucketsTellAll
<1> QED BY <1>2, <1>3, <1>4, <1>5 DEF ViewsAgree, sum

(* Whatever records there are, and however many, every view of them tells  *)
(* the same total and the same number of investments.                      *)
THEOREM EveryViewAgrees == Spec => []ViewsAgree
  BY AlwaysRecorded, ViewsTellAll, PTL

-----------------------------------------------------------------------------
(* Every split of the records leaves nothing out and counts nothing twice. *)

(* There are finitely many categories.                                     *)
LEMMA ClassesNamed == IsFiniteSet(Categories)
<1>1. Categories = {"short_term", "mid_short_term", "medium_term", "long_term", "unclassified"}
  BY DEF Categories, TenorBands
<1>2. IsFiniteSet(Categories)
  <2> DEFINE names == <<"short_term", "mid_short_term", "medium_term", "long_term", "unclassified">>
  <2>1. Categories = {names[i] : i \in DOMAIN names} /\ DOMAIN names = 1 .. 5
    BY <1>1
  <2> HIDE DEF names
  <2>2. IsFiniteSet(1 .. 5)
    <3>1. 1 \in Int /\ 5 \in Int
      OBVIOUS
    <3>2. IsFiniteSet(1 .. 5) /\ Cardinality(1 .. 5) = IF 1 > 5 THEN 0 ELSE 5 - 1 + 1
      BY <3>1, FS_Interval, Zenon
    <3> QED BY <3>2
  <2> QED BY <2>1, <2>2, ImageFinite
<1> QED BY <1>2

(* New and returning split any records, inflow and rollover do, and tenors *)
(* do.                                                                     *)
LEMMA TypesSplit ==
    ASSUME NEW R, Recorded(R)
    PROVE  /\ Worth({r \in R : r.type = "new"}) + Worth({r \in R : r.type = "returning"}) = Worth(R)
           /\ Worth({r \in R : r.type = "new"}) + Worth({r \in R : r.type # "new"}) = Worth(R)
<1> DEFINE new == {r \in R : r.type = "new"}
<1>1. {r \in R : r.type = "returning"} = R \ new /\ {r \in R : r.type # "new"} = R \ new
  BY DEF Recorded, Types
<1>2. Worth(R) = Worth(new) + Worth(R \ new)
  BY WorthOfPart
<1> QED BY <1>1, <1>2

LEMMA FundsSplit ==
    ASSUME NEW R, Recorded(R)
    PROVE  /\ Worth(Inflow(R)) + Worth({r \in R : r.fund = "rollover"}) = Worth(R)
           /\ Worth(Inflow(R)) + Worth(R \ Inflow(R)) = Worth(R)
<1>1. {r \in R : r.fund = "rollover"} = R \ Inflow(R) /\ Inflow(R) \in SUBSET R
  BY DEF Recorded, Inflow, Funds
<1>2. Worth(R) = Worth(Inflow(R)) + Worth(R \ Inflow(R))
  BY <1>1, WorthOfPart
<1> QED BY <1>1, <1>2

LEMMA TenorsSplit ==
    ASSUME NEW R, Recorded(R)
    PROVE  Total(Categories, LAMBDA t : Worth(OfCategory(R, t))) = Worth(R)
<1> DEFINE key == [r \in R |-> r.category]
<1>1. DOMAIN key = R /\ \A r \in R : key[r] \in Categories
  BY ClassesNamed DEF Recorded
<1>2. \A c : {r \in R : key[r] = c} = OfCategory(R, c)
  BY DEF OfCategory
<1> HIDE DEF key
<1>3. SumFunction([c \in Categories |-> Worth({r \in R : key[r] = c})]) = Worth(R)
  BY <1>1, ClassesNamed, ClassesTellAll
<1>4. [c \in Categories |-> Worth({r \in R : key[r] = c})] = [c \in Categories |-> Worth(OfCategory(R, c))]
  BY <1>2
<1> QED BY <1>3, <1>4 DEF Total

(* The rows of the tenors that there are. *)
LEMMA TenorRowsSplit ==
    ASSUME NEW R, Recorded(R)
    PROVE  Total(Summary(R).tenor, LAMBDA t : t.figure.value) = Worth(R)
<1> DEFINE row(c) == [category |-> c, figure |-> Figure(OfCategory(R, c))]
           there == {d \in Categories : OfCategory(R, d) # {}}
           rows == {row(c) : c \in there}
           key == [r \in R |-> r.category]
           of == [w \in rows |-> w.category]
<1>1. Summary(R).tenor = rows
  BY DEF Summary
<1>2. \A c : row(c).category = c /\ row(c).figure = Figure(OfCategory(R, c))
  OBVIOUS
<1>3. IsFiniteSet(rows)
  <2> DEFINE f == [c \in there |-> row(c)]
  <2>1. rows = {f[c] : c \in DOMAIN f} /\ DOMAIN f = there
    OBVIOUS
  <2>2. IsFiniteSet(there)
    BY ClassesNamed, FS_Subset
  <2> HIDE DEF f, there, row
  <2> QED BY <2>1, <2>2, ImageFinite
<1> HIDE DEF row
<1>4. \A w \in rows : /\ w = row(w.category) /\ w.figure.value = Worth(OfCategory(R, w.category))
  BY <1>2, FigureTells
<1>5. \A r \in R : \E w \in rows : w.category = r.category
  <2> SUFFICES ASSUME NEW r \in R PROVE \E w \in rows : w.category = r.category
    OBVIOUS
  <2>1. r.category \in there
    BY ClassesNamed DEF OfCategory, Recorded
  <2> QED BY <1>2, <2>1
<1> HIDE DEF rows
<1>6. /\ DOMAIN of = rows /\ DOMAIN key = R
      /\ \A v, w \in rows : of[v] = of[w] => v = w
      /\ \A r \in R : \E w \in rows : of[w] = key[r]
  BY <1>4, <1>5
<1>7. \A w \in rows : {r \in R : key[r] = of[w]} = OfCategory(R, w.category)
  BY DEF OfCategory
<1> HIDE DEF key, of
<1>8. /\ SumFunction([w \in rows |-> Worth({r \in R : key[r] = of[w]})]) = Worth(R)
      /\ SumFunction([w \in rows |-> Cardinality({r \in R : key[r] = of[w]})]) = Cardinality(R)
  BY <1>3, <1>6, TableTellsAll
<1>9. [w \in rows |-> w.figure.value] = [w \in rows |-> Worth({r \in R : key[r] = of[w]})]
  BY <1>4, <1>7
<1> QED BY <1>1, <1>8, <1>9 DEF Total

(* The splits of the summary, of a point, of a customer's row and of a     *)
(* manager's.                                                              *)
LEMMA SummarySplits ==
    ASSUME NEW R, Recorded(R)
    PROVE  LET s == Summary(R)
           IN  /\ s.byType["new"].value + s.byType["returning"].value = s.total
               /\ s.inflow.value + s.rollover.value = s.total
               /\ Total(s.tenor, LAMBDA t : t.figure.value) = s.total
<1>1. /\ Summary(R).total = Worth(R)
      /\ Summary(R).byType["new"].value = Worth({r \in R : r.type = "new"})
      /\ Summary(R).byType["returning"].value = Worth({r \in R : r.type = "returning"})
      /\ Summary(R).inflow = Figure(Inflow(R))
      /\ Summary(R).rollover = Figure({r \in R : r.fund = "rollover"})
  BY DEF Summary, Types
<1>2. /\ Summary(R).inflow.value = Worth(Inflow(R))
      /\ Summary(R).rollover.value = Worth({r \in R : r.fund = "rollover"})
  BY <1>1, FigureTells
<1> QED BY <1>1, <1>2, TypesSplit, FundsSplit, TenorRowsSplit

LEMMA PointsSplit ==
    ASSUME NEW R, Recorded(R), NEW k, NEW p \in Points(R, k)
    PROVE  /\ p.new + p.returning = p.figure.value /\ p.inflow + p.rollover = p.figure.value
           /\ Total(DOMAIN p.banded, LAMBDA c : p.banded[c]) <= p.figure.value
<1> DEFINE own == InPeriod(R, k, p.period)
           bands == Categories \ {"unclassified"}
           part == [c \in bands |-> OfCategory(own, c)]
<1>1. /\ p.figure = Figure(own)
      /\ p.new = Worth({r \in own : r.type = "new"})
      /\ p.returning = Worth({r \in own : r.type # "new"})
      /\ p.inflow = Worth(Inflow(own)) /\ p.rollover = Worth(own \ Inflow(own))
      /\ p.banded = [c \in bands |-> Worth(OfCategory(own, c))]
  BY PointsShape
<1>2. Recorded(own)
  BY RecordedPart DEF InPeriod
<1> HIDE DEF own
<1>3. p.figure.value = Worth(own)
  BY <1>1, FigureTells
<1>4. p.new + p.returning = p.figure.value /\ p.inflow + p.rollover = p.figure.value
  BY <1>1, <1>2, <1>3, TypesSplit, FundsSplit
<1>5. IsFiniteSet(bands)
  BY ClassesNamed, FS_Subset
<1> HIDE DEF bands
<1>6. /\ DOMAIN part = bands /\ \A w \in DOMAIN part : part[w] \subseteq own
      /\ \A v, w \in DOMAIN part : v # w => part[v] \cap part[w] = {}
  BY DEF OfCategory
<1>7. [w \in DOMAIN part |-> Worth(part[w])] = [c \in DOMAIN p.banded |-> p.banded[c]]
  BY <1>1
<1> HIDE DEF part
<1>8. UNION {part[w] : w \in DOMAIN part} \in SUBSET own
  BY <1>6
<1>9. /\ SumFunction([w \in DOMAIN part |-> Worth(part[w])]) = Worth(UNION {part[w] : w \in DOMAIN part})
      /\ SumFunction([w \in DOMAIN part |-> Cardinality(part[w])])
           = Cardinality(UNION {part[w] : w \in DOMAIN part})
  BY <1>2, <1>5, <1>6, WorthOfParts
<1>10. Worth(UNION {part[w] : w \in DOMAIN part}) <= Worth(own)
  BY <1>2, <1>8, WorthOfPart
<1>11. Total(DOMAIN p.banded, LAMBDA c : p.banded[c]) <= p.figure.value
  BY <1>3, <1>7, <1>9, <1>10 DEF Total
<1> QED BY <1>4, <1>11

LEMMA PortfolioSplits ==
    ASSUME NEW R, Recorded(R), NEW c \in ToSet(Portfolio(R))
    PROVE  c.total = Total(Categories, LAMBDA t : c.exposure[t])
<1> DEFINE own == OwnOf(R, c.customer)
<1>1. c.total = Worth(own) /\ \A t \in Categories : c.exposure[t] = Worth(OfCategory(own, t))
  <2> DEFINE rows == PortfolioRows(R)
  <2>1. c \in rows
    BY PortfolioCovers
  <2>2. \A w \in rows :
          /\ w.total = Worth(OwnOf(R, w.customer))
          /\ \A t \in Categories : w.exposure[t] = Worth(OfCategory(OwnOf(R, w.customer), t))
    BY PortfolioShape
  <2> HIDE DEF rows
  <2> QED BY <2>1, <2>2
<1>2. Recorded(own)
  BY RecordedPart DEF OwnOf
<1> HIDE DEF own
<1>3. Total(Categories, LAMBDA t : Worth(OfCategory(own, t))) = Worth(own)
  BY <1>2, TenorsSplit
<1>4. [t \in Categories |-> c.exposure[t]] = [t \in Categories |-> Worth(OfCategory(own, t))]
  BY <1>1
<1> QED BY <1>1, <1>3, <1>4 DEF Total

(* Customers have one type each, and so do their records. *)
LEMMA CustomersSplit ==
    ASSUME NEW R, Recorded(R)
    PROVE  /\ Worth(Mobilised(R, "new")) + Worth(Mobilised(R, "returning")) = Worth(R)
           /\ Cardinality(Typed(R, "new")) + Cardinality(Typed(R, "returning")) = Cardinality(Customers(R))
<1>1. \A c \in Customers(R) : LastOf({r \in R : r.customer = c}).type \in Types
  <2> SUFFICES ASSUME NEW c \in Customers(R)
               PROVE  LastOf({r \in R : r.customer = c}).type \in Types
    OBVIOUS
  <2> DEFINE own == {r \in R : r.customer = c}
  <2>1. own # {} /\ Recorded(own)
    BY RecordedPart DEF Customers
  <2>2. LastOf(own) \in own
    <3> HIDE DEF own
    <3> QED BY <2>1, FirstAndLast
  <2> QED BY <2>2 DEF Recorded
<1>2. /\ Typed(R, "returning") = Customers(R) \ Typed(R, "new")
      /\ Typed(R, "new") \in SUBSET Customers(R)
  BY <1>1 DEF Typed, Types
<1>3. Mobilised(R, "returning") = R \ Mobilised(R, "new") /\ Mobilised(R, "new") \in SUBSET R
  BY <1>2 DEF Mobilised, Customers
<1>4. Worth(R) = Worth(Mobilised(R, "new")) + Worth(R \ Mobilised(R, "new"))
  BY <1>3, WorthOfPart
<1>5. IsFiniteSet(Customers(R))
  <2> DEFINE f == [r \in R |-> r.customer]
  <2>1. Customers(R) = {f[r] : r \in DOMAIN f} /\ DOMAIN f = R
    BY DEF Customers
  <2>2. IsFiniteSet(R)
    BY DEF Recorded
  <2> HIDE DEF f
  <2> QED BY <2>1, <2>2, ImageFinite
<1>6. Cardinality(Customers(R)) = Cardinality(Typed(R, "new")) + Cardinality(Customers(R) \ Typed(R, "new"))
  <2> DEFINE A == Typed(R, "new")
             B == Customers(R) \ Typed(R, "new")
  <2>1. IsFiniteSet(A) /\ IsFiniteSet(B) /\ A \cup B = Customers(R) /\ A \cap B = {}
    BY <1>2, <1>5, FS_Subset
  <2> HIDE DEF A, B
  <2>2. Cardinality(A \cup B) = Cardinality(A) + Cardinality(B) - Cardinality({})
    BY <2>1, FS_Union
  <2>3. Cardinality(A) \in Nat /\ Cardinality(B) \in Nat /\ Cardinality({}) = 0
    BY <2>1, FS_CardinalityType, FS_EmptySet
  <2>4. Cardinality(A \cup B) = Cardinality(A) + Cardinality(B)
    BY <2>2, <2>3
  <2> QED BY <2>1, <2>4 DEF A, B
<1> QED BY <1>2, <1>3, <1>4, <1>6

LEMMA ManagersSplit ==
    ASSUME NEW R, Recorded(R), NEW m \in Managers(R)
    PROVE  /\ m.byType["new"].value + m.byType["returning"].value = m.total
           /\ m.byType["new"].count + m.byType["returning"].count = m.customers
           /\ \A b \in Buckets : m.aging[b].value <= FundsAging(R)[b].value
<1> DEFINE own == ManagedBy(R, m.manager)
<1>1. /\ m.total = Worth(own) /\ m.customers = Cardinality(Customers(own)) /\ m.aging = FundsAging(own)
      /\ m.byType["new"].count = Cardinality(Typed(own, "new"))
      /\ m.byType["returning"].count = Cardinality(Typed(own, "returning"))
      /\ m.byType["new"].value = Worth(Mobilised(own, "new"))
      /\ m.byType["returning"].value = Worth(Mobilised(own, "returning"))
  BY ManagersShape
<1>2. Recorded(own) /\ own \in SUBSET R
  BY RecordedPart DEF ManagedBy
<1> HIDE DEF own
<1>3. \A b \in Buckets : m.aging[b].value <= FundsAging(R)[b].value
  <2> SUFFICES ASSUME NEW b \in Buckets PROVE m.aging[b].value <= FundsAging(R)[b].value
    OBVIOUS
  <2> DEFINE old(S) == {r \in S : AgingBucket(r.days) = b}
  <2>1. FundsAging(own)[b] = Figure(old(own)) /\ FundsAging(R)[b] = Figure(old(R))
    BY DEF FundsAging
  <2>2. old(own) \in SUBSET old(R) /\ Recorded(old(R))
    BY <1>2, RecordedPart
  <2> HIDE DEF old
  <2>3. Worth(old(own)) <= Worth(old(R))
    BY <2>2, WorthOfPart
  <2> QED BY <1>1, <2>1, <2>3, FigureTells
<1> QED BY <1>1, <1>2, <1>3, CustomersSplit

(* Whatever records there are, no split of any view leaves something out   *)
(* or counts something twice.                                              *)
THEOREM EverySplitPartitions == Spec => []SplitsPartition
<1>1. Recorded(records) => SplitsPartition
  BY SummarySplits, PointsSplit, PortfolioSplits, ManagersSplit DEF SplitsPartition
<1> QED BY <1>1, AlwaysRecorded, PTL

-----------------------------------------------------------------------------
(* Lists, read page by page.                                               *)

(* A sum over a part, and over the rest. *)
LEMMA SumOfPart ==
    ASSUME NEW f, IsFiniteSet(DOMAIN f), \A x \in DOMAIN f : f[x] \in Nat, NEW S \in SUBSET DOMAIN f
    PROVE  /\ SumFunction([x \in S |-> f[x]]) \in Nat
           /\ SumFunction(f) = SumFunction([x \in S |-> f[x]]) + SumFunction([x \in DOMAIN f \ S |-> f[x]])
<1> DEFINE over(T) == [x \in T |-> f[x]]
           rest == DOMAIN f \ S
<1>1. /\ Units(f) = Units(over(S)) \cup Units(over(rest))
      /\ Units(over(S)) \cap Units(over(rest)) = {}
  BY DEF Units
<1>2. /\ IsFiniteSet(Units(f)) /\ SumFunction(f) = Cardinality(Units(f))
      /\ IsFiniteSet(Units(over(S))) /\ SumFunction(over(S)) = Cardinality(Units(over(S)))
      /\ IsFiniteSet(Units(over(rest))) /\ SumFunction(over(rest)) = Cardinality(Units(over(rest)))
  <2>1. \A T \in SUBSET DOMAIN f : /\ IsFiniteSet(DOMAIN over(T)) /\ \A x \in DOMAIN over(T) : over(T)[x] \in Nat
    BY FS_Subset
  <2> HIDE DEF over
  <2>2. \A T \in SUBSET DOMAIN f : /\ IsFiniteSet(Units(over(T)))
                                   /\ SumFunction(over(T)) = Cardinality(Units(over(T)))
    BY <2>1, SumCounts, UnitsFinite
  <2> QED BY <2>2, SumCounts, UnitsFinite
<1> HIDE DEF over, rest
<1>3. Cardinality(Units(over(S)) \cup Units(over(rest)))
        = Cardinality(Units(over(S))) + Cardinality(Units(over(rest))) - Cardinality({})
  BY <1>1, <1>2, FS_Union
<1>4. /\ Cardinality(Units(over(S))) \in Nat /\ Cardinality(Units(over(rest))) \in Nat /\ Cardinality({}) = 0
  BY <1>2, FS_CardinalityType, FS_EmptySet
<1>5. Cardinality(Units(over(S)) \cup Units(over(rest)))
        = Cardinality(Units(over(S))) + Cardinality(Units(over(rest)))
  BY <1>3, <1>4
<1> QED BY <1>1, <1>2, <1>4, <1>5 DEF over, rest

(* However it is sorted, the ledger has each record once. *)
LEMMA LedgerCovers ==
    ASSUME NEW R, Recorded(R)
    PROVE  /\ ToSet(Ledger(R)) = R /\ IsInjective(Ledger(R))
           /\ Ledger(R) \in Seq(R) /\ Len(Ledger(R)) = Cardinality(R)
<1> DEFINE before(r, s) == r.day > s.day \/ (r.day = s.day /\ r.id < s.id)
           Q == {rs \in R \X R : before(rs[1], rs[2])}
<1>1. Ledger(R) = CHOOSE s \in [1 .. Cardinality(R) -> R] : \A i, j \in DOMAIN s : i < j => before(s[i], s[j])
  BY DEF Ledger, Sorted
<1>7. \A r, s \in R : <<r, s>> \in Q <=> before(r, s)
  OBVIOUS
<1> HIDE DEF Q
<1>2. IsFiniteSet(R) /\ Ordered(R, Q)
  BY <1>7 DEF Ordered, Recorded
<1>3. \A s \in [1 .. Cardinality(R) -> R] :
        InSequence(s, R, Q) <=> \A i, j \in DOMAIN s : i < j => before(s[i], s[j])
  <2> HIDE DEF before
  <2> QED BY <1>7 DEF InSequence
<1> HIDE DEF before
<1>4. PICK s : InSequence(s, R, Q)
  BY <1>2, SequenceExists
<1>5. s \in [1 .. Cardinality(R) -> R]
  BY <1>4 DEF InSequence
<1>6. InSequence(Ledger(R), R, Q)
  BY <1>1, <1>3, <1>4, <1>5
<1> QED BY <1>2, <1>6, SequenceCovers

(* The list, its members and its commissions, as functions of the records. *)
Among(R, f) == {r \in R : f = "all" \/ r.type = f}
ListOf(R, view, f) ==
    IF view # "portfolio" THEN [i \in DOMAIN Ledger(Among(R, f)) |-> Ledger(Among(R, f))[i].id]
    ELSE [i \in DOMAIN Portfolio(Among(R, f)) |-> Portfolio(Among(R, f))[i].customer]
(* What a list has to show, the commissions on a page, and those of all    *)
(* that matches.                                                           *)
Members(R, view, f) == IF view = "portfolio" THEN Customers(Among(R, f)) ELSE {r.id : r \in Among(R, f)}
CommissionsIn(R, ids) == Total({r \in R : r.id \in ToSet(ids)}, Earned)
AllCommissions(R, f) == Total(Among(R, f), Earned)

(* The lists as the reader asks for them.                                  *)
LEMMA ListedIn ==
    /\ \A view, f : Listed(view, f) = ListOf(records, view, f)
    /\ \A ids : Commissions(ids) = CommissionsIn(records, ids)
    /\ \A f : CommissionSummary(f) = [totalItems |-> Cardinality(Among(records, f)), total |-> AllCommissions(records, f)]
<1>1. \A f : Matching(f) = Among(records, f)
  BY DEF Matching, Among
<1>2. \A view, f : Listed(view, f) = ListOf(records, view, f)
  BY <1>1 DEF Listed, ListOf
<1>3. \A ids : Commissions(ids) = CommissionsIn(records, ids)
  BY DEF Commissions, CommissionsIn
<1>4. \A f : CommissionSummary(f) = [totalItems |-> Cardinality(Among(records, f)), total |-> AllCommissions(records, f)]
  <2> SUFFICES ASSUME NEW f
      PROVE CommissionSummary(f) = [totalItems |-> Cardinality(Among(records, f)), total |-> AllCommissions(records, f)]
    OBVIOUS
  <2>1. Matching(f) = Among(records, f)
    BY <1>1
  <2> QED BY <2>1 DEF CommissionSummary, AllCommissions
<1> QED BY <1>2, <1>3, <1>4

(* A list shows each of its members once.                                  *)
LEMMA ListCovers ==
    ASSUME NEW All, Recorded(All), NEW view, NEW f
    PROVE  LET list == ListOf(All, view, f)
           IN  /\ list \in Seq(Members(All, view, f)) /\ IsInjective(list) /\ ToSet(list) = Members(All, view, f)
               /\ view # "portfolio" => Len(list) = Cardinality(Among(All, f))
<1> DEFINE R == Among(All, f)
<1>1. Recorded(R)
  BY RecordedPart DEF Among
<1> HIDE DEF R
<1>2. CASE view = "portfolio"
  <2> DEFINE portfolio == Portfolio(R)
             list == [i \in DOMAIN portfolio |-> portfolio[i].customer]
  <2>1. /\ ToSet(portfolio) = PortfolioRows(R) /\ IsInjective(portfolio) /\ portfolio \in Seq(PortfolioRows(R))
    BY <1>1, PortfolioCovers
  <2>2. /\ \A w \in PortfolioRows(R) : w.customer \in Customers(R)
        /\ \A v, w \in PortfolioRows(R) : v.customer = w.customer => v = w
        /\ \A r \in R : \E w \in PortfolioRows(R) : w.customer = r.customer
    BY PortfolioShape
  <2>3. ListOf(All, view, f) = list
    BY <1>2 DEF ListOf, R
  <2> HIDE DEF portfolio
  <2>4. /\ DOMAIN portfolio = 1 .. Len(portfolio) /\ Len(portfolio) \in Nat
        /\ \A i \in DOMAIN portfolio : portfolio[i] \in PortfolioRows(R)
    BY <2>1
  <2>5. list \in Seq(Customers(R))
    BY <2>2, <2>4
  <2>6. IsInjective(list)
    BY <2>1, <2>2, <2>4 DEF IsInjective
  <2>7. ToSet(list) = Customers(R)
    <3>1. \A c \in Customers(R) : \E i \in DOMAIN portfolio : portfolio[i].customer = c
      BY <2>1, <2>2 DEF ToSet, Customers
    <3> QED BY <2>2, <2>4, <3>1 DEF ToSet
  <2> HIDE DEF list
  <2> QED BY <1>2, <2>3, <2>5, <2>6, <2>7 DEF Members, R
<1>3. CASE view # "portfolio"
  <2> DEFINE ledger == Ledger(R)
             list == [i \in DOMAIN ledger |-> ledger[i].id]
             ids == {r.id : r \in R}
  <2>1. ToSet(ledger) = R /\ IsInjective(ledger) /\ ledger \in Seq(R) /\ Len(ledger) = Cardinality(R)
    BY <1>1, LedgerCovers
  <2>2. \A r, s \in R : r.id = s.id => r = s
    BY <1>1 DEF Recorded
  <2>3. ListOf(All, view, f) = list
    BY <1>3 DEF ListOf, R
  <2> HIDE DEF ledger
  <2>4. /\ DOMAIN ledger = 1 .. Len(ledger) /\ Len(ledger) \in Nat
        /\ \A i \in DOMAIN ledger : ledger[i] \in R
    BY <2>1
  <2>5. list \in Seq(ids) /\ Len(list) = Len(ledger)
    BY <2>4
  <2>6. IsInjective(list)
    BY <2>1, <2>2, <2>4 DEF IsInjective
  <2>7. ToSet(list) = ids
    <3>1. \A r \in R : \E i \in DOMAIN ledger : ledger[i] = r
      BY <2>1 DEF ToSet
    <3> QED BY <2>4, <3>1 DEF ToSet
  <2> HIDE DEF list
  <2> QED BY <1>3, <2>1, <2>3, <2>5, <2>6, <2>7 DEF Members, R
<1> QED BY <1>2, <1>3

LEMMA LesserOfTwo ==
    ASSUME NEW a \in Int, NEW b \in Int
    PROVE  Min({a, b}) = IF a <= b THEN a ELSE b
  BY DEF Min

(* A page follows the one before it; the last page is the one that reaches *)
(* the end.                                                                *)
LEMMA PageArithmetic ==
    ASSUME NEW p \in Nat \ {0}, NEW n \in Nat
    PROVE  /\ Offset(p) \in Nat /\ Offset(1) = 0 /\ Offset(p + 1) = Offset(p) + PageSize
           /\ p < TotalPages(n) => Offset(p) + PageSize < n
           /\ p >= TotalPages(n) => n <= Offset(p) + PageSize
<1>1. PageSize \in Nat \ {0}
  BY FiguresAssumption
<1>2. Offset(1) = 0
  BY <1>1 DEF Offset
<1>3. Offset(p) \in Nat /\ Offset(p + 1) = Offset(p) + PageSize /\ Offset(p) + PageSize = p * PageSize
  BY <1>1 DEF Offset
<1>4. TotalPages(n) \in Int /\ TotalPages(n) * PageSize <= n + PageSize - 1
        /\ n + PageSize - 1 < TotalPages(n) * PageSize + PageSize
  BY <1>1 DEF TotalPages
<1>5. ASSUME p < TotalPages(n) PROVE Offset(p) + PageSize < n
  BY <1>1, <1>3, <1>4, <1>5
<1>6. ASSUME p >= TotalPages(n) PROVE n <= Offset(p) + PageSize
  BY <1>1, <1>3, <1>4, <1>6
<1> QED BY <1>2, <1>3, <1>5, <1>6

(* A page put behind the pages before it is the list up to its end.        *)
LEMMA SliceIsPart ==
    ASSUME NEW S, NEW list \in Seq(S), NEW p \in Nat \ {0}, Offset(p) <= Len(list)
    PROVE  LET to == IF Len(list) < Offset(p) + PageSize THEN Len(list) ELSE Offset(p) + PageSize
           IN  /\ to \in Offset(p) .. Len(list)
               /\ Slice(list, p) = SubSeq(list, Offset(p) + 1, to)
               /\ SubSeq(list, 1, Offset(p)) \o Slice(list, p) = SubSeq(list, 1, to)
<1> DEFINE from == Offset(p)
           n == Len(list)
           to == IF n < from + PageSize THEN n ELSE from + PageSize
<1>1. from \in Nat /\ n \in Nat /\ PageSize \in Nat
  BY PageArithmetic, FiguresAssumption
<1>2. Slice(list, p) = SubSeq(list, from + 1, Min({from + PageSize, n}))
  BY DEF Slice
<1> HIDE DEF from, n
<1>3. Min({from + PageSize, n}) = to
  BY <1>1, LesserOfTwo
<1>4. to \in from .. n /\ from \in 0 .. n
  BY <1>1 DEF from, n
<1> HIDE DEF to
<1>5. SubSeq(list, 1, from) \o SubSeq(list, from + 1, to) = SubSeq(list, 1, to)
  <2>1. 1 \in 1 .. Len(list) + 1 /\ from \in 1 - 1 .. Len(list) /\ to \in from .. Len(list)
    BY <1>1, <1>4 DEF n
  <2> QED BY <2>1, ConcatAdjacentSubSeq
<1> QED BY <1>2, <1>3, <1>4, <1>5 DEF from, n, to

(* A list up to a place and the next part of it have nothing in common and *)
(* make up the longer part.                                                *)
LEMMA RangeOfPart ==
    ASSUME NEW S, NEW list \in Seq(S), NEW m \in Nat \ {0}, NEW n \in Nat, n <= Len(list)
    PROVE  ToSet(SubSeq(list, m, n)) = {list[i] : i \in m .. n}
<1>1. \A i \in m .. n : list[i] \in S
  OBVIOUS
<1>2. /\ SubSeq(list, m, n) \in Seq(S)
      /\ Len(SubSeq(list, m, n)) = IF m <= n THEN n - m + 1 ELSE 0
      /\ \A i \in 1 .. n - m + 1 : SubSeq(list, m, n)[i] = list[m + i - 1]
  BY <1>1, SubSeqProperties
<1> DEFINE part == SubSeq(list, m, n)
<1> HIDE DEF part
<1>3. DOMAIN part = 1 .. n - m + 1 /\ \A j \in DOMAIN part : part[j] = list[m + j - 1]
  BY <1>2 DEF part
<1>4. \A i \in m .. n : \E j \in DOMAIN part : part[j] = list[i]
  <2> SUFFICES ASSUME NEW i \in m .. n PROVE \E j \in DOMAIN part : part[j] = list[i]
    OBVIOUS
  <2>1. i - m + 1 \in DOMAIN part /\ m + (i - m + 1) - 1 = i
    BY <1>3
  <2>2. part[i - m + 1] = list[m + (i - m + 1) - 1]
    BY <1>3, <2>1
  <2> QED BY <2>1, <2>2
<1>5. \A j \in DOMAIN part : \E i \in m .. n : part[j] = list[i]
  <2> SUFFICES ASSUME NEW j \in DOMAIN part PROVE \E i \in m .. n : part[j] = list[i]
    OBVIOUS
  <2>1. m + j - 1 \in m .. n /\ part[j] = list[m + j - 1]
    BY <1>3
  <2> QED BY <2>1
<1>6. ToSet(part) = {part[j] : j \in DOMAIN part}
  BY DEF ToSet
<1>7. {part[j] : j \in DOMAIN part} = {list[i] : i \in m .. n}
  BY <1>4, <1>5
<1> QED BY <1>6, <1>7 DEF part

LEMMA EarnedIsNatural ==
    ASSUME NEW R, Recorded(R), NEW S \in SUBSET R
    PROVE  /\ IsFiniteSet(S) /\ \A r \in S : Earned(r) \in Nat
  BY FS_Subset DEF Recorded, Earned

(* The commissions on the part of a list that is seen add up. *)
LEMMA CommissionsAddUp ==
    ASSUME NEW R, Recorded(R), NEW S, NEW list \in Seq(S), IsInjective(list),
           NEW a \in Nat, NEW b \in Nat, a <= b, b <= Len(list)
    PROVE  CommissionsIn(R, SubSeq(list, 1, b)) = CommissionsIn(R, SubSeq(list, 1, a)) + CommissionsIn(R, SubSeq(list, a + 1, b))
<1> DEFINE with(ids) == {r \in R : r.id \in ids}
           all == {list[i] : i \in 1 .. b}
           seen == {list[i] : i \in 1 .. a}
           new == {list[i] : i \in a + 1 .. b}
           f == [r \in with(all) |-> Earned(r)]
<1>1. ToSet(SubSeq(list, 1, b)) = all /\ ToSet(SubSeq(list, 1, a)) = seen /\ ToSet(SubSeq(list, a + 1, b)) = new
  BY RangeOfPart
<1>2. all = seen \cup new /\ seen \cap new = {}
  <2>1. 1 .. b = (1 .. a) \cup (a + 1 .. b)
    OBVIOUS
  <2>2. all = seen \cup new
    BY <2>1
  <2>3. \A i \in 1 .. a : \A j \in a + 1 .. b : list[i] # list[j]
    BY DEF IsInjective
  <2> QED BY <2>2, <2>3
<1> HIDE DEF all, seen, new
<1>3. /\ CommissionsIn(R, SubSeq(list, 1, b)) = SumFunction(f)
      /\ CommissionsIn(R, SubSeq(list, 1, a)) = SumFunction([r \in with(seen) |-> Earned(r)])
      /\ CommissionsIn(R, SubSeq(list, a + 1, b)) = SumFunction([r \in with(new) |-> Earned(r)])
  BY <1>1 DEF CommissionsIn, Total
<1>4. IsFiniteSet(DOMAIN f) /\ DOMAIN f = with(all) /\ \A r \in DOMAIN f : f[r] \in Nat
  BY EarnedIsNatural
<1>5. with(seen) \in SUBSET DOMAIN f /\ DOMAIN f \ with(seen) = with(new)
  BY <1>2, <1>4
<1>6. /\ [r \in with(seen) |-> f[r]] = [r \in with(seen) |-> Earned(r)]
      /\ [r \in with(new) |-> f[r]] = [r \in with(new) |-> Earned(r)]
  BY <1>2
<1> HIDE DEF f, with
<1>7. SumFunction(f) = SumFunction([r \in with(seen) |-> f[r]]) + SumFunction([r \in DOMAIN f \ with(seen) |-> f[r]])
  BY <1>4, <1>5, SumOfPart
<1> QED BY <1>3, <1>5, <1>6, <1>7

LEMMA NoCommissions == ASSUME NEW R, Recorded(R) PROVE CommissionsIn(R, <<>>) = 0
<1> DEFINE f == [r \in {} |-> Earned(r)]
<1>1. CommissionsIn(R, <<>>) = SumFunction(f)
  <2>1. {r \in R : r.id \in ToSet(<<>>)} = {}
    BY DEF ToSet
  <2> QED BY <2>1 DEF CommissionsIn, Total
<1>2. Units(f) = {} /\ DOMAIN f = {}
  BY DEF Units
<1> HIDE DEF f
<1>3. SumFunction(f) = Cardinality({})
  BY <1>2, SumCounts, FS_EmptySet
<1> QED BY <1>1, <1>3, FS_EmptySet

(* A list that shows all that matches earns all of its commissions.        *)
LEMMA CommissionsOfAll ==
    ASSUME NEW R, Recorded(R), NEW f, NEW list, ToSet(list) = {r.id : r \in Among(R, f)}
    PROVE  CommissionsIn(R, list) = AllCommissions(R, f)
<1>1. {r \in R : r.id \in ToSet(list)} = Among(R, f)
  BY DEF Among, Recorded
<1> QED BY <1>1 DEF CommissionsIn, AllCommissions

(* A reader has a page of a list it asked for, or asks for, or is closed.  *)
ReaderFields == {"at", "view", "filter", "page", "todo", "total", "seen", "promised", "earned", "quiet"}
ReaderTyped(rd) ==
    /\ DOMAIN rd = ReaderFields /\ rd = [x \in ReaderFields |-> rd[x]]
    /\ rd.at \in {"closed", "loading", "shown"} /\ rd.view \in Lists
    /\ rd.page \in Nat \ {0} /\ rd.total \in Nat
    /\ rd.todo \subseteq Queries(rd.view) /\ (rd.at = "shown" => rd.todo = {})
    /\ rd.at = "closed" => rd = Closed

(* Where a reader is while nothing disturbs it: it has seen the list up to  *)
(* the page it asks for, or up to the end of the page it was given, and it  *)
(* knows the list's length, and its commissions, once they were counted.    *)
Waits(rd) == rd.todo \cap {"items", "both"} # {}
Counted(rd) == rd.page > 1 \/ rd.todo \cap {"count", "both"} = {}
PageEnd(rd, n) == IF n < Offset(rd.page) + PageSize THEN n ELSE Offset(rd.page) + PageSize
Quietly(R, rd) ==
    rd.quiet /\ rd.at # "closed" =>
      LET list == ListOf(R, rd.view, rd.filter)
      IN  /\ Offset(rd.page) <= Len(list)
          /\ rd.seen = SubSeq(list, 1, IF Waits(rd) THEN Offset(rd.page) ELSE PageEnd(rd, Len(list)))
          /\ Counted(rd) => rd.total = Len(list)
          /\ rd.view # "commissions" => rd.earned = 0 /\ rd.promised = 0
          /\ rd.view = "commissions" => rd.earned = CommissionsIn(R, rd.seen)
          /\ rd.view = "commissions" /\ Counted(rd) => rd.promised = AllCommissions(R, rd.filter)
(* The inductive invariant of the lists.                                   *)
ReaderInv == Recorded(records) /\ ReaderTyped(reader) /\ Quietly(records, reader)

LEMMA ListIsSeq ==
    ASSUME NEW R, Recorded(R), NEW view, NEW f
    PROVE  LET list == ListOf(R, view, f)
           IN  list \in Seq(Members(R, view, f)) /\ Len(list) \in Nat /\ IsInjective(list)
  BY ListCovers

LEMMA EveryListIsAsked ==
    \A view \in Lists : /\ Queries(view) \cap {"items", "both"} # {} /\ Queries(view) \cap {"count", "both"} # {}
  BY DEF Queries

(* Opening a list, turning its page, answering one of its queries, closing *)
(* it and disturbing it each keep to where a reader is.                    *)
LEMMA OpenQuietly ==
    ASSUME ReaderInv, Open
    PROVE  ReaderTyped(reader') /\ Quietly(records, reader')
<1>1. PICK v \in Lists, f \in Types \cup {"all"} :
        reader' = [Closed EXCEPT !.at = "loading", !.view = v, !.filter = f, !.todo = Queries(v)]
  BY DEF Open
<1> DEFINE rd == reader'
           list == ListOf(records, v, f)
<1>2. /\ rd = [at |-> "loading", view |-> v, filter |-> f, page |-> 1, todo |-> Queries(v),
               total |-> 0, seen |-> <<>>, promised |-> 0, earned |-> 0, quiet |-> TRUE]
  BY <1>1 DEF Closed
<1>9. /\ rd.at = "loading" /\ rd.view = v /\ rd.filter = f /\ rd.page = 1 /\ rd.todo = Queries(v) /\ rd.total = 0
      /\ rd.seen = <<>> /\ rd.earned = 0 /\ rd.promised = 0 /\ rd.quiet = TRUE
      /\ DOMAIN rd = ReaderFields /\ rd = [x \in ReaderFields |-> rd[x]]
  BY <1>2 DEF ReaderFields
<1> HIDE DEF rd
<1>3. Waits(rd) /\ ~ Counted(rd)
  BY <1>9, EveryListIsAsked DEF Waits, Counted
<1>4. ReaderTyped(rd)
  BY <1>9 DEF ReaderTyped
<1>5. Len(list) \in Nat /\ Offset(1) = 0
  BY ListIsSeq, PageArithmetic DEF ReaderInv
<1>6. SubSeq(list, 1, 0) = <<>>
  BY SubSeqEmpty
<1>7. CommissionsIn(records, <<>>) = 0
  BY NoCommissions DEF ReaderInv
<1>8. Quietly(records, rd)
  <2>1. rd.view = v /\ rd.filter = f /\ rd.page = 1 /\ rd.seen = <<>> /\ rd.earned = 0 /\ rd.promised = 0
    BY <1>9
  <2>2. Offset(rd.page) <= Len(list) /\ rd.seen = SubSeq(list, 1, Offset(rd.page))
    BY <1>5, <1>6, <2>1
  <2> HIDE DEF list
  <2> QED BY <1>3, <1>7, <2>1, <2>2 DEF Quietly, list
<1> QED BY <1>4, <1>8 DEF rd

LEMMA TurnQuietly ==
    ASSUME ReaderInv, Turn
    PROVE  ReaderTyped(reader') /\ Quietly(records, reader')
<1> DEFINE rd == reader'
           list == ListOf(records, reader.view, reader.filter)
<1>1. /\ reader.at = "shown" /\ reader.page < TotalPages(reader.total)
      /\ rd = [reader EXCEPT !.page = @ + 1, !.at = "loading", !.todo = Queries(reader.view)]
  BY DEF Turn
<1>2. /\ rd.at = "loading" /\ rd.page = reader.page + 1 /\ rd.todo = Queries(reader.view)
      /\ rd.view = reader.view /\ rd.filter = reader.filter /\ rd.total = reader.total /\ rd.seen = reader.seen
      /\ rd.earned = reader.earned /\ rd.promised = reader.promised /\ rd.quiet = reader.quiet
      /\ DOMAIN rd = ReaderFields /\ rd = [x \in ReaderFields |-> rd[x]]
      /\ reader.page \in Nat \ {0} /\ reader.todo = {} /\ reader.total \in Nat
  BY <1>1 DEF ReaderInv, ReaderTyped, ReaderFields
<1> HIDE DEF rd
<1>3. ReaderTyped(rd)
  BY <1>2 DEF ReaderInv, ReaderTyped
<1>4. ASSUME reader.quiet PROVE Quietly(records, rd)
  <2>1. ~ Waits(reader) /\ Counted(reader) /\ Waits(rd) /\ Counted(rd)
    BY <1>2, EveryListIsAsked DEF Waits, Counted, ReaderInv, ReaderTyped
  <2>2. /\ Offset(reader.page) <= Len(list)
        /\ reader.seen = SubSeq(list, 1, PageEnd(reader, Len(list))) /\ reader.total = Len(list)
        /\ reader.view # "commissions" => reader.earned = 0 /\ reader.promised = 0
        /\ reader.view = "commissions" => /\ reader.earned = CommissionsIn(records, reader.seen)
                                          /\ reader.promised = AllCommissions(records, reader.filter)
    BY <1>1, <1>4, <2>1 DEF ReaderInv, Quietly
  <2> HIDE DEF list
  <2>3. Offset(reader.page) + PageSize < Len(list) /\ Offset(rd.page) = Offset(reader.page) + PageSize
    BY <1>1, <1>2, <2>2, PageArithmetic
  <2>4. Len(list) \in Nat /\ Offset(reader.page) \in Nat /\ PageSize \in Nat
    BY <1>2, <2>2, PageArithmetic, FiguresAssumption
  <2>5. PageEnd(reader, Len(list)) = Offset(rd.page) /\ Offset(rd.page) <= Len(list)
    BY <2>3, <2>4 DEF PageEnd
  <2> QED BY <1>2, <2>1, <2>2, <2>5 DEF Quietly, list
<1>5. ASSUME ~ reader.quiet PROVE Quietly(records, rd)
  BY <1>2, <1>5 DEF Quietly
<1>6. Quietly(records, rd)
  BY <1>4, <1>5
<1> QED BY <1>3, <1>6 DEF rd

LEMMA QueryQuietly ==
    ASSUME ReaderInv, NEW q, Query(q)
    PROVE  ReaderTyped(reader') /\ Quietly(records, reader')
<1> DEFINE rd == reader'
           list == ListOf(records, reader.view, reader.filter)
           n == Len(list)
           left == reader.todo \ {q}
           slice == Slice(list, reader.page)
<1>1. /\ reader.at = "loading" /\ q \in reader.todo
      /\ rd = [reader EXCEPT !.todo = left,
            !.at = IF left = {} THEN "shown" ELSE "loading",
            !.total = IF q = "items" THEN @ ELSE IF reader.view = "commissions"
                      THEN Cardinality(Among(records, reader.filter)) ELSE n,
            !.promised = IF q = "count" /\ reader.view = "commissions" /\ reader.quiet
                         THEN AllCommissions(records, reader.filter) ELSE @,
            !.earned = IF q = "items" /\ reader.view = "commissions" /\ reader.quiet
                       THEN @ + CommissionsIn(records, slice) ELSE @,
            !.seen = IF q # "count" /\ reader.quiet THEN @ \o slice ELSE @]
  BY ListedIn DEF Query
<1> HIDE DEF list, slice
<1>2. n \in Nat /\ IsInjective(list) /\ reader.page \in Nat \ {0} /\ reader.view \in Lists
  BY ListIsSeq DEF ReaderInv, ReaderTyped, list
<1>3. reader.view # "portfolio" => n = Cardinality(Among(records, reader.filter))
  BY ListCovers DEF ReaderInv, list
<1>4. /\ rd.page = reader.page /\ rd.view = reader.view /\ rd.filter = reader.filter /\ rd.quiet = reader.quiet
      /\ rd.todo = left /\ rd.at = (IF left = {} THEN "shown" ELSE "loading")
      /\ rd.total = IF q = "items" THEN reader.total ELSE n
      /\ DOMAIN rd = ReaderFields /\ rd = [x \in ReaderFields |-> rd[x]]
  BY <1>1, <1>3 DEF ReaderInv, ReaderTyped, ReaderFields
<1>5. ASSUME reader.quiet
      PROVE  /\ rd.promised = IF q = "count" /\ reader.view = "commissions"
                              THEN AllCommissions(records, reader.filter) ELSE reader.promised
             /\ rd.earned = IF q = "items" /\ reader.view = "commissions"
                            THEN reader.earned + CommissionsIn(records, slice) ELSE reader.earned
             /\ rd.seen = IF q # "count" THEN reader.seen \o slice ELSE reader.seen
  BY <1>1, <1>5 DEF ReaderInv, ReaderTyped, ReaderFields
<1> HIDE DEF rd
<1>6. q \in IF reader.view = "portfolio" THEN {"both"} ELSE {"items", "count"}
  BY <1>1 DEF ReaderInv, ReaderTyped, Queries
<1>7. ReaderTyped(rd)
  BY <1>2, <1>4 DEF ReaderInv, ReaderTyped
<1>8. ASSUME reader.quiet PROVE Quietly(records, rd)
  <2> DEFINE from == Offset(reader.page)
             to == PageEnd(reader, n)
  <2>1. /\ from <= n
        /\ reader.seen = SubSeq(list, 1, IF Waits(reader) THEN from ELSE to)
        /\ Counted(reader) => reader.total = n
        /\ reader.view # "commissions" => reader.earned = 0 /\ reader.promised = 0
        /\ reader.view = "commissions" => reader.earned = CommissionsIn(records, reader.seen)
        /\ reader.view = "commissions" /\ Counted(reader) =>
             reader.promised = AllCommissions(records, reader.filter)
    BY <1>1, <1>8 DEF ReaderInv, Quietly, list
  <2>2. from \in Nat
    BY <1>2, PageArithmetic
  <2>3. /\ to \in from .. n /\ slice = SubSeq(list, from + 1, to)
        /\ SubSeq(list, 1, from) \o slice = SubSeq(list, 1, to)
    <3>1. list \in Seq(Members(records, reader.view, reader.filter))
      BY ListIsSeq DEF ReaderInv, list
    <3> QED BY <1>2, <2>1, <3>1, SliceIsPart DEF PageEnd, slice
  <2>4. Offset(rd.page) = from /\ PageEnd(rd, n) = to
    BY <1>4 DEF PageEnd
  <2> HIDE DEF from, to
  <2>5. CASE q = "count"
    <3>1. Waits(rd) <=> Waits(reader)
      BY <1>4, <2>5 DEF Waits
    <3>2. reader.view # "portfolio" /\ rd.seen = reader.seen /\ rd.earned = reader.earned /\ rd.total = n
      BY <1>4, <1>5, <1>6, <1>8, <2>5
    <3>3. rd.promised = IF reader.view = "commissions" THEN AllCommissions(records, reader.filter) ELSE reader.promised
      BY <1>5, <1>8, <2>5
    <3> QED BY <1>4, <2>1, <2>4, <3>1, <3>2, <3>3 DEF Quietly, list, from, to
  <2>6. CASE q = "items" \/ q = "both"
    <3>1. Waits(reader) /\ ~ Waits(rd)
      <4>1. q \in reader.todo
        BY <1>1
      <4>2. reader.todo \subseteq IF reader.view = "portfolio" THEN {"both"} ELSE {"items", "count"}
        BY DEF ReaderInv, ReaderTyped, Queries
      <4>3. left \cap {"items", "both"} = {}
        BY <1>6, <2>6, <4>1, <4>2
      <4> QED BY <1>4, <2>6, <4>1, <4>3 DEF Waits
    <3>2. reader.seen = SubSeq(list, 1, from) /\ rd.seen = SubSeq(list, 1, to)
      BY <1>5, <1>8, <2>1, <2>3, <2>6, <3>1
    <3>3. Counted(rd) => rd.total = n
      BY <1>4, <2>1, <2>6 DEF Counted
    <3>4. reader.view # "commissions" => rd.earned = 0 /\ rd.promised = 0
      BY <1>5, <1>8, <2>1, <2>6
    <3>5. ASSUME reader.view = "commissions"
          PROVE  /\ rd.earned = CommissionsIn(records, rd.seen)
                 /\ Counted(rd) => rd.promised = AllCommissions(records, reader.filter)
      <4>1. q = "items"
        BY <1>6, <2>6, <3>5
      <4>2. /\ rd.earned = CommissionsIn(records, SubSeq(list, 1, from)) + CommissionsIn(records, SubSeq(list, from + 1, to))
            /\ rd.promised = reader.promised
        BY <1>5, <1>8, <2>1, <2>3, <3>2, <3>5, <4>1
      <4>3. CommissionsIn(records, SubSeq(list, 1, to))
              = CommissionsIn(records, SubSeq(list, 1, from)) + CommissionsIn(records, SubSeq(list, from + 1, to))
        <5>1. list \in Seq(Members(records, reader.view, reader.filter))
          BY ListIsSeq DEF ReaderInv, list
        <5>2. to \in Nat /\ from <= to /\ to <= Len(list)
          BY <1>2, <2>2, <2>3
        <5> QED BY <1>2, <2>2, <5>1, <5>2, CommissionsAddUp DEF ReaderInv
      <4>4. Counted(rd) => Counted(reader)
        BY <1>4, <4>1 DEF Counted
      <4> QED BY <2>1, <3>2, <3>5, <4>2, <4>3, <4>4
    <3> QED BY <1>4, <2>1, <2>4, <3>1, <3>2, <3>3, <3>4, <3>5 DEF Quietly, list, from, to
  <2> QED BY <1>6, <2>5, <2>6
<1>9. ASSUME ~ reader.quiet PROVE Quietly(records, rd)
  BY <1>4, <1>9 DEF Quietly
<1>10. Quietly(records, rd)
  BY <1>8, <1>9
<1> QED BY <1>7, <1>10 DEF rd

LEMMA ClosedQuietly == ReaderTyped(Closed) /\ \A R : Quietly(R, Closed)
<1>1. ReaderTyped(Closed)
  BY FiguresAssumption DEF ReaderTyped, Closed, ReaderFields, Lists
<1>2. Closed.at = "closed"
  BY DEF Closed
<1> QED BY <1>1, <1>2 DEF Quietly

LEMMA DisturbedQuietly ==
    ASSUME ReaderTyped(reader)
    PROVE  ReaderTyped(Disturbed) /\ \A R : Quietly(R, Disturbed)
<1>1. CASE reader.at = "closed"
  <2>1. reader = Closed
    BY <1>1 DEF ReaderTyped
  <2>2. (reader.at = "closed") = TRUE
    BY <1>1
  <2>3. Disturbed = [reader EXCEPT !.quiet = TRUE, !.seen = <<>>, !.promised = 0, !.earned = 0]
    BY <2>2, Zenon DEF Disturbed
  <2>4. Disturbed = Closed
    BY <2>1, <2>3 DEF Closed
  <2> QED BY <2>4, ClosedQuietly
<1>2. CASE reader.at # "closed"
  <2>1. ReaderTyped(Disturbed)
    BY <1>2 DEF ReaderTyped, Disturbed, ReaderFields
  <2>2. Disturbed.quiet = FALSE
    BY <1>2 DEF ReaderTyped, Disturbed, ReaderFields
  <2> QED BY <2>1, <2>2 DEF Quietly
<1> QED BY <1>1, <1>2

LEMMA ReaderStays ==
    ASSUME ReaderInv, [Next]_vars
    PROVE  ReaderInv'
<1>1. Recorded(records')
  BY RecordsStayRecorded DEF ReaderInv
<1>2. ReaderTyped(reader') /\ Quietly(records', reader')
  <2>1. CASE Open
    BY <2>1, OpenQuietly DEF Open
  <2>2. CASE \E q \in {"items", "count", "both"} : Query(q)
    BY <2>2, QueryQuietly DEF Query
  <2>3. CASE Turn
    BY <2>3, TurnQuietly DEF Turn
  <2>4. CASE Close
    BY <2>4, ClosedQuietly DEF Close
  <2>5. CASE Post \/ DeleteRecord \/ DeleteCustomer
    BY <2>5, DisturbedQuietly DEF Post, DeleteRecord, DeleteCustomer, ReaderInv
  <2>6. CASE UNCHANGED <<records, reader>>
    BY <2>6 DEF ReaderInv
  <2> QED BY <2>1, <2>2, <2>3, <2>4, <2>5, <2>6 DEF Next, vars
<1> QED BY <1>1, <1>2 DEF ReaderInv

(* A reader that has turned to the last page has read the whole list.      *)
LEMMA QuietReaderCovers == ASSUME ReaderInv PROVE QuietPagesCover
<1> SUFFICES ASSUME reader.at = "shown", reader.quiet, reader.page >= TotalPages(reader.total)
             PROVE  /\ IsInjective(reader.seen)
                    /\ ToSet(reader.seen) = IF reader.view = "portfolio"
                         THEN Customers(Matching(reader.filter)) ELSE {r.id : r \in Matching(reader.filter)}
                    /\ reader.earned = reader.promised
                    /\ reader.total = Len(reader.seen)
  BY DEF QuietPagesCover
<1> DEFINE list == ListOf(records, reader.view, reader.filter)
<1>1. /\ list \in Seq(Members(records, reader.view, reader.filter)) /\ Len(list) \in Nat
      /\ IsInjective(list) /\ ToSet(list) = Members(records, reader.view, reader.filter)
  BY ListCovers DEF ReaderInv
<1>2. reader.page \in Nat \ {0} /\ ~ Waits(reader) /\ Counted(reader)
  BY DEF ReaderInv, ReaderTyped, Waits, Counted
<1>3. /\ reader.seen = SubSeq(list, 1, PageEnd(reader, Len(list))) /\ reader.total = Len(list)
      /\ reader.view # "commissions" => reader.earned = 0 /\ reader.promised = 0
      /\ reader.view = "commissions" => /\ reader.earned = CommissionsIn(records, reader.seen)
                                        /\ reader.promised = AllCommissions(records, reader.filter)
  BY <1>2 DEF ReaderInv, Quietly
<1> HIDE DEF list
<1>4. Len(list) <= Offset(reader.page) + PageSize /\ Offset(reader.page) \in Nat /\ PageSize \in Nat
  BY <1>1, <1>2, <1>3, PageArithmetic, FiguresAssumption
<1>5. PageEnd(reader, Len(list)) = Len(list)
  BY <1>1, <1>4 DEF PageEnd
<1>6. reader.seen = list
  BY <1>1, <1>3, <1>5, SubSeqFull
<1>7. Matching(reader.filter) = Among(records, reader.filter)
  BY DEF Matching, Among
<1>8. ASSUME reader.view = "commissions" PROVE reader.earned = reader.promised
  <2>1. ToSet(list) = {r.id : r \in Among(records, reader.filter)}
    BY <1>1, <1>8 DEF Members
  <2>2. CommissionsIn(records, list) = AllCommissions(records, reader.filter)
    BY <1>1, <2>1, CommissionsOfAll DEF ReaderInv
  <2> QED BY <1>3, <1>6, <1>8, <2>2
<1> QED BY <1>1, <1>3, <1>6, <1>7, <1>8 DEF Members

(* Whatever the page size, the list and the records, and however often     *)
(* they change before: whoever reads a list to its end undisturbed has     *)
(* seen each of its members once.                                          *)
THEOREM QuietPagesCoverAll == Spec => []QuietPagesCover
<1>1. Init => ReaderInv
  BY ClosedQuietly, FS_EmptySet DEF Init, ReaderInv, Recorded
<1>2. ReaderInv /\ [Next]_vars => ReaderInv'
  BY ReaderStays
<1>3. ReaderInv => QuietPagesCover
  BY QuietReaderCovers
<1> QED BY <1>1, <1>2, <1>3, PTL DEF Spec
=============================================================================

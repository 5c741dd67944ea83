------------------------------ MODULE CsvText ------------------------------
(***************************************************************************)
(* From the text of a CSV file to the records that are posted: the text is *)
(* cut into lines and these into cells, headers name columns, cells are    *)
(* read as values, rows that fail a check are invalid, and the importer    *)
(* fills what is missing.                                                  *)
(* A character is a string.  Once cut, a header is its normalised name and *)
(* a cell what the normalisers look for in it: words, a number in tenths,  *)
(* or a date as it is written.                                             *)
(***************************************************************************)
EXTENDS Integers, SequencesExt

CONSTANTS
    Cells,     \* texts of cells to be written and read back, trimmed
    Rows,      \* rows as sequences of [header, cell], after the cutting
    Null

ASSUME RowAssumption ==
    \A row \in Rows : /\ Len(row) \in Nat /\ DOMAIN row = 1 .. Len(row)
                      /\ \A i \in DOMAIN row : row[i].cell.text # Null
Dates == [form : {"short", "iso"}, year : 0 .. 2050, month : 1 .. 12, day : 1 .. 31]

ASSUME NullAssumption == "" # Null /\ Null \notin Dates

VARIABLE file  \* what is being read, one thing at a time: two cells on a line,
               \* a day, or the cells of a row

Quote == "\""
Comma == ","
Blank == " "
NewLine == "\n"
Trimmed(s) == s = <<>> \/ (s[1] # Blank /\ s[Len(s)] # Blank)
ASSUME CellsAssumption == \A c \in Cells : c \in Seq(STRING) /\ Trimmed(c)

Trim(s) ==
    LET solid == {i \in DOMAIN s : s[i] # Blank}
    IN IF solid = {} THEN <<>> ELSE SubSeq(s, Min(solid), Max(solid))

(* Mutant: two quotes inside quotes end and begin a quotation. *)
ReadingNaively(line, s, i) ==
    IF line[i] = Quote THEN [s EXCEPT !.quoted = ~@]
    ELSE IF line[i] = Comma /\ ~s.quoted THEN [s EXCEPT !.cells = Append(@, Trim(s.cell)), !.cell = <<>>]
    ELSE [s EXCEPT !.cell = Append(@, line[i])]

(* parseCsvLine: one pass over the line; inside quotes a comma is text and *)
(* two quotes are one.                                                     *)
Reading(line, s, i) ==
    LET doubled == i < Len(line) /\ line[i + 1] = Quote IN
    IF s.skip THEN [s EXCEPT !.skip = FALSE]
    ELSE IF line[i] = Quote /\ s.quoted /\ doubled
    THEN [s EXCEPT !.cell = Append(@, Quote), !.skip = TRUE]
    ELSE IF line[i] = Quote THEN [s EXCEPT !.quoted = ~@]
    ELSE IF line[i] = Comma /\ ~s.quoted THEN [s EXCEPT !.cells = Append(@, Trim(s.cell)), !.cell = <<>>]
    ELSE [s EXCEPT !.cell = Append(@, line[i])]
Unread == [cells |-> <<>>, cell |-> <<>>, quoted |-> FALSE, skip |-> FALSE]
Read(line) ==
    LET read[i \in 0 .. Len(line)] == IF i = 0 THEN Unread ELSE Reading(line, read[i - 1], i)
    IN read[Len(line)]
ParseLine(line) == Append(Read(line).cells, Trim(Read(line).cell))

(* The text is cut at every line break, whether quotes are open or not; a  *)
(* carriage return is one more blank at the end of a line.                 *)
Breaking(s, character) ==
    IF character = NewLine THEN [lines |-> Append(s.lines, s.line), line |-> <<>>]
    ELSE [s EXCEPT !.line = Append(@, character)]
Lines(content) ==
    LET broken[i \in 0 .. Len(content)] ==
          IF i = 0 THEN [lines |-> <<>>, line |-> <<>>] ELSE Breaking(broken[i - 1], content[i])
    IN Append(broken[Len(content)].lines, broken[Len(content)].line)

(* parseCsv: empty lines do not count, nor do they have a number; the      *)
(* first line names the columns, and cells that are missing are empty.     *)
Kept(lines) ==
    LET kept[i \in 0 .. Len(lines)] ==
          IF i = 0 THEN <<>>
          ELSE IF Trim(lines[i]) = <<>> THEN kept[i - 1] ELSE Append(kept[i - 1], Trim(lines[i]))
    IN kept[Len(lines)]
ParseCsv(content) ==
    LET kept == Kept(Lines(content))
        headers == ParseLine(Head(kept))
        cells(i) == ParseLine(kept[i])
        column(h) == Max({j \in DOMAIN headers : headers[j] = h})
    IN IF kept = <<>> THEN <<>> ELSE
       [i \in 1 .. Len(kept) - 1 |->
          [number |-> i + 1,
           values |-> [h \in ToSet(headers) |->
              IF column(h) \in DOMAIN cells(i + 1) THEN cells(i + 1)[column(h)] ELSE <<>>]]]

-----------------------------------------------------------------------------
HEADER_ALIASES ==
    [investment_id |-> "investment_reference", user_id |-> "customer_id",
     amout |-> "investment_amount", amount |-> "investment_amount", tenure |-> "tenor_days",
     creation_date |-> "mobilisation_date", maturiry_date |-> "maturity_date",
     customer_class |-> "customer_type", funds_class |-> "fund_type",
     act_officer |-> "relationship_manager", channel |-> "source_channel"]
Column(h) == IF h \in DOMAIN HEADER_ALIASES THEN HEADER_ALIASES[h] ELSE h

Empty == [text |-> "", words |-> {}, number |-> Null, date |-> Null]

(* Of two headers for one column, the later has its way.                   *)
Normalized(row) ==
    LET of(c) == {i \in DOMAIN row : Column(row[i].header) = c}
    IN [c \in {Column(row[i].header) : i \in DOMAIN row} |-> row[Max(of(c))].cell]
Value(values, column) == IF column \in DOMAIN values THEN values[column] ELSE Empty

CustomerType(cell) ==
    IF cell.words \cap {"ntb", "new"} # {} THEN "new"
    ELSE IF cell.words \cap {"retn", "return"} # {} THEN "returning" ELSE Null
Money(cell) == cell.number
FundType(cell, inflow, rollover) ==
    LET positive(amount) == amount # Null /\ amount > 0 IN
    IF "infl" \in cell.words THEN "inflow"
    ELSE IF cell.words \cap {"retn", "roll"} # {} THEN "rollover"
    ELSE IF positive(Money(inflow)) THEN "inflow"
    ELSE IF positive(Money(rollover)) THEN "rollover" ELSE Null

(* parsePositiveInteger rounds after it has looked at the sign.            *)
Days(cell) == IF cell.number = Null \/ cell.number <= 0 THEN Null ELSE (cell.number + 5) \div 10
Date(cell) ==
    IF cell.date = Null THEN Null
    ELSE IF cell.date.form # "short" THEN <<cell.date.year, cell.date.month, cell.date.day>>
    ELSE <<(IF cell.date.year <= 50 THEN 2000 ELSE 1900) + cell.date.year, cell.date.month, cell.date.day>>
Fund(v) == FundType(Value(v, "fund_type"), Value(v, "inflow"), Value(v, "rollover"))

(* Mutant: the upper bound of the first band is left out. *)
ClassifyBelow(days) ==
    CASE days \in 30 .. 119  -> "short_term"
      [] days \in 150 .. 210 -> "mid_short_term"
      [] days \in 240 .. 360 -> "medium_term"
      [] days \in 390 .. 480 -> "long_term"
      [] OTHER -> "unclassified"

(* Tenor categories, hard-coded in the workers and the API, and the bands  *)
(* that 0008 seeds; a tenor between two bands is in none.                  *)
Classify(days) ==
    CASE days \in 30 .. 120  -> "short_term"
      [] days \in 150 .. 210 -> "mid_short_term"
      [] days \in 240 .. 360 -> "medium_term"
      [] days \in 390 .. 480 -> "long_term"
      [] OTHER -> "unclassified"
TenorBands == {[code |-> "short_term", from |-> 30, to |-> 120],
               [code |-> "mid_short_term", from |-> 150, to |-> 210],
               [code |-> "medium_term", from |-> 240, to |-> 360],
               [code |-> "long_term", from |-> 390, to |-> 480]}
Categories == {b.code : b \in TenorBands} \cup {"unclassified"}
ASSUME CategoryAssumption == Null \notin Categories

(* Mutant: a fund that cannot be read is not a failure. *)
FailuresButFund(v) ==
    LET given(c) == Value(v, c).text # ""
        unread == [customer_type |-> CustomerType(Value(v, "customer_type")),
                   tenor_days |-> Days(Value(v, "tenor_days")),
                   investment_amount |-> Money(Value(v, "investment_amount")),
                   mobilisation_date |-> Date(Value(v, "mobilisation_date")),
                   maturity_date |-> Date(Value(v, "maturity_date"))]
    IN {<<c, "required">> : c \in {d \in {"customer_id", "mobilisation_date", "investment_amount",
                                          "fund_type", "tenor_days"} : ~given(d)}}
       \cup {<<c, "invalid">> : c \in {d \in DOMAIN unread : given(d) /\ unread[d] = Null}}

Failures(v) ==
    LET given(c) == Value(v, c).text # ""
        unread == [customer_type |-> CustomerType(Value(v, "customer_type")), fund_type |-> Fund(v),
                   tenor_days |-> Days(Value(v, "tenor_days")),
                   investment_amount |-> Money(Value(v, "investment_amount")),
                   mobilisation_date |-> Date(Value(v, "mobilisation_date")),
                   maturity_date |-> Date(Value(v, "maturity_date"))]
    IN {<<c, "required">> : c \in {d \in {"customer_id", "mobilisation_date", "investment_amount",
                                          "fund_type", "tenor_days"} : ~given(d)}}
       \cup {<<c, "invalid">> : c \in {d \in DOMAIN unread : given(d) /\ unread[d] = Null}}

(* What is staged of a row, and what the importer posts of a staged row.   *)
(* Reference, channel, maturity date and cost of funds, which it passes on *)
(* as they are, are left out.                                              *)
Staged(v) ==
    LET text(c) == IF Value(v, c).text = "" THEN Null ELSE Value(v, c).text
        days == Days(Value(v, "tenor_days"))
    IN [customer |-> text("customer_id"), name |-> text("customer_name"),
        type |-> CustomerType(Value(v, "customer_type")), fund |-> Fund(v),
        days |-> days, category |-> IF days \in {Null, 0} THEN Null ELSE Classify(days),
        date |-> Date(Value(v, "mobilisation_date")), amount |-> Money(Value(v, "investment_amount")),
        currency |-> IF text("currency") = Null THEN "NGN" ELSE text("currency"),
        manager |-> text("relationship_manager")]
Imported(s) ==
    LET or(x, default) == IF x = Null THEN default ELSE x IN
    [s EXCEPT !.customer = or(@, "unknown"), !.name = or(@, "Unknown Customer"),
              !.type = or(@, "returning"), !.fund = or(@, "inflow"), !.days = or(@, 30),
              !.category = or(@, "unclassified"), !.date = or(@, "today"), !.amount = or(@, 0)]

-----------------------------------------------------------------------------
Nothing == [kind |-> "none"]
Upload ==
    /\ file = Nothing
    /\ \/ \E c, d \in Cells, sparing \in BOOLEAN :
            file' = [kind |-> "line", cells |-> <<c, d>>, sparing |-> sparing]
       \/ \E year \in 1951 .. 2050 : file' = [kind |-> "day", year |-> year]
       \/ \E row \in Rows : file' = [kind |-> "row", row |-> row]
Finish == file # Nothing /\ file' = Nothing

(* What a spreadsheet program writes, quoting each cell or only those that *)
(* need it.                                                                *)
Written(c, sparing) ==
    IF sparing /\ {Quote, Comma, NewLine} \cap ToSet(c) = {} THEN c
    ELSE <<Quote>> \o FlattenSeq([i \in DOMAIN c |-> IF c[i] = Quote THEN <<Quote, Quote>> ELSE <<c[i]>>])
         \o <<Quote>>

FirstOfFebruary(form, year) ==
    [Empty EXCEPT !.date = [form |-> form, year |-> year, month |-> 2, day |-> 1]]

(* Cells are read back as they were written, whatever quotes, commas and   *)
(* blanks they hold, and with empty lines around; a day written with two   *)
(* digits of the year is the day written with four.  Of a cell with a line *)
(* break nothing is said: the code cuts it in two.                         *)
CellsReadBack ==
    /\ file.kind = "line" /\ (\A i \in 1 .. 2 : NewLine \notin ToSet(file.cells[i])) =>
         LET cell(i) == Written(file.cells[i], file.sparing)
             content == <<"x", Comma, "y", NewLine, Blank, NewLine>>
                        \o (cell(1) \o <<Comma>> \o cell(2)) \o <<NewLine>>
         IN ParseCsv(content) =
              << [number |-> 2,
                  values |-> [h \in {<<"x">>, <<"y">>} |-> file.cells[IF h = <<"x">> THEN 1 ELSE 2]]] >>
    /\ file.kind = "day" =>
         Date(FirstOfFebruary("short", file.year % 100)) = Date(FirstOfFebruary("iso", file.year))

(* A row without a failure is posted as the file has it: customer, fund,   *)
(* tenor, date and amount are never the importer's defaults, the category  *)
(* is that of the tenor, and name, type and currency are made up only      *)
(* where the file gives none.                                              *)
ValidRowsAreWhole ==
    file.kind = "row" =>
        LET v == Normalized(file.row)
            staged == Staged(v)
            posted == Imported(staged)
        IN Failures(v) = {} =>
            /\ \A field \in {"customer", "fund", "days", "date", "amount"} :
                 staged[field] # Null /\ posted[field] = staged[field]
            /\ posted.category = Classify(staged.days)
            /\ Value(v, "customer_name").text # "" => posted.name = Value(v, "customer_name").text
            /\ Value(v, "customer_type").text # "" =>
                 staged.type # Null /\ posted.type = staged.type
            /\ Value(v, "currency").text # "" => posted.currency = Value(v, "currency").text
=============================================================================

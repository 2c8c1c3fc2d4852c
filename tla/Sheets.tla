--------------------------------- MODULE Sheets ---------------------------------
(***************************************************************************)
(* The workbook a funding bill arrives as, and the bill that is stored of it: *)
(*   month      the month it bills                                           *)
(*   columns    whether every column of the contract sheet has been found     *)
(*   legible    whether the figures of the other sheets can be read           *)
(*   booked     the bookings stated: a total, or Blank and the cells above it  *)
(*   lines      the contract sheet's lines, in order                          *)
(*   manual     the bookings by hand: rows and the sum stated for them         *)
(* The figures are cents.  Payment properties are numbered within their key.  *)
(***************************************************************************)
EXTENDS Comparison

CONSTANTS
    MaxMealShare,        \* what a waived meal share may amount to
    Blank, Terminator    \* of the voucher column, besides numbers and other text

Columns == {"base", "abzug", "care", "meals", "but", "qm", "mss", "ndh", "integration"}
SheetLines ==
    [voucher : Numbers \cup {Blank, Terminator} \cup STRING, legible : BOOLEAN, typ : {"A", "K"},
     month : Months \cup {NoRow}, scope : Nat, integration : STRING, ndh : BOOLEAN, qmmss : BOOLEAN,
     amounts : [Columns -> Int], sum : Int, holder : Children \cup {NoRow}]
Books ==
    [month : Months, columns : BOOLEAN, legible : BOOLEAN, lines : Seq(SheetLines),
     booked : [total : Int \cup {Blank}, cells : Seq(Int)],
     manual : [rows : Seq([months : SUBSET Int, reason : STRING \cup {NoRow}, amount : Int]), sum : Int]]

KV(key, value) == [key |-> key, value |-> value]
Magnitude(n) == IF n < 0 THEN -n ELSE n

---------------------------------------------------------------------------
(* Parsing. *)

ReadOrSumColumn(column) == IF column.total = Blank THEN SumFunction(column.cells) ELSE column.total

Vouchers(book) == {i \in DOMAIN book.lines : book.lines[i].voucher \in Numbers}

\* The table starts at the first line with a voucher number and ends before the first without.
TableStart(book) == Min(Vouchers(book))
TableEnd(book) == Min({i \in TableStart(book)..Len(book.lines) + 1 : i \notin Vouchers(book)})
TableLines(book) == SubSeq(book.lines, TableStart(book), TableEnd(book) - 1)

\* At the terminator, or at a blank with no voucher number between it and the terminator.
EndsProperly(book) ==
    LET end == TableEnd(book)
        TerminatedBefore(i) == \E t \in end..i : book.lines[t].voucher = Terminator
    IN  \/ end > Len(book.lines)
        \/ book.lines[end].voucher = Terminator
        \/ book.lines[end].voucher = Blank /\ \A i \in Vouchers(book) : i > end => TerminatedBefore(i)

ReconcilesWithHeader(book) ==
    SumFunction([i \in DOMAIN TableLines(book) |-> TableLines(book)[i].sum]) = ReadOrSumColumn(book.booked)

Parses(book) ==
    /\ book.legible /\ book.columns /\ Vouchers(book) # {} /\ EndsProperly(book)
    /\ \A line \in ToSet(TableLines(book)) : line.legible
    /\ ReconcilesWithHeader(book)

\* Rows that do not add up to the sum stated, or without one, are not used.
ParseKorrektur(book) ==
    IF book.manual.sum = SumFunction([i \in DOMAIN book.manual.rows |-> book.manual.rows[i].amount])
    THEN ToSet(book.manual.rows) ELSE {}

\* The span of the months that the rows name, and their one reason.
SummarizeKorrektur(rows) ==
    LET months == UNION {row.months : row \in rows}
        reasons == {row.reason : row \in rows} \ {NoRow}
    IN  [span |-> IF months = {} THEN NoRow ELSE <<Min(months), Max(months)>>,
         reason |-> IF reasons = {} THEN NoRow
                    ELSE IF Cardinality(reasons) = 1 THEN CHOOSE r \in reasons : TRUE ELSE "mixed"]

---------------------------------------------------------------------------
(* Conversion. *)

Meals == KV("parent", 2)

IntegrationValue(line) == CASE line.integration = "A" -> 1 [] line.integration = "B" -> 2 [] OTHER -> 3

\* The entries of a line: those that stand for something, and those with money.
Amounts(line) ==
    LET a == line.amounts
        Entry(kv, always, amount) == [kv |-> kv, always |-> always, amount |-> amount]
    IN  {x \in {Entry(KV("care_type", line.scope), TRUE, a.base),
                Entry(KV("abzug", 1), FALSE, a.abzug),
                Entry(KV("ndh", 1), line.ndh, a.ndh),
                Entry(KV("qm/mss", 1), line.qmmss, a.qm + a.mss),
                Entry(KV("integration", IntegrationValue(line)), line.integration \in {"A", "B"}, a.integration),
                Entry(KV("but", 1), FALSE, a.but),
                Entry(KV("parent", 1), TRUE, -a.care),
                Entry(Meals, TRUE, -a.meals)} : x.always \/ x.amount # 0}

Residual(line) == line.sum - Total(Amounts(line))

\* A difference is the meal share that a subsidy waives, or it is refused.
Reconciles(line) ==
    LET residual == Residual(line)
        but == line.amounts.but
    IN  residual = 0 \/ (but # 0 /\ (residual < 0 <=> but > 0) /\ Magnitude(residual) <= MaxMealShare)

\* Mutant: the difference is tolerated and forgotten.
ForgetResidual(line) == Amounts(line)

ReconcileRow(line) ==
    {IF x.kv = Meals THEN [x EXCEPT !.amount = @ + Residual(line)] ELSE x : x \in Amounts(line)}

\* Without the column of month and type a line is regular, and of an unknown month.
ConvertChild(lines, i) ==
    {[line |-> i, kv |-> x.kv, amount |-> x.amount, month |-> lines[i].month,
      type |-> IF lines[i].typ = "K" THEN "correction" ELSE "regular"] : x \in ReconcileRow(lines[i])}

Converts(book) == \A line \in ToSet(TableLines(book)) : Reconciles(line)

\* One row per voucher number, in the order of their first lines.
Rows(lines) ==
    LET OfNumber(n) == {i \in DOMAIN lines : lines[i].voucher = n}
    IN  [i \in {i \in DOMAIN lines : \A j \in OfNumber(lines[i].voucher) : i <= j} |->
            [number |-> lines[i].voucher,
             payments |-> UNION {ConvertChild(lines, j) : j \in OfNumber(lines[i].voucher)}]]

Convert(book) ==
    [rows |-> Rows(TableLines(book)), booked |-> ReadOrSumColumn(book.booked), file |-> book,
     korrektur |-> SummarizeKorrektur(ParseKorrektur(book))]

\* The child whose name and month of birth the first line of the number has, if it is one.
Holder(book, n) ==
    LET lines == TableLines(book)
        first == Min({i \in DOMAIN lines : lines[i].voucher = n})
    IN  lines[first].holder
=============================================================================

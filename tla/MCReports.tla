------------------------------- MODULE MCReports -------------------------------
(* Instances of Reports: tables to start from, a comparison and two writers. *)
EXTENDS Reports

CONSTANTS r1, r2, r3, v1, v2, v3

\* Child 1 changes its age band in month 3, child 2 in month 1, child 3 is beyond all bands.
MCBorn == (1 :> [month |-> 0, first |-> TRUE]) @@ (2 :> [month |-> -2, first |-> FALSE])
          @@ (3 :> [month |-> -6, first |-> TRUE])

Half == KV("care_type", 1)
Full == KV("care_type", 2)
Needs == KV("integration", 1)

Rate(kv, min, max, pay) ==
    [kv |-> kv, min |-> min, max |-> max, pay |-> pay, req |-> IF pay < 0 THEN 0 ELSE pay \div 10, all |-> kv = Meals]
Period(from, to, rates) ==
    [from |-> from, to |-> to, hours |-> 39, required |-> {"care_type"}, rates |-> rates]

\* The bands of Half overlap at one year: the first rate counts.  Two bands start at zero.
Rates1 == <<Rate(Half, 0, 1, 100), Rate(Half, 1, 2, 70), Rate(Full, 0, 0, 150), Rate(Full, 1, 2, 150),
            Rate(Needs, 0, 2, 30), Rate(Meals, 0, 2, -23)>>
Rates2 == <<Rate(Half, 0, 1, 110), Rate(Half, 2, 2, 110), Rate(Full, 0, 1, 160), Rate(Full, 2, 2, 160)>>
Early == <<Period(1, 1, Rates1)>>
Both == <<Period(2, 9, Rates2), Period(1, 1, Rates1)>>

Attends(id, child, from, to, props) == [id |-> id, child |-> child, from |-> from, to |-> to, props |-> props]
First == Attends(21, 1, 1, 2, {Half, Meals})
Second == Attends(22, 1, 3, 9, {Full, Needs})
Whole == Attends(23, 1, 1, 9, {Half, Needs})
Doubled == Attends(24, 2, 1, 9, {Half, Full})
Plain == Attends(25, 2, 1, 9, {Half, Needs})
Later == Attends(27, 2, 3, 9, {Half})
Old == Attends(26, 3, 2, 9, {Half})

Pays(kv, amount) == [line |-> 0, kv |-> kv, amount |-> amount, type |-> "regular", month |-> NoRow]
Corrects(kv, amount, month) == [line |-> 0, kv |-> kv, amount |-> amount, type |-> "correction", month |-> month]
Row(number, payments) == [number |-> number, payments |-> ToSet(payments)]
Numbered(i, row) == [row EXCEPT !.payments = {[p EXCEPT !.line = i] : p \in @}]
Bill(rows) == [rows |-> [i \in DOMAIN rows |-> Numbered(i, rows[i])], booked |-> NoRow, file |-> NoRow]

\* The next year's file, the latest period first, which ends the period that was open; one
\* that revises rates.
Rates3 == <<Rate(Half, 0, 2, 120), Rate(Full, 0, 1, 160), Rate(Full, 2, 2, 140)>>
Yearly == <<Period(3, 9, Rates3), Period(2, 2, Rates2), Period(1, 1, Rates1)>>
Rates4 == <<Rate(Half, 0, 1, 105), Rate(Half, 1, 2, 70), Rate(Full, 0, 2, 150), Rate(Meals, 0, 2, -23)>>
Revised == <<Period(1, 1, Rates4), Period(2, 9, Rates3)>>

\* A child with two vouchers, one of them with corrections only, and a stranger.
Twice == Bill(<<Row(v1, <<Corrects(Half, 5, NoRow)>>), Row(v2, <<Pays(Half, 100), Pays(Needs, 30)>>),
                Row(v3, <<Pays(Full, 150)>>)>>)
\* One child is billed its rate, another nothing but a correction for later.
Single == Bill(<<Row(v1, <<Pays(Half, 100), Pays(Meals, -22)>>), Row(v3, <<Corrects(Half, 7, 3)>>)>>)
Alone == Bill(<<Row(v1, <<Pays(Half, 100), Pays(Needs, 30)>>)>>)
\* What an earlier bill left out.
Late == Bill(<<Row(v3, <<Pays(Full, 160), Corrects(Half, 100, 1), Corrects(Needs, 30, 1)>>)>>)

Figures0 == [base |-> 0, abzug |-> 0, care |-> 0, meals |-> 0, but |-> 0, qm |-> 0, mss |-> 0, ndh |-> 0,
             integration |-> 0]
Line(number, typ, month, scope, flag, figures, sum, holder) ==
    [voucher |-> number, legible |-> TRUE, typ |-> typ, month |-> month, scope |-> scope, integration |-> flag,
     ndh |-> FALSE, qmmss |-> FALSE, amounts |-> figures, sum |-> sum, holder |-> holder]
NoVoucher(text) == [Line(v1, "A", 1, 1, "N", Figures0, 0, NoRow) EXCEPT !.voucher = text]
Regular == Line(v1, "A", 2, 1, "A", [Figures0 EXCEPT !.base = 110, !.meals = 23, !.integration = 30], 117, NoRow)
\* The meal share that a subsidy waives is missing in its column.
Waived == Line(v2, "A", 2, 2, "N", [Figures0 EXCEPT !.base = 160, !.but = 40], 177, 1)
Corrected == Line(v2, "K", 1, 2, "N", [Figures0 EXCEPT !.integration = -30, !.ndh = 5], -25, 1)
Stranger == Line(v3, "A", NoRow, 2, "B", [Figures0 EXCEPT !.base = 160, !.abzug = -4], 156, NoRow)

Book(month, lines, booked) ==
    [month |-> month, columns |-> TRUE, legible |-> TRUE, lines |-> lines, booked |-> booked,
     manual |-> [rows |-> <<[months |-> {-4, -2}, reason |-> "nachfinanzierung", amount |-> 7]>>, sum |-> 7]]
Stated(total) == [total |-> total, cells |-> <<>>]
Column(cells) == [total |-> Blank, cells |-> cells]

Good == Book(2, <<Regular, Waived, NoVoucher(Blank), NoVoucher("note"), NoVoucher(Terminator), Stranger>>, Stated(294))
Mixed == Book(1, <<NoVoucher(Blank), Corrected, Regular, Waived, Stranger>>, Column(<<300, 125>>))
\* A line without its number, of money that cancels out.
Holed == [Mixed EXCEPT !.lines = <<Regular, NoVoucher(Blank), Waived>>, !.booked = Stated(117)]
\* A figure misread, where no subsidy explains the difference.
Unexplained == Book(3, <<[Regular EXCEPT !.amounts.base = 0]>>, Stated(117))

Links(a, b, c) == (v1 :> a) @@ (v2 :> b) @@ (v3 :> c)
Docs(a, b, c) == <<a, b, c>>

Compare(from, to) == [kind |-> "compare", from |-> from, to |-> to]
Statistics == [kind |-> "statistics"]
Link(number, child) == [kind |-> "link", number |-> number, child |-> child]
Writes(child, new) == [kind |-> "write", child |-> child, contracts |-> new]
Configures(periods) == [kind |-> "configure", periods |-> periods]
Deletes(month) == [kind |-> "deleteBill", month |-> month]
Uploads(book) == [kind |-> "upload", book |-> book]

Imports(file) == [kind |-> "import", file |-> file]

Menu(a, b, c) == [r \in Reqs |-> CASE r = r1 -> a [] r = r2 -> b [] r = r3 -> c]
Scenario(rows, links, periods, docs, menus) ==
    [contracts |-> rows, linked |-> links, funding |-> periods, bills |-> docs, menu |-> menus]

TwoVouchers ==
    Scenario({First, Second, Plain}, Links(1, 1, 2), Both, Docs(Twice, NoRow, Late),
             Menu({Compare(1, 1), Compare(2, 3), Statistics},
                  {Link(v2, 2), Link(v3, NoRow), Link(v1, NoRow), Writes(1, {Whole})},
                  {Writes(2, {Doubled}), Writes(2, {}), Uploads(Good), Configures(Early), Imports(Yearly)}))

\* Month 3 has no funding period and no bill, but a correction.
Orphans ==
    Scenario({Whole, Doubled, Old}, Links(1, NoRow, 3), Early, Docs(Single, NoRow, NoRow),
             Menu({Compare(1, 3), Statistics},
                  {Uploads(Good), Deletes(1), Writes(3, {})},
                  {Uploads(Good), Uploads(Mixed), Uploads(Unexplained), Writes(1, {First, Second}), Link(v3, 2), Imports(Revised)}))

\* A child that no bill of its month pays, settled by a later one.
SettledLater ==
    Scenario({Whole, Plain, Old}, Links(1, NoRow, 2), Both, Docs(Alone, Late, NoRow),
             Menu({Compare(1, 2), Statistics}, {Link(v3, 3), Writes(2, {Later}), Deletes(2), Deletes(3)},
                  {Link(v3, NoRow), Uploads(Holed), Configures(Early), Imports(Reverse(Yearly))}))

MCScenarios == {TwoVouchers, Orphans, SettledLater}
MCYearly == {TwoVouchers}

Entry(amount, years) == [amount |-> amount, years |-> years]
Grade(grade, step, amount, years) == <<grade, step>> :> Entry(amount, years)
MCPlans ==
    "plan" :> <<[from |-> 2, to |-> 9, hours |-> 40, rate |-> 2215,
                 entries |-> Grade("S8", 1, 333, 0) @@ Grade("S8", 2, 351, 1) @@ Grade("S8", 3, 377, 2)
                             @@ Grade("S3", 1, 250, NoRow)],
                [from |-> 1, to |-> 1, hours |-> 39, rate |-> 2200,
                 entries |-> Grade("S8", 1, 300, 0) @@ Grade("S8", 3, 366, 1)]>>

Works(id, from, to, plan, grade, step, hours, category) ==
    [id |-> id, from |-> from, to |-> to, plan |-> plan, grade |-> grade, step |-> step, hours |-> hours,
     category |-> category]

\* The first has served a year, with a leap day, in month 2; the second a year without one in
\* month 1, on a step that the first period does not know; the others have no rule or no plan.
MCStaff ==
    {[id |-> 11, contracts |-> {Works(31, 0, 1, "plan", "S8", 1, 30, "qualified"),
                                Works(32, 2, 9, "plan", "S8", 1, 39, "non_pedagogical")}],
     [id |-> 12, contracts |-> {Works(33, -1, 9, "plan", "S8", 2, 20, "supplementary")}],
     [id |-> 13, contracts |-> {Works(34, 1, 9, "plan", "S3", 1, 25, "qualified")}],
     [id |-> 14, contracts |-> {Works(35, 2, 9, "other", "S3", 1, 20, "qualified")}]}

Item(income, perChild, entries) == [income |-> income, perChild |-> perChild, entries |-> entries]
MCItems ==
    {Item(TRUE, TRUE, {[id |-> 1, from |-> 1, to |-> 9, amount |-> 4]}),
     Item(FALSE, FALSE, {[id |-> 2, from |-> 2, to |-> 2, amount |-> 50]})}

\* Contracts that a forecast adds where there is none.
MCAdded ==
    [children |-> {[to |-> 1, contract |-> Attends(0, 1, 3, 9, {Full})],
                   [to |-> 2, contract |-> Attends(0, 2, 1, 2, {Half})],
                   [to |-> 3, contract |-> Attends(0, 3, 1, 1, {Half, Needs})]},
     staff |-> {[to |-> 14, contract |-> Works(0, 1, 1, "plan", "S3", 1, 20, "qualified")]}]
=============================================================================

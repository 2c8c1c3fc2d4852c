--------------------------------- MODULE Reports ---------------------------------
(***************************************************************************)
(* Reports while the records they are made of change.  A comparison of bills  *)
(* reads its tables one statement after the other, month by month, so that    *)
(* the writes of other requests fall between; it is computed from what it     *)
(* read.  The other reports are functions of the tables.                     *)
(***************************************************************************)
EXTENDS Sheets, Figures, FundingFiles

CONSTANTS
    Scenarios,   \* tables to start from, with the requests each client may send
    Staff,       \* set of [id, contracts]
    Plans,       \* pay plans
    Items,       \* budget items
    Added        \* [children, staff]: contracts a forecast adds, sets of [to, contract]

ContractRows == [id : Nat, child : Children, from : Int, to : Int, props : SUBSET KVs]
StaffContracts == [id : Nat, from : Int, to : Int, plan : STRING, grade : STRING, step : Nat, hours : Int,
                   category : STRING]
MonthlyCosts == [gross : Int, employer : Int]
Bills == [rows : Seq(BillRows), booked : {NoRow}, file : {NoRow}]

NeverBoth(j, k) == j.id # k.id /\ (j.to < k.from \/ k.to < j.from)

\* Contracts of one person, finitely many and no two at a time.
OneAtATime(rows) == IsFiniteSet(rows) /\ \A j, k \in rows : j # k => NeverBoth(j, k)

StartsApart(periods) == \A i, j \in DOMAIN periods : i # j => periods[i].from # periods[j].from

\* A file names a start once: a period named again would be compared with the rows
\* loaded before the import, not with those it has written.
Request ==
    [kind : {"compare"}, from : Months, to : Months]
    \cup [kind : {"statistics"}]
    \cup [kind : {"link"}, number : Numbers, child : Children \cup {NoRow}]
    \cup {k \in [kind : {"write"}, child : Children, contracts : SUBSET ContractRows] :
              OneAtATime(k.contracts) /\ \A contract \in k.contracts : contract.child = k.child}
    \cup [kind : {"configure"}, periods : Seq(PeriodRows)]
    \cup {k \in [kind : {"import"}, file : Seq(PeriodRows)] : StartsApart(k.file)}
    \cup [kind : {"upload"}, book : Books]
    \cup [kind : {"deleteBill"}, month : Months]

ASSUME ReportSentinels ==
    /\ NoRow \notin Int /\ NoRow \notin (ContractRows \cup StaffContracts \cup MonthlyCosts)
    /\ NoRequest \notin Request

\* A period of a pay plan, with an amount for some grades and steps.
PayPeriod(period) ==
    /\ period.from \in Int /\ period.to \in Int /\ period.hours \in Nat \ {0} /\ period.rate \in Int
    /\ IsFiniteSet(DOMAIN period.entries) /\ DOMAIN period.entries \subseteq STRING \X Nat
    /\ \A x \in DOMAIN period.entries :
           period.entries[x].amount \in Int /\ period.entries[x].years \in Nat \cup {NoRow}

Employed(staff) ==
    /\ IsFiniteSet(staff)
    /\ \A e \in staff :
        /\ e = [id |-> e.id, contracts |-> e.contracts] /\ e.id \in Nat
        /\ e.contracts \subseteq StaffContracts /\ OneAtATime(e.contracts)
    /\ \A e, f \in staff : e.id = f.id => e = f

PayPlans(plans) ==
    \A name \in DOMAIN plans :
        plans[name] \in Seq(ToSet(plans[name])) /\ \A period \in ToSet(plans[name]) : PayPeriod(period)

\* The staff is told apart by id, and its pay plans have numbers.
ASSUME StaffAssumption == Employed(Staff) /\ PayPlans(Plans)

\* A forecast adds a contract to a child, and to the staff what leaves each one at a time.
ASSUME AddedAssumption ==
    /\ \A a \in Added.children : a = [to |-> a.to, contract |-> a.contract] /\ a.contract \in ContractRows
    /\ \A a, b \in Added.children : a.to = b.to => a = b
    /\ Employed(Extend(Staff, Added.staff))

\* A bill has finitely many payments, each in one of its rows.
RowsApart(rows) ==
    \A i \in DOMAIN rows :
        /\ IsFiniteSet(rows[i].payments)
        /\ \A j \in DOMAIN rows \ {i} : rows[i].payments \cap rows[j].payments = {}

\* The tables are finite.
ASSUME ReportAssumption ==
    /\ IsFiniteSet(Children)
    /\ \A c \in Scenarios :
        /\ c.menu \in [Reqs -> SUBSET Request]
        /\ c.contracts \subseteq ContractRows
        /\ \A child \in Children : OneAtATime({contract \in c.contracts : contract.child = child})
        /\ c.linked \in [Numbers -> Children \cup {NoRow}]
        /\ c.funding \in Seq(PeriodRows) /\ c.bills \in [Months -> Bills \cup {NoRow}]
        /\ \A m \in Months : c.bills[m] # NoRow => RowsApart(c.bills[m].rows)

VARIABLES
    contracts,   \* of the children: [id, child, from, to, props]
    linked,      \* the child of each voucher number
    funding,     \* the configuration's periods, by id
    bills,       \* the bill of each month: [rows, booked, file], its rows [number, payments] in order
    view,        \* per comparison: the month, and what was read for it
    report       \* per reader: its months so far, the corrections by month, the rows loaded

tables == <<contracts, linked, funding, bills>>
vars == <<requestVars, tables, view, report>>

NothingRead(m) ==
    [month |-> m, rows |-> <<>>, funding |-> <<>>, childOf |-> [n \in Numbers |-> NoRow],
     contractOf |-> [c \in Children |-> NoRow], active |-> {}, preloaded |-> [c \in Children |-> {}],
     settled |-> [c \in Children |-> 0], vouchersOf |-> [c \in Children |-> {}]]

NoReport == [comparisons |-> <<>>, attributed |-> [m \in {} |-> 0], corrections |-> NoRow, loaded |-> NoRow]

---------------------------------------------------------------------------
(* The queries of a comparison. *)

Tables == [contracts |-> contracts, linked |-> linked, funding |-> funding, bills |-> bills]

ActiveContract(t, c, m) == PickActive(ContractsOf(t, c), m)
ActiveChildren(t, m) == {c \in Children : ActiveContract(t, c, m) # NoRow}
ActiveContracts(t, m) == [c \in Children |-> {k \in ContractsOf(t, c) : ActiveOn(k, m)}]
VouchersOf(t) == [c \in Children |-> {n \in Numbers : t.linked[n] = c}]

\* The month a payment is about; its bill's where it names none.
Attribution(payment, m) == IF payment.month = NoRow THEN m ELSE payment.month

AboutMonth(row, m, about) == {p \in row.payments : Attribution(p, m) = about}

\* The money that bills of other months carry for the month, per child.
FindSettledLater(t, about) ==
    [c \in Children |->
        SumFunction([n \in {n \in Named(t, c) : n[1] # about} |->
                        Total(AboutMonth(t.bills[n[1]].rows[n[2]], n[1], about))])]

\* The corrections that apply to each month of the window, whichever bill brought them.
AttributedTotals(t, from, to) ==
    LET rows == UNION {{m} \X DOMAIN t.bills[m].rows : m \in {m \in Months : HasBill(t, m)}}
    IN  [about \in from..to |->
            SumFunction([n \in rows |->
                Total(OfType(AboutMonth(t.bills[n[1]].rows[n[2]], n[1], about), "correction"))])]

---------------------------------------------------------------------------
(* The comparison of the bills of a range. *)

Read(r, stage, v) == Goto(r, stage) /\ view' = [view EXCEPT ![r] = v] /\ UNCHANGED <<report, tables>>

\* A month without a bill is passed over.
FindBill(r) ==
    LET m == view[r].month
    IN  /\ pc[r] = "compare"
        /\ IF m > q[r].to THEN Read(r, "attributed", view[r])
           ELSE IF ~HasBill(Tables, m) THEN Read(r, "compare", NothingRead(m + 1))
           ELSE Read(r, "findFunding", [view[r] EXCEPT !.rows = bills[m].rows])

\* A query that fails reads like a missing configuration.
FindFunding(r) ==
    /\ pc[r] = "findFunding"
    /\ \E found \in {funding, <<>>} : Read(r, "resolveVouchers", [view[r] EXCEPT !.funding = found])

ResolveVouchers(r) ==
    /\ pc[r] = "resolveVouchers"
    /\ Read(r, "resolveContracts", [view[r] EXCEPT !.childOf = linked])

ResolveContracts(r) ==
    /\ pc[r] = "resolveContracts"
    /\ Read(r, "findActive",
            [view[r] EXCEPT !.contractOf = [c \in Children |-> ActiveContract(Tables, c, view[r].month)]])

FindActive(r) ==
    /\ pc[r] = "findActive"
    /\ Read(r, "preload", [view[r] EXCEPT !.active = ActiveChildren(Tables, view[r].month)])

Preload(r) ==
    /\ pc[r] = "preload"
    /\ Read(r, "findSettled", [view[r] EXCEPT !.preloaded = ActiveContracts(Tables, view[r].month)])

\* Not fatal: a query that fails finds no settlement.
FindSettled(r) ==
    /\ pc[r] = "findSettled"
    /\ \E found \in {FindSettledLater(Tables, view[r].month), [c \in Children |-> 0]} :
           Read(r, "findVouchers", [view[r] EXCEPT !.settled = found])

\* The last query of a month; its comparison joins the report.
FindVouchers(r) ==
    /\ pc[r] = "findVouchers" /\ Goto(r, "compare") /\ UNCHANGED tables
    /\ report' = [report EXCEPT ![r].comparisons =
                    Append(@, ComparePeriod([view[r] EXCEPT !.vouchersOf = VouchersOf(Tables)]))]
    /\ view' = [view EXCEPT ![r] = NothingRead(view[r].month + 1)]

FindAttributed(r) ==
    /\ pc[r] = "attributed" /\ Goto(r, "billedMonths") /\ UNCHANGED <<view, tables>>
    /\ report' = [report EXCEPT ![r].attributed = AttributedTotals(Tables, q[r].from, q[r].to)]

\* Corrections of a month with a bill, and of a month without one.
FindBilledMonths(r) ==
    LET Sum(S) == SumFunctionOnSet(report[r].attributed, S)
        billed == {m \in q[r].from..q[r].to : HasBill(Tables, m)}
    IN  /\ pc[r] = "billedMonths" /\ Answer(r, "ok") /\ UNCHANGED <<view, tables>>
        /\ report' = [report EXCEPT ![r].corrections =
                        [billed |-> Sum(billed), orphan |-> Sum((q[r].from..q[r].to) \ billed)]]

CompareRange(r) ==
    \/ FindBill(r) \/ FindFunding(r) \/ ResolveVouchers(r) \/ ResolveContracts(r) \/ FindActive(r)
    \/ Preload(r) \/ FindSettled(r) \/ FindVouchers(r) \/ FindAttributed(r) \/ FindBilledMonths(r)

---------------------------------------------------------------------------
(* A reader of the other reports, which finds all rows of one moment. *)

Snapshot(m) ==
    [month |-> m, rows |-> bills[m].rows, funding |-> funding, childOf |-> linked,
     contractOf |-> [c \in Children |-> ActiveContract(Tables, c, m)],
     active |-> ActiveChildren(Tables, m), preloaded |-> ActiveContracts(Tables, m),
     settled |-> FindSettledLater(Tables, m), vouchersOf |-> VouchersOf(Tables)]

DataSet(bands) ==
    [bands |-> bands,
     children |-> {[id |-> c, born |-> Born[c], contracts |-> ContractsOf(Tables, c)] :
                      c \in {c \in Children : ContractsOf(Tables, c) # {}}},
     staff |-> Staff, funding |-> funding, plans |-> Plans, items |-> Items]

NoOverlay ==
    [removeChildren |-> {}, removeEmployees |-> {}, addChildContracts |-> {},
     addEmployeeContracts |-> {}, addEmployees |-> <<>>, addChildren |-> <<>>]

\* A contract the service takes; one it leaves as it is.
Accepted(d, contract) == ValidProperties(d, Completed(d, contract))
Complete(d, contract) == Completed(d, contract) = contract

\* Contracts added to persons there are, to a child where it has none.
Extension(d) ==
    LET Fits(a) == \A child \in d.children : child.id = a.to =>
                       \A k \in child.contracts : NeverBoth(k, a.contract)
    IN  [NoOverlay EXCEPT !.addChildContracts = {a \in Added.children : Accepted(d, a.contract) /\ Fits(a)},
                          !.addEmployeeContracts = Added.staff]

\* The same, and the staff and the children leave and are hired and admitted again, with
\* what is added to them; of the children those whose contracts a forecast leaves as they are.
Replacement(d) ==
    LET o == Extension(d)
        Anew(person, added) ==
            [person EXCEPT !.contracts = SetToSeq(@ \cup {a.contract : a \in {a \in added : a.to = person.id}})]
        going == {child \in d.children : \A k \in child.contracts : Complete(d, k) /\ Accepted(d, k)}
    IN  [o EXCEPT !.removeChildren = {child.id : child \in going},
                  !.removeEmployees = {e.id : e \in d.staff},
                  !.addChildren = SetToSeq({Anew(child, o.addChildContracts) : child \in going}),
                  !.addEmployees = SetToSeq({Anew(e, o.addEmployeeContracts) : e \in d.staff})]

\* The promotions due in a month, and the expenses without and with them.
Promoted(d, m) ==
    [due |-> GetStepPromotions(d, m), left |-> GetStepPromotions(AfterPromotions(d, m), m),
     before |-> CalculateFinancials(d, m), after |-> CalculateFinancials(AfterPromotions(d, m), m)]

EveryMonth(d) == [m \in Months |-> MonthFigures(d, m)]

\* Every report of these rows, and two forecasts, each with its own order of the bands.
LoadDataSet(r) ==
    /\ pc[r] = "statistics" /\ Answer(r, "ok") /\ UNCHANGED <<view, tables>>
    /\ \E t \in {Tables}, d, one, other \in {DataSet(bands) : bands \in BandOrders(funding)} :
        report' = [report EXCEPT ![r].loaded =
            [booked |-> [m \in Months |-> IF HasBill(t, m) THEN t.bills[m].booked ELSE NoRow],
             comparisons |-> {ComparePeriod(v) : v \in {Snapshot(m) : m \in {m \in Months : HasBill(t, m)}}},
             history |-> [c \in Children |-> ChildBillingHistory(t, c)],
             summary |-> [c \in Children |-> ChildrenBillingSummary(t, c)],
             attributed |-> AttributedTotals(t, 1, LastMonth),
             promoted |-> [m \in Months |-> Promoted(d, m)],
             figures |-> EveryMonth(d),
             forecasts |-> {EveryMonth(ApplyOverlay(one, Extension(one))),
                            EveryMonth(ApplyOverlay(other, Replacement(other)))}]]

---------------------------------------------------------------------------
(* What other requests commit meanwhile. *)

Written(r) == Answer(r, "ok") /\ UNCHANGED <<view, report>>

\* A voucher assigned or, without a child, removed.
LinkVoucher(r) ==
    /\ pc[r] = "link" /\ Written(r) /\ UNCHANGED <<contracts, funding, bills>>
    /\ linked' = [linked EXCEPT ![q[r].number] = q[r].child]

WriteContracts(r) ==
    /\ pc[r] = "write" /\ Written(r) /\ UNCHANGED <<linked, funding, bills>>
    /\ contracts' = (contracts \ ContractsOf(Tables, q[r].child)) \cup q[r].contracts

Configure(r) ==
    /\ pc[r] = "configure" /\ Written(r) /\ UNCHANGED <<contracts, linked, bills>>
    /\ funding' = q[r].periods

\* A funding file imported, in one transaction; what is refused is answered with a 500.
ImportFunding(r) ==
    /\ pc[r] = "import" /\ UNCHANGED <<view, report, contracts, linked, bills>>
    /\ LET imported == ImportFile(funding, q[r].file)
       IN  IF imported.ok THEN Answer(r, "ok") /\ funding' = imported.rows
           ELSE Answer(r, "error") /\ UNCHANGED funding

\* What an upload is refused for, or "ok".
UploadAnswer(book) ==
    CASE \E m \in Months : HasBill(Tables, m) /\ bills[m].file = book -> "conflict"
      [] OTHER -> IF ~Parses(book) THEN "badRequest"
                  ELSE IF HasBill(Tables, book.month) THEN "conflict"
                  ELSE IF ~Converts(book) THEN "badRequest" ELSE "ok"

\* The bill is stored; then the numbers that nobody has go to their holders.
ProcessISBJ(r) ==
    LET book == q[r].book
        Stored(bill) ==
            LET new == {row.number : row \in {row \in ToSet(bill.rows) : linked[row.number] = NoRow}}
            IN  /\ bills' = [bills EXCEPT ![book.month] = bill]
                /\ linked' = [n \in Numbers |-> IF n \in new THEN Holder(book, n) ELSE linked[n]]
    IN  /\ pc[r] = "upload" /\ UNCHANGED <<view, report, contracts, funding>>
        /\ Answer(r, UploadAnswer(book))
        /\ IF UploadAnswer(book) = "ok" THEN Stored(Convert(book)) ELSE UNCHANGED <<bills, linked>>

DeleteBill(r) ==
    /\ pc[r] = "deleteBill" /\ UNCHANGED <<view, report, contracts, linked, funding>>
    /\ IF ~HasBill(Tables, q[r].month) THEN Answer(r, "notFound") /\ UNCHANGED bills
       ELSE Answer(r, "ok") /\ bills' = [bills EXCEPT ![q[r].month] = NoRow]

Write(r) == LinkVoucher(r) \/ WriteContracts(r) \/ Configure(r) \/ ImportFunding(r)
            \/ ProcessISBJ(r) \/ DeleteBill(r)

---------------------------------------------------------------------------

Init ==
    \E c \in Scenarios :
        /\ Idle(c.menu)
        /\ contracts = c.contracts /\ linked = c.linked /\ funding = c.funding /\ bills = c.bills
        /\ view = [r \in Reqs |-> NothingRead(0)] /\ report = [r \in Reqs |-> NoReport]

Send(r) ==
    /\ Submit(r) /\ Goto(r, q'[r].kind) /\ UNCHANGED <<menu, tables, report>>
    /\ view' = [view EXCEPT ![r] = NothingRead(IF q'[r].kind = "compare" THEN q'[r].from ELSE 0)]

Finished == (\A r \in Reqs : pc[r] = "done" \/ menu[r] = {}) /\ UNCHANGED vars

Next ==
    \/ \E r \in Reqs : Send(r) \/ ((CompareRange(r) \/ LoadDataSet(r) \/ Write(r)) /\ UNCHANGED <<q, clientVars>>)
    \/ Finished

Spec == Init /\ [][Next]_vars

---------------------------------------------------------------------------
(* What a comparison says, whatever was written while it read. *)

\* The categories take the difference apart without a rest, and so do the issues
\* with the rate difference, which is no issue (BuildComparisonSummary).
DecompositionExact ==
    \A r \in Reqs :
        LET s == BuildComparisonSummary(report[r].comparisons)
            difference == s.billed - s.calculated
        IN  /\ SumFunction(s.category) = difference
            /\ SumFunction([i \in s.issues |-> i.total]) + s.category["rate_difference"] = difference

\* Every row of the bill is in one entry, and no child in two (comparePeriod).
ComparedOnce ==
    \A r \in Reqs : \A c \in ToSet(report[r].comparisons) :
        /\ UNION {x.rows : x \in c.entries} = c.rows
        /\ \A x, y \in c.entries : x # y => x.rows \cap y.rows = {} /\ (x.child = y.child => x.child = NoRow)

---------------------------------------------------------------------------
(* What the reports of the same rows say. *)

Loaded == {report[r].loaded : r \in Reqs} \ {NoRow}

\* A child's entry in its history is its entry in the bill's comparison; without a
\* contract it has the money of the rows that match no contract.
HistoryIsCompared(history, comparison) ==
    \A c \in Children : \A x \in {x \in history[c] : x.month = comparison.month} :
        LET Agree(y) == x.status = y.status /\ x.bill = y.bill /\ x.calc = y.calc
                        /\ x.correction = y.correction /\ x.properties = y.properties
            own == {y \in comparison.entries : y.status = "bill_only" /\ y.rows \subseteq x.rows}
        IN  IF x.status = "no_contract"
            THEN x.bill = SumFunction([y \in own |-> y.bill])
                 /\ \A y \in comparison.entries : y.child # c
            ELSE \E y \in comparison.entries : y.child = c /\ Agree(y)

\* The totals of a child in the list are those of its history; the calculated one
\* only where no bill names two of its vouchers.
TotalsAreHistory(history, summary) ==
    LET calculated == {x \in history : x.calc # NoRow}
        oneVoucherEach == \A x \in history : Cardinality(x.rows) = 1
    IN  /\ summary.billed = SumFunction([x \in history |-> x.bill])
        /\ summary.bills = Cardinality(history)
        /\ oneVoucherEach => summary.calculated = SumFunction([x \in calculated |-> x.calc])

\* A bill's comparison, a child's history, the list of all children and the corrections
\* of the year agree on the same rows (ChildBillingHistory, ChildrenBillingSummary).
ReportsAgree ==
    \A l \in Loaded :
        /\ \A comparison \in l.comparisons : HistoryIsCompared(l.history, comparison)
        /\ \A c \in Children : TotalsAreHistory(l.history[c], l.summary[c])
        /\ SumFunction([x \in l.comparisons |-> x.correction]) = SumFunctionOnSet(l.attributed, Months)

\* Every child of the month is in one cell of the occupancy or unmatched, in one age
\* bucket, and in the list of its funding.
ChildrenAddUp(month) ==
    LET income == month.forecast.financials
        occupancy == month.forecast.occupancy
    IN  /\ occupancy.total = income.childCount
        /\ SumFunction(occupancy.cell) + occupancy.unmatched = occupancy.total
        /\ SumFunctionOnSet(month.ages, Buckets) = occupancy.total
        /\ Cardinality(month.children) = occupancy.total
        /\ SumFunction([c \in month.children |-> c.funding]) = income.fundingIncome

\* A bill's comparison is measured against the income of its month, and has an entry
\* for each of its children.
MeasuredAgainstIncome(comparison, income) ==
    /\ comparison.calc = income.fundingIncome
    /\ Cardinality({x \in comparison.entries : x.child # NoRow}) = income.childCount

\* The n-th birthday is no later than the first day of the month, or before it.
Reached(c, n, m) == Born[c].month + n * YearMonths + (IF Born[c].first THEN 0 ELSE 1) <= m
ReachedBefore(c, n, m) == Born[c].month + n * YearMonths < m

\* The distribution counts a child from its birthday on, the occupancy from the next month
\* on: no band from n years on has a child that had not reached them before the month, and
\* none below has one that had (CalculateAgeOnDate, FundingAgeOnDate).
AgesFollowBirthdays(month, m) ==
    LET cell == month.forecast.occupancy.cell
        present == {x.child : x \in month.children}
    IN  \A n \in Buckets \ {0} :
            /\ SumFunctionOnSet(month.ages, n..Max(Buckets)) = Cardinality({c \in present : Reached(c, n, m)})
            /\ SumFunctionOnSet(cell, {x \in DOMAIN cell : n <= x[1][1]})
                  <= Cardinality({c \in present : ReachedBefore(c, n, m)})
            /\ SumFunctionOnSet(cell, {x \in DOMAIN cell : x[1][2] < n})
                  <= Cardinality({c \in present : ~ReachedBefore(c, n, m)})

\* The same children in the bands of each lower bound: of bands with the same one it is
\* left to each calculation which it finds first.
SameOccupancy(one, other) ==
    LET Level(cell, x) == SumFunctionOnSet(cell, {y \in DOMAIN cell : y[1][1] = x[1][1] /\ y[2] = x[2]})
    IN  /\ other.total = one.total /\ other.unmatched = one.unmatched
        /\ DOMAIN other.cell = DOMAIN one.cell
        /\ \A x \in DOMAIN one.cell : Level(other.cell, x) = Level(one.cell, x)

SameForecast(one, other) ==
    /\ other.financials = one.financials /\ other.staffing = one.staffing
    /\ SameOccupancy(one.occupancy, other.occupancy)

\* The statistics of a month agree with each other, with the children's birthdays and with
\* the bill's comparison.  A contract added to a person comes to the same forecast as the
\* person removed and entered anew with it, but for the choice among bands that start at
\* the same age (calculateFinancials, calculateOccupancy, applyOverlay).
FiguresAgree ==
    \A l \in Loaded :
        /\ \A figures \in {l.figures} \cup l.forecasts : \A m \in Months : ChildrenAddUp(figures[m])
        /\ \A m \in Months : AgesFollowBirthdays(l.figures[m], m)
        /\ \A comparison \in l.comparisons :
                MeasuredAgainstIncome(comparison, l.figures[comparison.month].forecast.financials)
        /\ \A one, other \in l.forecasts : \A m \in Months : SameForecast(one[m].forecast, other[m].forecast)

Expenses(financials) == financials.grossSalary + financials.employerCosts

\* Once the promotions due are granted, the month's expenses are higher by the total
\* announced, within a cent of rounding for each, and none is due (GetStepPromotions).
PromotionsPriced ==
    \A l \in Loaded : \A m \in Months :
        LET promoted == l.promoted[m]
            announced == SumFunction([p \in promoted.due |-> p.delta])
            rise == Expenses(promoted.after) - Expenses(promoted.before)
        IN  /\ Abs(rise - announced) <= Cardinality(promoted.due)
            /\ promoted.left = {}
            /\ promoted.after.staffCount = promoted.before.staffCount

---------------------------------------------------------------------------
(* What an upload leaves. *)

\* The payments of a bill, and the lines of its file, for a voucher and a month, of a type.
PaidFor(bill, n, m, type) ==
    Total({p \in UNION {row.payments : row \in {row \in ToSet(bill.rows) : row.number = n}} :
               p.month = m /\ p.type = type})
StatedFor(book, n, m, type) ==
    LET lines == TableLines(book)
    IN  SumFunctionOnSet([i \in DOMAIN lines |-> lines[i].sum],
            {i \in DOMAIN lines : lines[i].voucher = n /\ lines[i].month = m
                                  /\ (lines[i].typ = "K" <=> type = "correction")})

\* Of an uploaded bill the payments stored for each voucher, month and type come to the
\* sums its file states there, all of them to the stated booking; and so do the entries of
\* its comparison, whatever has become of children and contracts (ProcessISBJ, reconcileRow).
BilledAsStated ==
    /\ \A m \in {m \in Months : HasBill(Tables, m) /\ bills[m].file # NoRow} :
        LET bill == bills[m]
            lines == ToSet(TableLines(bill.file))
        IN  /\ \A line \in lines, type \in {"regular", "correction"} :
                   PaidFor(bill, line.voucher, line.month, type)
                     = StatedFor(bill.file, line.voucher, line.month, type)
            /\ Cardinality({line.voucher : line \in lines}) = Cardinality(DOMAIN bill.rows)
            /\ SumFunction([i \in DOMAIN bill.rows |-> Total(bill.rows[i].payments)]) = bill.booked
    /\ \A l \in Loaded : \A c \in l.comparisons :
        l.booked[c.month] = NoRow
        \/ SumFunction([x \in c.entries |-> x.bill + x.correction]) = l.booked[c.month]

---------------------------------------------------------------------------
(* What an import leaves. *)

\* The rates of a stored period are those of the file's, each once.
FilledAs(row, period) ==
    /\ [row EXCEPT !.rates = period.rates] = period
    /\ ToSet(row.rates) = ToSet(period.rates)
    /\ Cardinality(DOMAIN row.rates) = Cardinality(DOMAIN period.rates)

ChangesNothing(file, stored) ==
    LET again == ImportFile(stored, file)
    IN  /\ again.ok /\ DOMAIN again.rows = DOMAIN stored
        /\ \A i \in DOMAIN stored : FilledAs(again.rows[i], stored[i])

RatesApart(rates) == \A i, j \in DOMAIN rates : i # j => PropertyMatchKey(rates[i]) # PropertyMatchKey(rates[j])

\* What periods are found by, by their start and rates by their key, tells them apart;
\* and no two are valid at a time.
InOrder(rows) ==
    /\ StartsApart(rows) /\ \A i \in DOMAIN rows : RatesApart(rows[i].rates)
    /\ \A i, j \in DOMAIN rows : i # j => ~RowsOverlap(rows[i], rows[j])

\* A configuration in order that holds each period of the file, as the file has it, and the
\* others as they were; and to import the file again changes nothing.
Left(file, stored, rows) ==
    LET periods == ToSet(file)
        others == {row \in ToSet(stored) : \A period \in periods : period.from # row.from}
    IN  /\ InOrder(rows)
        /\ \A period \in periods : \E i \in DOMAIN rows : FilledAs(rows[i], period)
        /\ Cardinality(DOMAIN rows) = Cardinality(periods \cup others) /\ others \subseteq ToSet(rows)
        /\ ChangesNothing(file, rows)

\* An import into a configuration in order, of a file that names each rate of a period once,
\* makes the configuration the file's (incrementalImport, diffProperties).
ImportFollowsFile ==
    [][\A r \in Reqs :
        /\ pc[r] = "import" /\ resp'[r] = "ok"
        /\ InOrder(funding) /\ \A period \in ToSet(q[r].file) : RatesApart(period.rates)
        => Left(q[r].file, funding, funding')]_vars

\* A file that could be a configuration, and has every stored period.
Importable(file, stored) ==
    /\ \A i, j \in DOMAIN file : i # j => ~RowsOverlap(file[i], file[j])
    /\ \A period \in ToSet(file) : period.hours > 0 /\ \A rate \in ToSet(period.rates) : rate.min <= rate.max
    /\ {row.from : row \in ToSet(stored)} \subseteq {period.from : period \in ToSet(file)}

\* "If the funding already exists, it performs an incremental update (add/modify periods
\* and properties)": such a file is not refused (ImportGovernmentFunding).
YearlyUpdateImported ==
    [][\A r \in Reqs : pc[r] = "import" /\ resp'[r] = "error" => ~Importable(q[r].file, funding)]_vars
=============================================================================

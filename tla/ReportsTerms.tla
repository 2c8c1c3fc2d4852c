------------------------------- MODULE ReportsTerms -------------------------------
(***************************************************************************)
(* The terms in which ReportsProofs states what it proves about Reports, and  *)
(* the parts of its invariant, in the order in which they are needed there.   *)
(***************************************************************************)
EXTENDS Reports

---------------------------------------------------------------------------
(* Finite sets. *)

Image(e, S, K) == K = {e[x] : x \in S}

---------------------------------------------------------------------------
(* Sums over finite sets: SumFunctionOnSet, and SumFunction over the domain. *)

Summands(f, S) == IsFiniteSet(S) /\ \A x \in S : f[x] \in Int

\* g gives the sum of each subset: it does not matter which element is taken first.
AddsUp(g, f, S) ==
    /\ g \in [SUBSET S -> Int] /\ g[{}] = 0
    /\ \A T \in SUBSET S : \A x \in T : g[T] = f[x] + g[T \ {x}]

AnyOf(S) == CHOOSE x \in S : TRUE
Folds(g, f, S) == g = [s \in SUBSET S |-> IF s = {} THEN 0 ELSE f[AnyOf(s)] + g[s \ {AnyOf(s)}]]

\* F sums the elements of S that e puts into each class.
Fibred(f, S, e, K, F) ==
    /\ IsFiniteSet(K) /\ \A x \in S : e[x] \in K
    /\ \A k \in K : F[k] = SumFunctionOnSet(f, {x \in S : e[x] = k})

\* F has the same summands as f, under other names.
Renamed(f, S, e, F) ==
    /\ \A x \in S : F[e[x]] = f[x]
    /\ \A x, y \in S : e[x] = e[y] => x = y

---------------------------------------------------------------------------
(* Sums over pairs. *)

\* F sums what g gives to the pairs of each m, whose second parts are D[m].
Paired(P, M, D, g, F) ==
    /\ P = UNION {{m} \X D[m] : m \in M}
    /\ IsFiniteSet(M)
    /\ \A m \in M : IsFiniteSet(D[m]) /\ \A i \in D[m] : g[<<m, i>>] \in Int
    /\ \A m \in M : F[m] = SumFunctionOnSet([i \in D[m] |-> g[<<m, i>>]], D[m])

\* R sums the rows of A, C its columns.
Crossed(N, K, A, R, C) ==
    /\ IsFiniteSet(N) /\ IsFiniteSet(K) /\ \A n \in N : \A k \in K : A[<<n, k>>] \in Int
    /\ \A n \in N : R[n] = SumFunctionOnSet([k \in K |-> A[<<n, k>>]], K)
    /\ \A k \in K : C[k] = SumFunctionOnSet([n \in N |-> A[<<n, k>>]], N)

---------------------------------------------------------------------------
(* The groups of a bill's rows. *)

\* The entries of one comparison as ComparedOnce has them.
Once(c) ==
    /\ UNION {x.rows : x \in c.entries} = c.rows
    /\ \A x, y \in c.entries : x # y => x.rows \cap y.rows = {} /\ (x.child = y.child => x.child = NoRow)

Billed(v) == {CompareGroup(v, GroupOf(v, i)) : i \in DOMAIN v.rows}
Absent(v) ==
    {CalcOnly(v, c) : c \in {c \in v.active \ {x.child : x \in Billed(v)} :
        ~AllInBill(v, c) /\ PickActive(v.preloaded[c], v.month) # NoRow}}

\* The row a group is filed under is one of the group.
FiledUnder(v, group) ==
    LET regular == {i \in group : OfType(v.rows[i].payments, "regular") # {}}
    IN  Min(IF regular = {} THEN group ELSE regular)

ChildOf(v, i) == IF Resolved(v, v.rows[i].number) THEN v.childOf[v.rows[i].number] ELSE NoRow

\* What the comparison of one child makes of a group of rows.
FiguresOf(v, group) ==
    LET row == MergeBillChildren(v.rows, group)
        child == IF Resolved(v, row.number) THEN v.childOf[row.number] ELSE NoRow
    IN  ComputeChildComparison(row.payments,
            IF child = NoRow THEN NoRow ELSE v.contractOf[child],
            IF child \in v.active THEN FundingAgeOnDate(Born[child], v.month) ELSE NoRow,
            v.month, v.funding)

---------------------------------------------------------------------------
(* What a child is billed and what it earns. *)

Finite(f) == Summands(f, DOMAIN f)
Payments(S) == IsFiniteSet(S) /\ \A p \in S : p.amount \in Int
RatesOf(period) == \A i \in DOMAIN period.rates : period.rates[i].pay \in Int /\ period.rates[i].req \in Int
Fundings(periods) ==
    /\ DOMAIN periods \subseteq Nat /\ IsFiniteSet(DOMAIN periods)
    /\ \A i \in DOMAIN periods :
         /\ periods[i].from \in Int /\ periods[i].hours \in Int /\ RatesOf(periods[i])
         /\ DOMAIN periods[i].rates \subseteq Nat /\ IsFiniteSet(DOMAIN periods[i].rates)

\* The lists that a period is found in.
Dated(periods) ==
    DOMAIN periods \subseteq Nat /\ IsFiniteSet(DOMAIN periods) /\ \A i \in DOMAIN periods : periods[i].from \in Int

---------------------------------------------------------------------------
(* An entry's difference, and its pieces. *)

Differences(properties, amount) ==
    LET f == [kv \in DOMAIN properties |-> properties[kv].difference]
    IN  Finite(f) /\ SumFunction(f) = amount

\* What an entry's status says of its two sides.
Sides(x) ==
    /\ x.bill \in Int
    /\ \/ x.status \in {"bill_only", "no_funding_config"} /\ x.calc = NoRow
       \/ x.status \in {"not_billed", "calc_only"} /\ x.calc \in Int /\ (x.status = "calc_only" => x.bill = 0)
       \/ /\ x.status \in {"match", "difference"} /\ x.calc \in Int
          /\ Differences(x.properties, x.bill - x.calc)

\* What an entry contributes to the difference of its comparison.
Net(x) ==
    IF x.status = "no_funding_config" THEN 0
    ELSE x.bill - IF x.calc = NoRow THEN 0 ELSE x.calc

\* The pieces of an entry are its own, and come to that.
Cut(x) ==
    /\ Summands([p \in Pieces(x) |-> p.amount], Pieces(x))
    /\ \A p \in Pieces(x) : p.entry = x /\ p.category \in Categories
    /\ SumFunctionOnSet([p \in Pieces(x) |-> p.amount], Pieces(x)) = Net(x)

---------------------------------------------------------------------------
(* The totals of a comparison. *)

BillsRows(rows) ==
    /\ DOMAIN rows \subseteq Nat /\ IsFiniteSet(DOMAIN rows)
    /\ \A i \in DOMAIN rows : Payments(rows[i].payments)

\* What a comparison is computed from.
Readable(v) == BillsRows(v.rows) /\ Fundings(v.funding) /\ v.active \subseteq Children

\* Its totals differ by what its entries contribute.
Balanced(c) ==
    /\ IsFiniteSet(c.entries) /\ \A x \in c.entries : Sides(x) /\ x.month = c.month
    /\ c.bill \in Int /\ c.calc \in Int
    /\ c.bill - c.calc = SumFunctionOnSet([x \in c.entries |-> Net(x)], c.entries)

---------------------------------------------------------------------------
(* Payments of several rows. *)

\* The sets S[i] of payments have no payment in common.
Disjoint(S, I) ==
    IsFiniteSet(I) /\ \A i \in I : Payments(S[i]) /\ \A j \in I \ {i} : S[i] \cap S[j] = {}

\* No payment is of two rows of a bill, and each is about a month there is.
Apart(rows) ==
    /\ BillsRows(rows)
    /\ \A i \in DOMAIN rows :
         /\ \A j \in DOMAIN rows \ {i} : rows[i].payments \cap rows[j].payments = {}
         /\ \A p \in rows[i].payments : p.month \in Months \cup {NoRow}

PaymentsOf(rows, I) == UNION {rows[i].payments : i \in I}

\* What the rows carry is in the entries: paid is of a row, worth of an entry.
Carried(v, paid, worth) ==
    /\ Summands(paid, DOMAIN v.rows)
    /\ \A x \in Billed(v) : worth[x] = SumFunctionOnSet(paid, x.rows)
    /\ \A x \in Absent(v) : worth[x] = 0

---------------------------------------------------------------------------
(* The summary. *)

\* Comparisons of different months.
Separate(cs) ==
    /\ IsFiniteSet(cs) /\ \A c \in cs : Balanced(c)
    /\ \A c, d \in cs : c.month = d.month => c = d

EntriesOf(cs) == UNION {c.entries : c \in cs}
PiecesOf(cs) == UNION {Pieces(x) : x \in EntriesOf(cs)}
Worth(S) == SumFunction([p \in S |-> p.amount])

\* F gives the worth of the pieces of each class, by category or by issue.
Classed(S, of, K, F) ==
    /\ IsFiniteSet(K) /\ \A p \in S : of[p] \in K
    /\ \A k \in K : F[k] = Worth({p \in S : of[p] = k})

Flagged(cs) == {p \in PiecesOf(cs) : p.category # "rate_difference" /\ p.amount # 0}
CategoryWorth(cs, cat) == Worth({p \in PiecesOf(cs) : p.category = cat})
SettledOf(cs, k) == SumFunction([p \in {p \in Flagged(cs) : IssueOf(p) = k} |-> p.entry.settled])
Issued(cs, k) ==
    LET total == Worth({p \in Flagged(cs) : IssueOf(p) = k})
    IN  [issue |-> k, total |-> total, settled |-> SettledOf(cs, k),
         actionable |-> SettledOf(cs, k) = 0 \/ total + SettledOf(cs, k) # 0]

\* The property, of one list of comparisons.
Exact(comparisons) ==
    LET s == BuildComparisonSummary(comparisons)
        difference == s.billed - s.calculated
    IN  /\ SumFunction(s.category) = difference
        /\ SumFunction([i \in s.issues |-> i.total]) + s.category["rate_difference"] = difference

---------------------------------------------------------------------------
(* The lines of a file. *)

\* The entries of a line are numbers for different properties, one of them for the meals.
Itemized(S) ==
    /\ Payments(S) /\ \A x, y \in S : x.kv = y.kv => x = y
    /\ \E x \in S : x.kv = Meals

\* A table of lines.
Lines(lines) ==
    /\ DOMAIN lines \subseteq Nat /\ IsFiniteSet(DOMAIN lines)
    /\ \A i \in DOMAIN lines : lines[i] \in SheetLines /\ lines[i].voucher \in Numbers

TypeOf(line) == IF line.typ = "K" THEN "correction" ELSE "regular"

---------------------------------------------------------------------------
(* The tables that an import leaves. *)

RateTable(rates) ==
    /\ DOMAIN rates \subseteq Nat \ {0} /\ IsFiniteSet(DOMAIN rates) /\ rates = [i \in DOMAIN rates |-> rates[i]]
    /\ \A i \in DOMAIN rates : rates[i] \in RateRows

PeriodTable(period) ==
    /\ period = [from |-> period.from, to |-> period.to, hours |-> period.hours, required |-> period.required,
                 rates |-> period.rates]
    /\ period.from \in Int /\ period.to \in Int /\ period.hours \in Int /\ RateTable(period.rates)

Configuration(rows) ==
    /\ DOMAIN rows \subseteq Nat /\ IsFiniteSet(DOMAIN rows) /\ rows = [i \in DOMAIN rows |-> rows[i]]
    /\ \A i \in DOMAIN rows : PeriodTable(rows[i])

WithRates(period, rates) ==
    [from |-> period.from, to |-> period.to, hours |-> period.hours, required |-> period.required, rates |-> rates]

Applied(done, stored, file, n) ==
    done = [k \in 0..n |-> IF k = 0 THEN [ok |-> TRUE, rows |-> stored] ELSE ApplyPeriod(stored, done[k - 1], file[k])]

---------------------------------------------------------------------------
(* What an import leaves: rates, periods, the file. *)

Starts(file, n) == {file[k].from : k \in 1..n}

\* What the first periods of the file have made of what was stored.
Follows(rows, stored, file, n) ==
    /\ Configuration(rows) /\ InOrder(rows) /\ DOMAIN stored \subseteq DOMAIN rows
    /\ \A i \in DOMAIN stored : /\ rows[i].from = stored[i].from
                                /\ stored[i].from \notin Starts(file, n) => rows[i] = stored[i]
    /\ \A i \in DOMAIN rows \ DOMAIN stored : rows[i].from \in Starts(file, n)
    /\ \A k \in 1..n : \E i \in DOMAIN rows : FilledAs(rows[i], file[k])

\* One row more, or another one in its place.
Puts(R, rows, i, w) ==
    /\ Configuration(R) /\ DOMAIN R = DOMAIN rows \cup {i} /\ R[i] = w
    /\ \A k \in DOMAIN rows \ {i} : R[k] = rows[k] /\ rows[k].from # w.from /\ ~RowsOverlap(rows[k], w)
    /\ RatesApart(w.rates) /\ (i \in DOMAIN rows => rows[i].from = w.from)

\* A configuration in order, and a file that names each start, and each rate of a period, once.
Orderly(stored, file) ==
    /\ Configuration(stored) /\ InOrder(stored) /\ file \in Seq(PeriodRows) /\ StartsApart(file)
    /\ \A k \in DOMAIN file : RatesApart(file[k].rates)

---------------------------------------------------------------------------
(* What is stored of a file. *)

LinesOf(lines, n) == {j \in DOMAIN lines : lines[j].voucher = n}
FirstOf(lines, i) == Min(LinesOf(lines, lines[i].voucher))

---------------------------------------------------------------------------
(* What is compared of a bill that came of a file. *)

Paid(rows) == [i \in DOMAIN rows |-> Total(rows[i].payments)]

---------------------------------------------------------------------------
(* The corrections, by bill and by the month they are about. *)

CorrectionsOf(rows) == [i \in DOMAIN rows |-> Total(OfType(rows[i].payments, "correction"))]

\* What the reports of one moment are computed from.
Tabled(t) == Fundings(t.funding) /\ \A m \in Months : HasBill(t, m) => Apart(t.bills[m].rows)

BilledMonths(t) == {m \in Months : HasBill(t, m)}
MonthCorrections(t) ==
    [m \in BilledMonths(t) |-> SumFunctionOnSet(CorrectionsOf(t.bills[m].rows), DOMAIN t.bills[m].rows)]

\* A view of the tables t that was read at once.
Shot(v, t, m) ==
    /\ v.month = m /\ v.rows = t.bills[m].rows /\ v.funding = t.funding /\ v.childOf = t.linked
    /\ v.contractOf = [c \in Children |-> PickActive(ContractsOf(t, c), m)]
    /\ v.active = {c \in Children : PickActive(ContractsOf(t, c), m) # NoRow}

---------------------------------------------------------------------------
(* A child's history. *)

ContractAt(t, c, m) == PickActive(ContractsOf(t, c), m)

\* What the comparison of one child makes of the rows that name it.
ChildFigures(t, c, m) ==
    ComputeChildComparison(PaymentsOf(t.bills[m].rows, RowsOf(t, c, m)), ContractAt(t, c, m),
                           FundingAgeOnDate(Born[c], m), m, t.funding)

\* The entry of one bill.
HistoryOf(t, c, m) ==
    LET comp == ChildFigures(t, c, m)
    IN  [status |-> IF ContractAt(t, c, m) = NoRow THEN "no_contract" ELSE comp.status, bill |-> comp.bill,
         correction |-> comp.correction, calc |-> comp.calc, properties |-> comp.properties,
         month |-> m, rows |-> RowsOf(t, c, m)]

ListedMonths(t, c) == {n[1] : n \in Named(t, c)}

\* What the rows of a bill are paid regularly for the child.
RegularOf(t, c, m) ==
    [i \in RowsOf(t, c, m) |-> Total(OfType(t.bills[m].rows[i].payments, "regular"))]

\* What the child's contract earns in a month, as its list of children has it.
EarnedAt(t, c, m) ==
    LET contract == ContractAt(t, c, m)
    IN  IF contract = NoRow THEN 0
        ELSE SumFunction(CalcAmounts(FundingAgeOnDate(Born[c], m), contract.props, FindPeriodForDate(t.funding, m)))

\* What the reports of one moment say agrees.
Agreed(l) ==
    /\ \A comparison \in l.comparisons : HistoryIsCompared(l.history, comparison)
    /\ \A c \in Children : TotalsAreHistory(l.history[c], l.summary[c])
    /\ SumFunction([x \in l.comparisons |-> x.correction]) = SumFunctionOnSet(l.attributed, Months)

---------------------------------------------------------------------------
(* Step promotions. *)

\* Contracts that a month has one of at most.
Spans(rows) ==
    OneAtATime(rows) /\ NoRow \notin rows /\ \A k \in rows : k.from \in Int /\ k.to \in Int /\ k.id \in Nat

\* A dataset has its parts, and the staff is known.
Staffed(d) ==
    /\ d = [bands |-> d.bands, children |-> d.children, staff |-> d.staff, funding |-> d.funding,
            plans |-> d.plans, items |-> d.items]
    /\ Employed(d.staff) /\ PayPlans(d.plans)

Eligible(d, e, m) ==
    DetermineEligibleStep(PayPlanPeriod(d, Contract(e, m), m).entries, Contract(e, m).grade, ServiceStart(e), m)

\* The employees who are due, what is announced of them, and each with its promotion granted.
Raises(d, m) ==
    {e \in Present(d.staff, m) :
        PayPlanPeriod(d, Contract(e, m), m) # NoRow /\ ~(Eligible(d, e, m) <= Contract(e, m).step)}

PromotionOf(d, e, m) ==
    [id |-> e.id, step |-> Eligible(d, e, m),
     delta |-> MonthlyCostDelta(PayPlanPeriod(d, Contract(e, m), m), Contract(e, m), Eligible(d, e, m))]

RaisedContract(d, e, m, c) == IF c = Contract(e, m) THEN [c EXCEPT !.step = Eligible(d, e, m)] ELSE c

AfterOf(d, e, m) ==
    IF e \in Raises(d, m) THEN [e EXCEPT !.contracts = {RaisedContract(d, e, m, c) : c \in e.contracts}] ELSE e

\* s is the step due of e, whose contract of the month is k, and f is e with it.
Granted(d, e, m, k, s, f) ==
    /\ k \in StaffContracts /\ k \in e.contracts /\ PayPeriod(PayPlanPeriod(d, k, m))
    /\ s \in Nat /\ k.step < s /\ <<k.grade, s>> \in DOMAIN PayPlanPeriod(d, k, m).entries
    /\ Contract(f, m) = [k EXCEPT !.step = s] /\ ServiceStart(f) = ServiceStart(e) /\ f.id = e.id

\* The gross and the employer's share of an employee; nothing without a contract or an amount.
CostOf(d, e, m) == EmployeeMonthlyCost(d, Contract(e, m), m)
IsPaid(d, e, m) == Contract(e, m) # NoRow /\ CostOf(d, e, m) # NoRow
GrossOf(d, e, m) == IF IsPaid(d, e, m) THEN CostOf(d, e, m).gross ELSE 0
EmployerOf(d, e, m) == IF IsPaid(d, e, m) THEN CostOf(d, e, m).employer ELSE 0

\* What can be said of an employee's cost, whichever dataset it is in.
Costed(d, e, m) == GrossOf(d, e, m) \in Int /\ EmployerOf(d, e, m) \in Int

\* The contract is one of an employee, and what follows for an employee who is paid.
Hired(e, m) == Contract(e, m) # NoRow => Contract(e, m) \in StaffContracts

PaidAs(d, e, m, k, period) ==
    /\ period # NoRow /\ <<k.grade, k.step>> \in DOMAIN period.entries
    /\ GrossOf(d, e, m) = Gross(period, k, k.step)
    /\ EmployerOf(d, e, m) = Rounded(GrossOf(d, e, m) * period.rate, 10000)

---------------------------------------------------------------------------
(* The statistics of one month. *)

\* F counts the elements of S that e puts into each class.
Tallied(S, e, K, F) ==
    /\ IsFiniteSet(S) /\ IsFiniteSet(K) /\ \A x \in S : e[x] \in K
    /\ \A k \in K : F[k] = Cardinality({x \in S : e[x] = k})

\* A dataset whose children can be counted: they have ids, and there are finitely many bands
\* and cells.  The bands are listed by their lower bounds.
Banded(d) ==
    /\ DOMAIN d.bands \subseteq Nat /\ IsFiniteSet(DOMAIN d.bands)
    /\ \A i \in DOMAIN d.bands : d.bands[i][1] \in Int /\ d.bands[i][2] \in Int
    /\ \A i, j \in DOMAIN d.bands : i < j => d.bands[i][1] <= d.bands[j][1]

Enrolled(d) ==
    /\ IsFiniteSet(d.children) /\ \A x, y \in d.children : x.id = y.id => x = y
    /\ \A x \in d.children : x.born \in [month : Int, first : BOOLEAN]
    /\ Fundings(d.funding) /\ Banded(d)

\* The cells there are; the bands and the care types a child may be drawn in.
Cells(d) == ToSet(d.bands) \X CareTypes(d.funding)
Fitting(d, child, m) ==
    {b \in ToSet(d.bands) : b[1] <= FundingAgeOnDate(child.born, m) /\ FundingAgeOnDate(child.born, m) <= b[2]}
TypesOf(d, child, m) == PickCareType(Contract(child, m).props) \cap CareTypes(d.funding)

\* The children drawn in cells of C.
DrawnIn(d, m, C) == {x \in Present(d.children, m) : CellsOf(d, x, m) \cap C # {}}

\* The children are those of the tables.
Registered(d) == \A x \in d.children : x.id \in Children /\ x.born = Born[x.id]

\* What a child earns in a month, and the list of what the children earn.
PayOf(d, child, m) == TotalPay(Entitlements(d, child, m))
RestOf(d, child, m) == Contract(child, m).props \ {rate.kv : rate \in Entitlements(d, child, m)}
EarnerOf(d, child, m) == [child |-> child.id, funding |-> PayOf(d, child, m), unmatched |-> RestOf(d, child, m)]

---------------------------------------------------------------------------
(* A bill's comparison, and the income of its month. *)

\* The vouchers are children's, and the bills' numbers are vouchers'.
Linked(t) ==
    /\ \A n \in Numbers : t.linked[n] \in Children \cup {NoRow}
    /\ \A m \in BilledMonths(t) : \A i \in DOMAIN t.bills[m].rows : t.bills[m].rows[i].number \in Numbers

\* A view of one moment in all its parts.
FullShot(v, t, m) ==
    /\ Shot(v, t, m) /\ v.preloaded = ActiveContracts(t, m) /\ v.vouchersOf = VouchersOf(t)

\* The children with a contract in the month.
Attending(t, m) == {c \in Children : ContractAt(t, c, m) # NoRow}

\* A dataset of these tables: its children are those with contracts, in one piece.
ChildOfTables(t, c) == [id |-> c, born |-> Born[c], contracts |-> ContractsOf(t, c)]
DataOf(d, t) ==
    /\ d.children = {ChildOfTables(t, c) : c \in {c \in Children : ContractsOf(t, c) # {}}}
    /\ d.funding = t.funding

---------------------------------------------------------------------------
(* Persons exchanged for others like them. *)

\* One contract is the other under another id.
Copy(k, l, rows) == k \in rows /\ l \in rows /\ l = [k EXCEPT !.id = l.id]

\* e takes the persons of S to those of T, whose contracts in the month are like theirs.
Exchange(S, T, e, m, rows) ==
    /\ IsFiniteSet(S) /\ Image(e, S, T) /\ \A x, y \in S : e[x] = e[y] => x = y
    /\ \A x \in S : Copy(Contract(x, m), Contract(e[x], m), rows)

\* The children of a month exchanged; the bands may be listed in another order.
ChildrenExchanged(d, f, e, m) ==
    /\ Exchange(Present(d.children, m), Present(f.children, m), e, m, ContractRows)
    /\ \A x \in Present(d.children, m) : e[x].born = x.born
    /\ f.funding = d.funding /\ ToSet(f.bands) = ToSet(d.bands)
    /\ Enrolled(d) /\ Enrolled(f)

\* The employees of a month exchanged.
StaffExchanged(d, f, e, m) ==
    /\ Exchange(Present(d.staff, m), Present(f.staff, m), e, m, StaffContracts)
    /\ f.plans = d.plans /\ PayPlans(d.plans)

\* What the people of a month are paid, and what they cost besides.
PaidIn(d, m) == {x \in Present(d.staff, m) : EmployeeMonthlyCost(d, Contract(x, m), m) # NoRow}
GrossSum(d, m) == SumFunction([x \in PaidIn(d, m) |-> EmployeeMonthlyCost(d, Contract(x, m), m).gross])
EmployerSum(d, m) == SumFunction([x \in PaidIn(d, m) |-> EmployeeMonthlyCost(d, Contract(x, m), m).employer])
PaySum(d, m) == SumFunction([x \in Present(d.children, m) |-> PayOf(d, x, m)])
BudgetSum(items, m, count, income) ==
    SumFunction([item \in {item \in items : item.income = income} |-> BudgetAmount(item, m, count)])

\* The hours that a child requires, and the pedagogical staff of a month.
RequiredOf(d, child, m) ==
    SumFunction([rate \in Entitlements(d, child, m) |-> rate.req * FindPeriodForDate(d.funding, m).hours])
Teaching(d, m) == {x \in Present(d.staff, m) : Contract(x, m).category \in Pedagogical}
Pedagogue(e) == [id |-> e.id, contracts |-> {c \in e.contracts : c.category \in Pedagogical}]

---------------------------------------------------------------------------
(* Persons taken on again, in a list and under new ids. *)

\* The elements of a set in a list, each once.
Listed(s, S) ==
    /\ s \in Seq(S) /\ s = [i \in DOMAIN s |-> s[i]]
    /\ DOMAIN s = 1..Len(s) /\ Len(s) \in Nat /\ Image(s, DOMAIN s, S)
    /\ \A i, j \in DOMAIN s : s[i] = s[j] => i = j

\* Ids given out one person after the other.
Given(w, n, i) == n + SumFunction([j \in 1..i - 1 |-> w[j]])

\* Contracts that can take another id.
Reidentified(U) ==
    /\ NoRow \notin U
    /\ \A k \in U :
        /\ k.from \in Int /\ k.to \in Int /\ k.id \in Nat /\ [k EXCEPT !.id = k.id] = k
        /\ \A i \in Nat : LET l == [k EXCEPT !.id = i]
                          IN  l \in U /\ l.id = i /\ l.from = k.from /\ l.to = k.to

\* No contract of the one where the other has none, and else the same one.
Alike(k, l, U) == (k = NoRow <=> l = NoRow) /\ (k # NoRow => Copy(k, l, U))

NumberedFrom(s, n) == {[s[k] EXCEPT !.id = n + k] : k \in DOMAIN s}

\* A person; and taken on with ids from n on, its contracts in a list.
Employee(p) == p = [id |-> p.id, contracts |-> p.contracts]
Child(p) == p = [id |-> p.id, born |-> p.born, contracts |-> p.contracts]
TakenOn(p, n) == [p EXCEPT !.id = n, !.contracts = NumberedFrom(p.contracts, n)]

\* w gives the persons of P with their contracts in lists.
InLists(w, P) ==
    \A p \in P : w[p] = [p EXCEPT !.contracts = w[p].contracts] /\ Listed(w[p].contracts, p.contracts)

\* The persons of P, each with its contracts in a list, are those in the list L.
Entered(L, P) == \E w : InLists(w, P) /\ Listed(L, {w[p] : p \in P})

\* These in the list L, and an id for each place of it.
Readmission(P, w, L, num) ==
    /\ \A p \in P : Employee(p) \/ Child(p)
    /\ \A p, u \in P : p.id = u.id => p = u
    /\ InLists(w, P) /\ Listed(L, {w[p] : p \in P})
    /\ \A i, j \in DOMAIN L : num[i] = num[j] => i = j

HiredOf(P) == {p \in P : p.contracts # {}}
PlaceOf(L, w, p) == CHOOSE i \in DOMAIN L : L[i] = w[p]
NewOf(L, w, num, p) == TakenOn(w[p], num[PlaceOf(L, w, p)])
Readmitted(L, num) == {TakenOn(L[i], num[i]) : i \in {i \in DOMAIN L : L[i].contracts # <<>>}}

\* Of the persons of S who have contracts, e makes those of T.
Renewed(S, T, e, U) ==
    /\ IsFiniteSet(S) /\ Image(e, HiredOf(S), T)
    /\ \A p, u \in HiredOf(S) : e[p] = e[u] => p = u
    /\ \A p \in HiredOf(S) : \A m \in Int : Alike(Contract(p, m), Contract(e[p], m), U)

---------------------------------------------------------------------------
(* The forecast with contracts added, and with persons exchanged for hypothetical ones. *)

\* A person with what is added to it.
AddedTo(p, added) == {a.contract : a \in {a \in added : a.to = p.id}}
Plus(p, added) == [p EXCEPT !.contracts = @ \cup AddedTo(p, added)]

\* An overlay: who is left, with what is added, and those of the lists under new ids.
KeptOf(d, o) ==
    [d EXCEPT !.children = Extend({c \in @ : c.id \notin o.removeChildren},
                                  {[a EXCEPT !.contract = Completed(d, @)] : a \in o.addChildContracts}),
              !.staff = Extend({e \in @ : e.id \notin o.removeEmployees}, o.addEmployeeContracts)]
IdsOf(L, n) == [i \in DOMAIN L |-> n + SumFunction([j \in 1..i - 1 |-> 1 + Len(L[j].contracts)])]
PeopleIn(L, num, I) == {TakenOn(L[i], num[i]) : i \in {i \in I : L[i].contracts # <<>>}}
ListCompleted(d, s) == [k \in DOMAIN s |-> Completed(d, s[k])]
CompletedList(d, L) == [i \in DOMAIN L |-> [L[i] EXCEPT !.contracts = ListCompleted(d, @)]]

\* A dataset whose children can be exchanged: they have contracts, one at a time, and the
\* rates that complete them have keys and values.
Whole(d) ==
    /\ Staffed(d) /\ Enrolled(d)
    /\ \A x \in d.children : /\ Child(x) /\ x.id \in Nat /\ x.contracts # {}
                             /\ x.contracts \subseteq ContractRows /\ OneAtATime(x.contracts)
    /\ \A i \in DOMAIN d.funding : \A j \in DOMAIN d.funding[i].rates : d.funding[i].rates[j].kv \in KVs

\* The same dataset, with its bands in another order.
Reordered(d, f) == f = [d EXCEPT !.bands = f.bands] /\ ToSet(f.bands) = ToSet(d.bands)

\* What an extension adds to the children, completed; and the dataset with it.
More(d) == {[a EXCEPT !.contract = Completed(d, @)] : a \in Extension(d).addChildContracts}
Grown(d) == [d EXCEPT !.children = Extend(@, More(d)), !.staff = Extend(@, Added.staff)]

\* Whom a replacement takes on again, as it enters them.
GoingOf(d) == {x \in d.children : \A k \in x.contracts : Complete(d, k) /\ Accepted(d, k)}
Anew(p, added) == [p EXCEPT !.contracts = SetToSeq(@ \cup AddedTo(p, added))]

\* G leave and are taken on again with the staff: their lists, and the ids along both.
ReplacementPlan(d, G, A, B, v, w, kept, id) ==
    /\ InLists(v, d.staff) /\ Listed(A, {v[x] : x \in d.staff})
    /\ InLists(w, G) /\ Listed(B, {w[x] : x \in G})
    /\ kept = [bands |-> d.bands, children |-> d.children \ G, staff |-> {}, funding |-> d.funding,
               plans |-> d.plans, items |-> d.items]
    /\ id = IdsOf(A \o B, FreeId(kept))

\* The plan carried out: who is taken on again under which ids.
PlanDone(d, G, A, B, v, w, kept, id, forStaff, forChildren) ==
    /\ Readmission(d.staff, v, A, forStaff) /\ Readmission(G, w, B, forChildren)
    /\ \A i \in DOMAIN A : forStaff[i] \in Nat
    /\ \A j \in DOMAIN B : forChildren[j] \in Nat /\ \A x \in kept.children : x.id < forChildren[j]
    /\ PeopleIn(A \o B, id, DOMAIN A) = Readmitted(A, forStaff)
    /\ PeopleIn(A \o B, id, DOMAIN (A \o B) \ DOMAIN A) = Readmitted(B, forChildren)

\* What FiguresAgree says of one report, and the forecasts it is about.
Figured(l) ==
    /\ \A figures \in {l.figures} \cup l.forecasts : \A m \in Months : ChildrenAddUp(figures[m])
    /\ \A m \in Months : AgesFollowBirthdays(l.figures[m], m)
    /\ \A comparison \in l.comparisons :
            MeasuredAgainstIncome(comparison, l.figures[comparison.month].forecast.financials)
    /\ \A one, other \in l.forecasts : \A m \in Months : SameForecast(one[m].forecast, other[m].forecast)

BothForecasts(one, other) == {EveryMonth(ApplyOverlay(one, Extension(one))), EveryMonth(ApplyOverlay(other, Replacement(other)))}

\* A dataset of the tables as they are.
Drawn(d) == /\ DataOf(d, Tables) /\ Whole(d) /\ Registered(d) /\ Employed(Extend(d.staff, Added.staff))

---------------------------------------------------------------------------
(* The invariant. *)

\* A bill is one of those there are at first, or what is stored of a file that adds up.
Kept(b) ==
    b # NoRow =>
        /\ Apart(b.rows) /\ \A i \in DOMAIN b.rows : b.rows[i].number \in Numbers
        /\ \/ b.file = NoRow /\ b.booked = NoRow
           \/ b.file \in Books /\ Vouchers(b.file) # {} /\ ReconcilesWithHeader(b.file) /\ b = Convert(b.file)

\* Of the children's contracts no child has two at a time.
Contracted(rows) == rows \subseteq ContractRows /\ \A c \in Children : OneAtATime({k \in rows : k.child = c})

Stored ==
    /\ Contracted(contracts) /\ linked \in [Numbers -> Children \cup {NoRow}] /\ Fundings(funding)
    /\ Configuration(funding) /\ DOMAIN bills = Months /\ \A m \in Months : Kept(bills[m])

Viewed(v) ==
    /\ v = [month |-> v.month, rows |-> v.rows, funding |-> v.funding, childOf |-> v.childOf,
            contractOf |-> v.contractOf, active |-> v.active, preloaded |-> v.preloaded,
            settled |-> v.settled, vouchersOf |-> v.vouchersOf]
    /\ v.month \in Int /\ Readable(v)

\* The comparisons made so far, all of earlier months.
Compared(comparisons, month) ==
    /\ \E S : comparisons \in Seq(S)
    /\ Separate(ToSet(comparisons))
    /\ \A c \in ToSet(comparisons) : Once(c) /\ c.month \in Int /\ c.month < month

BookedIsCompared(l) ==
    \A c \in l.comparisons :
        l.booked[c.month] = NoRow \/ SumFunction([x \in c.entries |-> x.bill + x.correction]) = l.booked[c.month]

\* What PromotionsPriced says of a month, and of the months of one report.
PricedMonth(promoted) ==
    LET announced == SumFunction([p \in promoted.due |-> p.delta])
        rise == Expenses(promoted.after) - Expenses(promoted.before)
    IN  /\ Abs(rise - announced) <= Cardinality(promoted.due)
        /\ promoted.left = {}
        /\ promoted.after.staffCount = promoted.before.staffCount

Priced(l) == \A m \in Months : PricedMonth(l.promoted[m])

Reported(p, month) ==
    /\ p = [comparisons |-> p.comparisons, attributed |-> p.attributed, corrections |-> p.corrections, loaded |-> p.loaded]
    /\ Compared(p.comparisons, month)
    /\ p.loaded # NoRow => BookedIsCompared(p.loaded) /\ Agreed(p.loaded) /\ Priced(p.loaded) /\ Figured(p.loaded)

\* The stages at which a comparison is at a month.
Comparing == {"compare", "findFunding", "resolveVouchers", "resolveContracts", "findActive", "preload",
              "findSettled", "findVouchers"}

\* The stages at which what a request writes depends on more than its stage.
Writing == {"link", "write", "configure", "import", "upload"}

\* What a request has read and reported.
Reader(r) ==
    /\ menu[r] \in SUBSET Request
    /\ pc[r] = "idle" => report[r] = NoReport
    /\ pc[r] # "idle" => q[r] \in Request
    /\ pc[r] \in Writing => q[r].kind = pc[r]
    /\ pc[r] \in Comparing => q[r].kind = "compare" /\ view[r].month >= 1
    /\ Viewed(view[r]) /\ Reported(report[r], view[r].month)

Functions4 == DOMAIN pc = Reqs /\ DOMAIN q = Reqs /\ DOMAIN view = Reqs /\ DOMAIN report = Reqs

ReportsInv == Stored /\ Functions4 /\ \A r \in Reqs : Reader(r)

\* The value of one argument changes, and no other.
Changed(f, g, a, b) == DOMAIN g = DOMAIN f /\ \A s \in DOMAIN f : g[s] = IF s = a THEN b ELSE f[s]

\* A request that has been sent, where it may go on, and its view.
Going(r, stage, v) ==
    /\ r \in Reqs /\ pc[r] # "idle" /\ stage \notin Writing \cup {"idle"}
    /\ stage \in Comparing => pc[r] \in Comparing
    /\ Viewed(v) /\ view[r].month <= v.month /\ UNCHANGED <<q, clientVars>>

---------------------------------------------------------------------------
(* Imports. *)

\* A request has no answer until it is done.
Unanswered == DOMAIN pc = Reqs /\ DOMAIN resp = Reqs /\ \A r \in Reqs : pc[r] # "done" => resp[r] = "none"
=============================================================================

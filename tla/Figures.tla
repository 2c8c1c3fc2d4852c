--------------------------------- MODULE Figures ---------------------------------
(***************************************************************************)
(* The statistics of a month, computed from a dataset d: income and           *)
(* expenses, staffing hours, occupancy, ages, the funding of each child; and  *)
(* the forecast, which computes the same from a dataset with an overlay.      *)
(*   d.children: set of [id, born, contracts]   d.staff: set of [id, contracts] *)
(*   d.funding, d.plans: lists of periods       d.items: set of budget items   *)
(*   d.bands: the age bands, in the order this calculation has them            *)
(***************************************************************************)
EXTENDS Rates

CONSTANTS
    CareType,    \* the property key of the care a child has
    LeapMonths   \* the months with a leap day

Pedagogical == {"qualified", "supplementary"}

Present(people, m) == {p \in people : PickActive(p.contracts, m) # NoRow}
Contract(p, m) == PickActive(p.contracts, m)

Entitlements(d, child, m) ==
    MatchFundingProperties(FundingAgeOnDate(child.born, m), Contract(child, m).props,
                           FindPeriodForDate(d.funding, m))

---------------------------------------------------------------------------
(* Income and expenses. *)

Abs(n) == IF n < 0 THEN -n ELSE n

\* Half away from zero.
Rounded(a, b) == LET up == (2 * Abs(a) + b) \div (2 * b) IN IF a < 0 THEN -up ELSE up

PayPlanPeriod(d, contract, m) ==
    IF contract.plan \in DOMAIN d.plans THEN FindPeriodForDate(d.plans[contract.plan], m) ELSE NoRow

Gross(period, contract, step) == Rounded(period.entries[<<contract.grade, step>>].amount * contract.hours, period.hours)
Contribution(period, gross) == Rounded(gross * period.rate, 10000)

\* Nothing for a plan, a period or an entry that is missing.
EmployeeMonthlyCost(d, contract, m) ==
    LET period == PayPlanPeriod(d, contract, m)
    IN  IF period = NoRow \/ <<contract.grade, contract.step>> \notin DOMAIN period.entries THEN NoRow
        ELSE LET gross == Gross(period, contract, contract.step)
             IN  [gross |-> gross, employer |-> Contribution(period, gross)]

BudgetAmount(item, m, childCount) ==
    LET entry == PickActive(item.entries, m)
    IN  IF entry = NoRow THEN 0 ELSE entry.amount * IF item.perChild THEN childCount ELSE 1

CalculateFinancials(d, m) ==
    LET present == Present(d.children, m)
        costs == [e \in Present(d.staff, m) |-> EmployeeMonthlyCost(d, Contract(e, m), m)]
        paid == {e \in DOMAIN costs : costs[e] # NoRow}
        Budget(income) == SumFunction([item \in {item \in d.items : item.income = income} |->
                                           BudgetAmount(item, m, Cardinality(present))])
        funding == SumFunction([child \in present |-> TotalPay(Entitlements(d, child, m))])
        gross == SumFunction([e \in paid |-> costs[e].gross])
        employer == SumFunction([e \in paid |-> costs[e].employer])
    IN  [fundingIncome |-> funding, grossSalary |-> gross, employerCosts |-> employer,
         balance |-> funding + Budget(TRUE) - gross - employer - Budget(FALSE),
         childCount |-> Cardinality(present), staffCount |-> Cardinality(DOMAIN costs)]

---------------------------------------------------------------------------
(* Step promotions. *)

ServiceStart(e) == Min({c.from : c \in e.contracts})

\* A year has 365 days and a quarter: at the anniversary itself the years are complete
\* only if enough leap days have passed.
YearsServed(start, m, years) ==
    LET leapDays == Cardinality({leap \in LeapMonths : start <= leap /\ leap < m})
    IN  \/ m - start > years * YearMonths
        \/ m - start = years * YearMonths /\ 4 * leapDays >= years

\* The highest step of the grade whose years are served; 0 where no step has a rule.
DetermineEligibleStep(entries, grade, start, m) ==
    Max({0} \cup {x[2] : x \in {x \in DOMAIN entries : x[1] = grade /\ entries[x].years # NoRow
                                                      /\ YearsServed(start, m, entries[x].years)}})

SalaryDelta(period, contract, step) ==
    Gross(period, contract, step)
      - IF <<contract.grade, contract.step>> \in DOMAIN period.entries THEN Gross(period, contract, contract.step) ELSE 0

\* Mutant: without the employer's share.
SalaryOnlyDelta(period, contract, step) == SalaryDelta(period, contract, step)

MonthlyCostDelta(period, contract, step) ==
    LET salary == SalaryDelta(period, contract, step) IN salary + Contribution(period, salary)

\* Of those with a contract in the month; their service counts from the first of all.
GetStepPromotions(d, m) ==
    LET priced == {e \in Present(d.staff, m) : PayPlanPeriod(d, Contract(e, m), m) # NoRow}
        Promotion(e) ==
            LET contract == Contract(e, m)
                period == PayPlanPeriod(d, contract, m)
                step == DetermineEligibleStep(period.entries, contract.grade, ServiceStart(e), m)
            IN  IF step <= contract.step THEN {}
                ELSE {[id |-> e.id, step |-> step, delta |-> MonthlyCostDelta(period, contract, step)]}
    IN  UNION {Promotion(e) : e \in priced}

\* The staff with the promotions granted.
AfterPromotions(d, m) ==
    LET due == GetStepPromotions(d, m)
        Raised(e) == {IF c = Contract(e, m) THEN [c EXCEPT !.step = (CHOOSE p \in due : p.id = e.id).step] ELSE c
                        : c \in e.contracts}
    IN  [d EXCEPT !.staff = {IF \E p \in due : p.id = e.id THEN [e EXCEPT !.contracts = Raised(e)] ELSE e : e \in @}]

---------------------------------------------------------------------------
(* Staffing, occupancy, ages, funding. *)

PedagogicalEmployees(d) ==
    {e \in {[id |-> e.id, contracts |-> {c \in e.contracts : c.category \in Pedagogical}] : e \in d.staff} :
        e.contracts # {}}

CalculateStaffingHours(d, m) ==
    LET period == FindPeriodForDate(d.funding, m)
        Required(child) == SumFunction([rate \in Entitlements(d, child, m) |-> rate.req * period.hours])
        staff == Present(PedagogicalEmployees(d), m)
    IN  [required |-> SumFunction([child \in Present(d.children, m) |-> Required(child)]),
         available |-> SumFunction([e \in staff |-> Contract(e, m).hours]),
         staffCount |-> Cardinality(staff)]

\* The care rates of the period that starts last.
StructureRates(periods) ==
    IF DOMAIN periods = {} THEN {}
    ELSE LET period == CHOOSE p \in ToSet(periods) : \A o \in ToSet(periods) : o.from <= p.from
         IN  {r \in ToSet(period.rates) : r.kv.key = CareType}

CareTypes(periods) == {r.kv.value : r \in StructureRates(periods)}

\* The age bands by their lower bound, in any order where it is the same.
BandOrders(periods) ==
    {bands \in SetToSeqs({<<r.min, r.max>> : r \in StructureRates(periods)}) :
        \A i, j \in DOMAIN bands : i < j => bands[i][1] <= bands[j][1]}

\* One of them.
PickCareType(props) ==
    LET values == {kv.value : kv \in {kv \in props : kv.key = CareType}}
    IN  IF values = {} THEN {} ELSE {Min(values)}

\* The cells a child is drawn in: of the first age band it is in, and its care type.
CellsOf(d, child, m) ==
    LET age == FundingAgeOnDate(child.born, m)
        hits == {i \in DOMAIN d.bands : d.bands[i][1] <= age /\ age <= d.bands[i][2]}
    IN  IF hits = {} THEN {}
        ELSE {d.bands[Min(hits)]} \X (PickCareType(Contract(child, m).props) \cap CareTypes(d.funding))

CalculateOccupancy(d, m) ==
    LET drawn == [child \in Present(d.children, m) |-> CellsOf(d, child, m)]
        Drawn(cells) == Cardinality({child \in DOMAIN drawn : drawn[child] = cells})
        Within(cell) == Cardinality({child \in DOMAIN drawn : cell \in drawn[child]})
    IN  [total |-> Cardinality(DOMAIN drawn),
         cell |-> [x \in ToSet(d.bands) \X CareTypes(d.funding) |-> Within(x)],
         unmatched |-> Drawn({})]

Buckets == 0..6
CalculateAgeDistribution(d, m) ==
    [bucket \in Buckets |-> Cardinality({child \in Present(d.children, m) :
        LET age == CalculateAgeOnDate(child.born, m)
        IN  age = bucket \/ (bucket = Max(Buckets) /\ age > bucket)})]

CalculateFunding(d, m) ==
    {[child |-> child.id, funding |-> TotalPay(Entitlements(d, child, m)),
      unmatched |-> Contract(child, m).props \ {rate.kv : rate \in Entitlements(d, child, m)}]
        : child \in Present(d.children, m)}

---------------------------------------------------------------------------
(* The forecast. *)

\* Of several values of one key the last as they are read.
AutoApplyProperties(period) ==
    LET all == {rate \in IF period = NoRow THEN {} ELSE ToSet(period.rates) : rate.all}
    IN  {rate.kv : rate \in {rate \in all : \A other \in all :
             other.kv.key = rate.kv.key => other.kv.value <= rate.kv.value}}

MergeDefaults(props, defaults) ==
    props \cup {kv \in defaults : \A have \in props : have.key # kv.key}

Completed(d, contract) ==
    [contract EXCEPT !.props = MergeDefaults(@, AutoApplyProperties(FindPeriodForDate(d.funding, contract.from)))]

\* One value of each key, all declared, and none that is required missing.
ValidProperties(d, contract) ==
    LET period == FindPeriodForDate(d.funding, contract.from)
    IN  period = NoRow \/
        /\ contract.props \subseteq {rate.kv : rate \in ToSet(period.rates)}
        /\ \A x, y \in contract.props : x.key = y.key => x = y
        /\ period.required \subseteq {x.key : x \in contract.props}

\* Ids above every id of the dataset.
FreeId(d) ==
    Max({0} \cup UNION {{p.id} \cup {c.id : c \in p.contracts} : p \in d.children \cup d.staff}) + 1

\* The people, each with the contracts added to it.
Extend(people, added) ==
    {[p EXCEPT !.contracts = @ \cup {a.contract : a \in {a \in added : a.to = p.id}}] : p \in people}

\* Removals first; an added contract of a removed person is dropped.  A hypothetical
\* person takes the next free id, its contracts the ones after; without one it is dropped.
ApplyOverlay(d, o) ==
    LET Complete(added) == [i \in DOMAIN added |-> Completed(d, added[i])]
        kept == [d EXCEPT
            !.children = Extend({c \in @ : c.id \notin o.removeChildren},
                                {[a EXCEPT !.contract = Completed(d, @)] : a \in o.addChildContracts}),
            !.staff = Extend({e \in @ : e.id \notin o.removeEmployees}, o.addEmployeeContracts)]
        added == o.addEmployees \o [i \in DOMAIN o.addChildren |->
                                      [o.addChildren[i] EXCEPT !.contracts = Complete(@)]]
        id == [i \in DOMAIN added |->
                  FreeId(kept) + SumFunction([j \in 1..i - 1 |-> 1 + Len(added[j].contracts)])]
        Numbered(i) == {[added[i].contracts[k] EXCEPT !.id = id[i] + k] : k \in DOMAIN added[i].contracts}
        People(I) == {[added[i] EXCEPT !.id = id[i], !.contracts = Numbered(i)] :
                         i \in {i \in I : added[i].contracts # <<>>}}
    IN  [kept EXCEPT !.staff = @ \cup People(DOMAIN o.addEmployees),
                     !.children = @ \cup People(DOMAIN added \ DOMAIN o.addEmployees)]

\* The figures of a month; the forecast has three of them, of a dataset with its overlay.
MonthFigures(f, m) ==
    [forecast |-> [financials |-> CalculateFinancials(f, m), staffing |-> CalculateStaffingHours(f, m),
                   occupancy |-> CalculateOccupancy(f, m)],
     ages |-> CalculateAgeDistribution(f, m), children |-> CalculateFunding(f, m)]
=============================================================================

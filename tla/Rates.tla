--------------------------------- MODULE Rates ---------------------------------
(***************************************************************************)
(* Which contract, which funding period and which of its rates apply to a    *)
(* child in a month: the lookups that the comparison of bills and every      *)
(* statistic share.  Dates are months; a month stands for its first day.     *)
(***************************************************************************)
EXTENDS Requests, FiniteSetsExt, SequencesExt

CONSTANTS
    Children,     \* ids
    Born,         \* per child the month of its birth, and whether on the first day of it
    LastMonth,
    YearMonths    \* months of a year

ASSUME RatesAssumption ==
    /\ Children \subseteq Nat \ {0}
    /\ Born \in [Children -> [month : Int, first : BOOLEAN]]
    /\ LastMonth \in Nat /\ YearMonths \in Nat \ {0}

Months == 1..LastMonth

\* The rows of a funding configuration as they are stated; a period's rates by id.
KVs == [key : STRING, value : Nat]
RateRows == [kv : KVs, min : Nat, max : Nat, pay : Int, req : Nat, all : BOOLEAN]
PeriodRows == [from : Int, to : Int, hours : Int, required : SUBSET STRING, rates : Seq(RateRows)]

ActiveOn(period, m) == period.from <= m /\ m <= period.to

\* Of the periods that cover the month the first one as they are read, the latest first.
FindPeriodForDate(periods, m) ==
    LET hits == {i \in DOMAIN periods : ActiveOn(periods[i], m)}
        latest == {i \in hits : \A j \in hits : periods[j].from <= periods[i].from}
    IN  IF hits = {} THEN NoRow ELSE periods[Min(latest)]

\* The latest start, then the highest id.
PickActive(contracts, m) ==
    LET active == {c \in contracts : ActiveOn(c, m)}
    IN  IF active = {} THEN NoRow
        ELSE CHOOSE c \in active :
                 \A d \in active : d.from < c.from \/ (d.from = c.from /\ d.id <= c.id)

Years(months) == IF months < 0 THEN 0 ELSE months \div YearMonths
CalculateAgeOnDate(born, m) == Years(m - born.month - IF born.first THEN 0 ELSE 1)

\* Mutant: a birthday counts for all of its month.
AgeInMonth(born, m) == Years(m - born.month)

\* The age on the day before: a birthday counts from the next month on.
FundingAgeOnDate(born, m) == Years(m - born.month - 1)

MatchesAge(rate, age) == rate.min <= age /\ age <= rate.max

\* Of the rates of one key and value the youngest is read first.
ReadBefore(rates, i, j) == rates[i].min < rates[j].min \/ (rates[i].min = rates[j].min /\ i < j)

\* The rates of a contract's properties, the first one of each key and value.
MatchFundingProperties(age, props, period) ==
    LET hits == IF period = NoRow THEN {}
                ELSE {i \in DOMAIN period.rates :
                         MatchesAge(period.rates[i], age) /\ period.rates[i].kv \in props}
    IN  {period.rates[i] : i \in {i \in hits :
             ~\E j \in hits : period.rates[j].kv = period.rates[i].kv /\ ReadBefore(period.rates, j, i)}}

TotalPay(rates) == SumFunction([rate \in rates |-> rate.pay])

CalcAmounts(age, props, period) ==
    LET matched == MatchFundingProperties(age, props, period)
    IN  [kv \in {rate.kv : rate \in matched} |-> TotalPay({rate \in matched : rate.kv = kv})]

=============================================================================

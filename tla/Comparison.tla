------------------------------- MODULE Comparison -------------------------------
(***************************************************************************)
(* What a funding bill says of each child against what its contract earns:   *)
(* the comparison of one bill, the summary of several, a child's history     *)
(* over all bills, and the totals of all children.  Each is computed from    *)
(* rows read before: a comparison from the view v its statements have left,  *)
(* a history from tables t.                                                  *)
(***************************************************************************)
EXTENDS Rates

CONSTANTS
    Numbers,               \* voucher numbers
    ContractPropertyKeys   \* the keys whose absence on one side is a mismatch

Categories == {"rate_difference", "property_mismatch", "not_billed", "bill_only", "calc_only"}

\* The payments of a bill's row, the line of its file they stand in, the month they are about.
PaymentRows == [line : Nat, kv : KVs, amount : Int, type : {"regular", "correction"}, month : Months \cup {NoRow}]
BillRows == [number : Numbers, payments : SUBSET PaymentRows]

OfType(payments, type) == {p \in payments : p.type = type}
Total(payments) == SumFunction([p \in payments |-> p.amount])
BillAmounts(payments) ==
    [kv \in {p.kv : p \in payments} |-> Total({p \in payments : p.kv = kv})]

At(amounts, kv) == IF kv \in DOMAIN amounts THEN amounts[kv] ELSE 0

Mismatch(billed, calculated, kv) ==
    LET Has(side) == \E other \in DOMAIN side : other.key = kv.key
    IN  IF kv.key \notin ContractPropertyKeys \/ (kv \in DOMAIN billed <=> kv \in DOMAIN calculated)
        THEN "none"
        ELSE IF Has(billed) /\ Has(calculated) THEN "different"
        ELSE IF Has(billed) THEN "additional" ELSE "missing"

ComparisonProperties(billed, calculated) ==
    [kv \in DOMAIN billed \cup DOMAIN calculated |->
        [difference |-> At(billed, kv) - At(calculated, kv), mismatch |-> Mismatch(billed, calculated, kv)]]

OneSided(amounts, sign) ==
    [kv \in DOMAIN amounts |-> [difference |-> sign * amounts[kv], mismatch |-> "none"]]

\* A child without a computable figure carries none.
ComputeChildComparison(payments, contract, age, m, funding) ==
    LET billed == BillAmounts(OfType(payments, "regular"))
        period == FindPeriodForDate(funding, m)
        calculated == CalcAmounts(age, contract.props, period)
        Result(status, calc, properties) ==
            [status |-> status, bill |-> SumFunction(billed), calc |-> calc, properties |-> properties,
             correction |-> Total(OfType(payments, "correction"))]
    IN  IF contract = NoRow THEN Result("bill_only", NoRow, OneSided(BillAmounts(payments), 1))
        ELSE IF period = NoRow \/ age = NoRow
        THEN Result("no_funding_config", NoRow, OneSided(BillAmounts(payments), 1))
        ELSE Result(IF SumFunction(billed) = SumFunction(calculated) THEN "match"
                    ELSE IF DOMAIN billed = {} THEN "not_billed" ELSE "difference",
                    SumFunction(calculated), ComparisonProperties(billed, calculated))

---------------------------------------------------------------------------
(* One bill. *)

Resolved(v, number) == v.childOf[number] # NoRow /\ v.contractOf[v.childOf[number]] # NoRow

\* Mutant: one group per row of the bill.
GroupPerRow(v, i) == {i}

\* The rows of one child together, a row of an unknown child alone.
GroupOf(v, i) ==
    LET Number(j) == v.rows[j].number
    IN  IF ~Resolved(v, Number(i)) THEN {i}
        ELSE {j \in DOMAIN v.rows : Resolved(v, Number(j)) /\ v.childOf[Number(j)] = v.childOf[Number(i)]}

\* Filed under the row with the month's regular money, else the first.
MergeBillChildren(rows, group) ==
    LET regular == {i \in group : OfType(rows[i].payments, "regular") # {}}
    IN  [number |-> rows[Min(IF regular = {} THEN group ELSE regular)].number,
         payments |-> UNION {rows[i].payments : i \in group}]

Settlement(v, child, status) ==
    IF child # NoRow /\ status \in {"not_billed", "calc_only"} THEN v.settled[child] ELSE 0

CompareGroup(v, group) ==
    LET row == MergeBillChildren(v.rows, group)
        child == IF Resolved(v, row.number) THEN v.childOf[row.number] ELSE NoRow
        comp == ComputeChildComparison(row.payments,
                    IF child = NoRow THEN NoRow ELSE v.contractOf[child],
                    IF child \in v.active THEN FundingAgeOnDate(Born[child], v.month) ELSE NoRow,
                    v.month, v.funding)
    IN  [status |-> comp.status, bill |-> comp.bill, correction |-> comp.correction, calc |-> comp.calc,
         properties |-> comp.properties, month |-> v.month, rows |-> group, child |-> child,
         number |-> row.number, settled |-> Settlement(v, child, comp.status)]

\* Every voucher of the child is in the bill.
AllInBill(v, c) == v.vouchersOf[c] # {} /\ v.vouchersOf[c] \subseteq {row.number : row \in ToSet(v.rows)}

CalcOnly(v, c) ==
    LET contract == PickActive(v.preloaded[c], v.month)
        calculated == CalcAmounts(FundingAgeOnDate(Born[c], v.month), contract.props,
                                  FindPeriodForDate(v.funding, v.month))
    IN  [status |-> "calc_only", bill |-> 0, correction |-> 0, calc |-> SumFunction(calculated),
         properties |-> OneSided(calculated, -1), month |-> v.month, rows |-> {}, child |-> c,
         number |-> NoRow, settled |-> Settlement(v, c, "calc_only")]

\* Mutant: the money of a child without a calculated figure counts.
CountedAll(entries) == entries

\* Neither side of a child without a calculated figure counts.
Counted(entries) == {x \in entries : x.status # "no_funding_config"}

ComparePeriod(v) ==
    LET billed == {CompareGroup(v, GroupOf(v, i)) : i \in DOMAIN v.rows}
        absent == {CalcOnly(v, c) : c \in {c \in v.active \ {x.child : x \in billed} :
                       ~AllInBill(v, c) /\ PickActive(v.preloaded[c], v.month) # NoRow}}
        entries == billed \cup absent
    IN  [month |-> v.month, entries |-> entries, rows |-> DOMAIN v.rows,
         bill |-> SumFunction([x \in Counted(entries) |-> x.bill]),
         calc |-> SumFunction([x \in {x \in Counted(entries) : x.calc # NoRow} |-> x.calc]),
         correction |-> SumFunction([x \in entries |-> x.correction])]

---------------------------------------------------------------------------
(* The summary of several bills. *)

\* The money of an entry, cut into the categories' pieces.
Pieces(x) ==
    LET Whole(amount) == {[entry |-> x, kv |-> NoRow, category |-> x.status, type |-> x.status, amount |-> amount]}
    IN  CASE x.status = "bill_only" -> Whole(x.bill)
          [] x.status = "calc_only" -> Whole(-x.calc)
          [] x.status = "not_billed" -> Whole(x.bill - x.calc)
          [] x.status = "no_funding_config" -> {}
          [] OTHER -> {[entry |-> x, kv |-> kv, type |-> x.properties[kv].mismatch,
                        category |-> IF x.properties[kv].mismatch = "none" THEN "rate_difference"
                                     ELSE "property_mismatch",
                        amount |-> x.properties[kv].difference] : kv \in DOMAIN x.properties}

\* An issue: a child, or the voucher of an unknown one, with what is wrong.
IssueOf(piece) ==
    [who |-> IF piece.entry.child # NoRow THEN piece.entry.child ELSE piece.entry.number,
     key |-> IF piece.kv = NoRow THEN NoRow ELSE piece.kv.key, type |-> piece.type]

BuildComparisonSummary(comparisons) ==
    LET cs == ToSet(comparisons)
        pieces == UNION {Pieces(x) : x \in UNION {c.entries : c \in cs}}
        Money(S) == SumFunction([p \in S |-> p.amount])
        flagged == {p \in pieces : p.category # "rate_difference" /\ p.amount # 0}
        Settled(k) == SumFunction([p \in {p \in flagged : IssueOf(p) = k} |-> p.entry.settled])
        Issue(k) == LET total == Money({p \in flagged : IssueOf(p) = k})
                    IN  [issue |-> k, total |-> total, settled |-> Settled(k),
                         actionable |-> Settled(k) = 0 \/ total + Settled(k) # 0]
    IN  [billed |-> SumFunction([c \in cs |-> c.bill]),
         calculated |-> SumFunction([c \in cs |-> c.calc]),
         corrections |-> SumFunction([c \in cs |-> c.correction]),
         category |-> [cat \in Categories |-> Money({p \in pieces : p.category = cat})],
         issues |-> {i \in {Issue(IssueOf(p)) : p \in flagged} : i.total # 0}]

---------------------------------------------------------------------------
(* A child's history, and the totals of all children. *)

HasBill(t, m) == t.bills[m] # NoRow
RowsOf(t, c, m) == {i \in DOMAIN t.bills[m].rows : t.linked[t.bills[m].rows[i].number] = c}
ContractsOf(t, c) == {k \in t.contracts : k.child = c}

\* The rows of all bills that name a voucher of the child.
Named(t, c) == UNION {{m} \X RowsOf(t, c, m) : m \in {m \in Months : HasBill(t, m)}}

\* Mutant: one entry per voucher.
GroupPerVoucher(t, c) == {[month |-> n[1], rows |-> {n[2]}] : n \in Named(t, c)}

\* One entry per bill that lists a voucher of the child.
GroupChildEntriesByBill(t, c) ==
    {[month |-> m, rows |-> RowsOf(t, c, m)] : m \in {n[1] : n \in Named(t, c)}}

ChildBillingHistory(t, c) ==
    LET Entry(group) ==
            LET contract == PickActive(ContractsOf(t, c), group.month)
                comp == ComputeChildComparison(MergeBillChildren(t.bills[group.month].rows, group.rows).payments,
                            contract, FundingAgeOnDate(Born[c], group.month), group.month, t.funding)
            IN  [status |-> IF contract = NoRow THEN "no_contract" ELSE comp.status, bill |-> comp.bill,
                 correction |-> comp.correction, calc |-> comp.calc, properties |-> comp.properties,
                 month |-> group.month, rows |-> group.rows]
    IN  {Entry(group) : group \in GroupChildEntriesByBill(t, c)}

\* The calculated rate of every row of a bill that names a voucher of the child.
ChildrenBillingSummary(t, c) ==
    LET named == Named(t, c)
        Earned(m) == LET contract == PickActive(ContractsOf(t, c), m)
                     IN  IF contract = NoRow THEN 0
                         ELSE SumFunction(CalcAmounts(FundingAgeOnDate(Born[c], m), contract.props,
                                                  FindPeriodForDate(t.funding, m)))
    IN  [billed |-> SumFunction([n \in named |-> Total(OfType(t.bills[n[1]].rows[n[2]].payments, "regular"))]),
         calculated |-> SumFunction([n \in named |-> Earned(n[1])]),
         bills |-> Cardinality({n[1] : n \in named})]
=============================================================================

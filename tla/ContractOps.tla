----------------------------- MODULE ContractOps -----------------------------
(***************************************************************************)
(* What one contract write does to the rows it touches, independent of     *)
(* when its statements run.  Shared by the atomic specification (Timeline) *)
(* and by the statement-level one (Contracts).                             *)
(*                                                                         *)
(* A contract is a row of child_contracts or employee_contracts.  Dates    *)
(* are days 1..MaxDay; a NULL to_date is the number Forever, so that "runs *)
(* until further notice" compares as it does in the SQL.  The fields whose *)
(* content no rule looks at (section, grade, step, hours ...) are one      *)
(* opaque value, terms; the property map is the set of its keys, with Nil  *)
(* for the nil map, which MergeDefaults treats differently from {}.        *)
(***************************************************************************)
EXTENDS Integers

CONSTANTS
    MaxDay,     \* last day of the calendar that requests can name
    Birth,      \* the owner's birthdate
    Ids,        \* contract ids the sequence can hand out: 1..MaxId
    MaxId,
    Terms,      \* opaque contract terms
    Keys,       \* property keys
    Funding,    \* day -> funding period in force: auto-applied, known, required keys
    Payable,    \* day -> terms the pay plan has an entry for
    Timelines,  \* timelines the owner may start from
    Requests,   \* the contract writes clients may send
    Nil,        \* the nil property map
    NoPeriod,   \* no funding period covers the day
    Unset,      \* a field the request omits
    AnyVersion, \* If-Match: *
    NoRow,      \* an id that was never committed
    Gone        \* an id whose row was deleted; ids are never handed out again

Day == 1..MaxDay
Forever == MaxDay + 1
Until == 1..Forever
Props == {Nil} \cup SUBSET Keys
Period == [auto : SUBSET Keys, known : SUBSET Keys, required : SUBSET Keys]

Row == [from : Day, to : Until, ver : Nat \ {0}, terms : Terms, props : Props]
Slot == Row \cup {NoRow, Gone}

Kinds == {"create", "correct", "amend", "end", "boundary", "delete"}
Request == [kind : Kinds,
            id : Ids, exp : Nat \cup {AnyVersion},   \* addressed contract, If-Match
            later : Ids, laterExp : Nat,             \* boundary: the second contract
            at : Day,                                \* amend: effective_from; boundary: at
            from : Day \cup {Unset}, to : Until \cup {Unset},
            terms : Terms \cup {Unset}, props : {Unset} \cup Props]

ASSUME CalendarAssumption == MaxDay \in Nat /\ Birth \in Int /\ MaxId \in Nat /\ Ids = 1..MaxId
ASSUME FundingAssumption == Funding \in [Day -> Period \cup {NoPeriod}]
ASSUME PayableAssumption == Payable \in [Day -> SUBSET Terms]
ASSUME SentinelAssumption ==
    /\ NoRow \notin Row /\ Gone \notin Row /\ NoRow # Gone
    /\ Unset \notin Until /\ Unset \notin Terms /\ \A p \in Props : p # Unset
    /\ AnyVersion \notin Nat /\ \A p \in SUBSET Keys : p # Nil
    /\ NoPeriod \notin Period
\* The create handlers' binding refuses a body without dates, terms or properties.
ASSUME RequestAssumption ==
    /\ Requests \subseteq Request
    /\ \A k \in Requests :
         k.kind = "create" =>
             k.from # Unset /\ k.to # Unset /\ k.terms # Unset /\ k.props # Unset

Live(x) == x \notin {NoRow, Gone}

---------------------------------------------------------------------------
(* Periods: both ends inclusive. *)

Overlaps(x, y) == x.from <= y.to /\ y.from <= x.to

IsActiveOn(x, d) == x.from <= d /\ d <= x.to

\* No two live contracts of the owner share a day.
NoOverlapIn(R) ==
    \A i, j \in Ids : i # j /\ Live(R[i]) /\ Live(R[j]) => ~Overlaps(R[i], R[j])

ASSUME TimelinesAssumption ==
    \A R \in Timelines : R \in [Ids -> Slot] /\ NoOverlapIn(R)

\* The days on which the owner has a contract.
CoveredDays(R) == {d \in 1..Forever : \E i \in Ids : Live(R[i]) /\ IsActiveOn(R[i], d)}

---------------------------------------------------------------------------
(* Request fields, properties and the checks shared by the handlers. *)

\* An omitted field is left alone (correct) or inherited (amend).
Opt(field, stored) == IF field = Unset THEN stored ELSE field

KeysOf(p) == IF p = Nil THEN {} ELSE p

autoApply(d) == IF Funding[d] = NoPeriod THEN {} ELSE Funding[d].auto

MergeDefaults(p, d) == IF autoApply(d) = {} THEN p ELSE KeysOf(p) \cup autoApply(d)

validProps(p, d) ==
    Funding[d] # NoPeriod =>
        /\ KeysOf(p) \subseteq Funding[d].known
        /\ Funding[d].required \subseteq KeysOf(p)

afterBirth(x) == x.from >= Birth /\ x.to >= Birth

validPeriod(x) == x.from <= x.to

\* Contracts on record end after they start, and could be paid when they were written.
ASSUME RecordedAssumption ==
    \A R \in Timelines : \A i \in Ids :
        Live(R[i]) => validPeriod(R[i]) /\ R[i].terms \in Payable[R[i].from]

checkVersion(expected, current) == expected = AnyVersion \/ expected = current

---------------------------------------------------------------------------
(* The rows each intent writes, and the conditions under which it accepts. *)

Created(k) ==
    [from |-> k.from, to |-> k.to, ver |-> 1, terms |-> k.terms,
     props |-> MergeDefaults(k.props, k.from)]

CreateOK(k) ==
    LET x == Created(k)
    IN  validPeriod(x) /\ afterBirth(x) /\ validProps(x.props, x.from)
        /\ x.terms \in Payable[x.from]

Corrected(x, k) ==
    [from |-> Opt(k.from, x.from), to |-> Opt(k.to, x.to), ver |-> x.ver + 1,
     terms |-> Opt(k.terms, x.terms),
     props |-> IF k.props = Unset /\ k.from = Unset THEN x.props
               ELSE MergeDefaults(Opt(k.props, x.props), Opt(k.from, x.from))]

CorrectOK(x, k) ==
    LET y == Corrected(x, k)
    IN  /\ validPeriod(y) /\ afterBirth(y)
        /\ (k.props # Unset \/ k.from # Unset) => validProps(y.props, y.from)
        /\ (k.terms # Unset \/ k.from # Unset) => y.terms \in Payable[y.from]

Ended(x, k) == [x EXCEPT !.to = k.to, !.ver = @ + 1]

EndOK(x, k) == k.to # Unset /\ validPeriod(Ended(x, k)) /\ afterBirth(Ended(x, k))

Successor(x, k) ==
    [from |-> k.at, to |-> Opt(k.to, x.to), ver |-> 1, terms |-> Opt(k.terms, x.terms),
     props |-> MergeDefaults(Opt(k.props, x.props), k.at)]

\* The predecessor as the amendment writes it back.  When the request omits
\* properties the successor shares the predecessor's Go map, and MergeDefaults
\* fills a non-nil map in place, so the write of the closed row stores the keys
\* merged for the successor as well.
Closed(x, k) ==
    [x EXCEPT !.to = k.at - 1, !.ver = @ + 1,
              !.props = IF k.props = Unset /\ x.props # Nil
                        THEN MergeDefaults(x.props, k.at) ELSE x.props]

checkAmendSeam(x, k) == k.at > x.from /\ x.to >= k.at

AmendOK(x, k) ==
    LET y == Successor(x, k)
    IN  /\ checkAmendSeam(x, k)
        /\ validPeriod(y) /\ afterBirth(y) /\ validProps(y.props, k.at)
        /\ y.terms \in Payable[k.at]

\* Mutant: the earlier contract ends a day too soon.
GapEarlier(x, k) == [x EXCEPT !.to = k.at - 2, !.ver = @ + 1]

MovedEarlier(x, k) == [x EXCEPT !.to = k.at - 1, !.ver = @ + 1]
MovedLater(y, k) == [y EXCEPT !.from = k.at, !.ver = @ + 1]

checkAdjacent(x, y, k) ==
    /\ x.from < y.from
    /\ x.to # Forever /\ x.to + 1 = y.from
    /\ k.at > x.from /\ k.at <= y.to

\* Mutant: the later contract's new start is not checked against the pay plan.
UnpaidBoundaryOK(x, y, k) ==
    /\ checkAdjacent(x, y, k)
    /\ validPeriod(MovedEarlier(x, k)) /\ validPeriod(MovedLater(y, k))
    /\ afterBirth(MovedLater(y, k))

BoundaryOK(x, y, k) ==
    /\ checkAdjacent(x, y, k)
    /\ validPeriod(MovedEarlier(x, k)) /\ validPeriod(MovedLater(y, k))
    /\ afterBirth(MovedLater(y, k))
    /\ y.terms \in Payable[k.at]
=============================================================================

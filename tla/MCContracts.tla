----------------------------- MODULE MCContracts -----------------------------
(***************************************************************************)
(* Finite instances of Contracts: a child's contracts under a funding      *)
(* configuration that changes on day 3, and an employee's contracts under  *)
(* a pay plan that drops one grade on day 3.                               *)
(***************************************************************************)
EXTENDS Contracts, Sequences, TLC

CONSTANTS r1, r2, r3, t1, t2

MCIds == 1..MaxId
ReqSymmetry == Permutations(Reqs)

\* A timeline from the sequence of its rows.
TimelineOf(s) == [i \in Ids |-> IF i <= Len(s) THEN s[i] ELSE NoRow]

Contract(f, t, p) == [from |-> f, to |-> t, ver |-> 1, terms |-> t1, props |-> p]

BodyOf(kind) ==
    [kind |-> kind, id |-> 1, exp |-> AnyVersion, later |-> 2, laterExp |-> 1, at |-> 3,
     from |-> Unset, to |-> Unset, terms |-> Unset, props |-> Unset]

Create(f, t, p) == [BodyOf("create") EXCEPT !.from = f, !.to = t, !.terms = t1, !.props = p]
Amend(i, e, d) == [BodyOf("amend") EXCEPT !.id = i, !.exp = e, !.at = d]
Move(i, j, e, d) ==
    [BodyOf("boundary") EXCEPT !.id = i, !.later = j, !.exp = e, !.laterExp = e, !.at = d]
End(i, e, t) == [BodyOf("end") EXCEPT !.id = i, !.exp = e, !.to = t]
Correct(i, e) == [BodyOf("correct") EXCEPT !.id = i, !.exp = e]
Delete(i, e) == [BodyOf("delete") EXCEPT !.id = i, !.exp = e]

---------------------------------------------------------------------------
(* A child: every day from 2 on has a funding period, day 3 adds the meal. *)

ChildFunding ==
    [d \in Day |->
        IF d = 1 THEN NoPeriod
        ELSE [auto |-> IF d >= 3 THEN {"meal"} ELSE {},
              known |-> IF d >= 3 THEN {"care", "meal"} ELSE {"care"},
              required |-> {"care"}]]
AllPayable == [d \in Day |-> Terms]

ChildTimelines ==
    { TimelineOf(<<Contract(2, Forever, {"care"})>>),
      TimelineOf(<<Contract(2, 2, {"care"}), Contract(3, Forever, {"care", "meal"})>>),
      TimelineOf(<<Contract(2, 3, {"care"}), Contract(4, 4, {"care", "meal"})>>) }

ChildRequests ==
    { Create(2, 3, {"care"}), Create(4, Forever, {"care"}), Create(3, Forever, Nil),
      [Correct(1, 1) EXCEPT !.terms = t2],
      [Correct(2, AnyVersion) EXCEPT !.from = 3, !.to = 3],
      [Correct(1, AnyVersion) EXCEPT !.props = Nil],
      End(1, 1, 2), End(1, AnyVersion, Forever), End(2, 1, 3), End(1, 1, Unset),
      Amend(1, 1, 3), [Amend(1, AnyVersion, 4) EXCEPT !.to = Forever, !.props = {"care"}],
      Move(1, 2, 1, 4), Move(1, 2, 1, 3), Move(1, 1, 1, 3),
      Delete(1, 1), Delete(2, AnyVersion) }

---------------------------------------------------------------------------
(* An employee: no funding, and the pay plan drops t2 on day 3. *)

NoFunding == [d \in Day |-> NoPeriod]
EmployeePayable == [d \in Day |-> IF d >= 3 THEN {t1} ELSE {t1, t2}]

EmployeeTimelines ==
    { TimelineOf(<<Contract(1, 1, Nil), Contract(2, 2, {}), Contract(3, Forever, Nil)>>),
      TimelineOf(<<Contract(1, 1, Nil), [Contract(2, 3, Nil) EXCEPT !.terms = t2]>>) }

EmployeeRequests ==
    { Create(1, Forever, Nil),
      [Correct(1, AnyVersion) EXCEPT !.terms = t2, !.props = {"care"}],
      [Correct(2, 1) EXCEPT !.terms = t2],
      [Correct(2, AnyVersion) EXCEPT !.from = 3],
      [Amend(1, 1, 3) EXCEPT !.terms = t2],
      Amend(3, 1, 4),
      Move(1, 2, 1, 3), Move(1, 2, 1, 2), Move(2, 3, 1, 2), Move(2, 3, 1, 4), Move(1, 3, 1, 2),
      End(3, AnyVersion, 3), Delete(2, 1) }
=============================================================================

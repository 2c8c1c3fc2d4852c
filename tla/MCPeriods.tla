------------------------------ MODULE MCPeriods ------------------------------
(***************************************************************************)
(* A budget item, a pay plan with entries and one without that contracts   *)
(* refer to, a funding; and a few requests at once.                        *)
(***************************************************************************)
EXTENDS Periods, TLC

CONSTANTS r1, r2, r3

Table(t) == [i \in Ids |-> IF i \in DOMAIN t THEN t[i] ELSE NoRow]

P(f, t) == [from |-> f, to |-> t]

\* The owner has id 1; ids of its periods and details follow.
Start(v, ref, m, t, d) ==
    [kind |-> v, referenced |-> ref, owner |-> [id |-> 1, meaning |-> m],
     rows |-> Table(t), details |-> Table(d), next |-> 4]

MCSchedules ==
    { Start("budget", FALSE, "income", 2 :> P(3, Forever), <<>>),
      Start("payplan", FALSE, "income", 2 :> P(1, 2), 3 :> [period |-> 2, key |-> "a"]),
      Start("payplan", TRUE, "income", 2 :> P(1, 2), <<>>),
      Start("funding", FALSE, "income", 2 :> P(1, 2), 3 :> [period |-> 2, key |-> "a"]) }

Body(op, i, f, t) ==
    [kind |-> op, id |-> i, from |-> f, to |-> t, meaning |-> NoMeaning, key |-> "a", file |-> <<>>]
Means(op, m) == [Body(op, 1, Absent, 1) EXCEPT !.meaning = m]
Keyed(op, i, k) == [Body(op, i, 1, 1) EXCEPT !.key = k]
File(f) == [Means("import", "income") EXCEPT !.file = f]
L(f, t, k) == [from |-> f, to |-> t, key |-> k]

MCRequests ==
    [budget |->
       { [Body("createOwner", 1, 2, 2) EXCEPT !.meaning = "expense"],
         Means("updateOwner", "expense"), Means("updateOwner", NoMeaning), Body("deleteOwner", 1, 1, 1),
         Body("createPeriod", 1, 2, 2),
         Body("updatePeriod", 2, 2, Forever), Body("deletePeriod", 2, 1, 1) },
     payplan |->
       { Body("deleteOwner", 1, 1, 1),
         Body("createPeriod", 1, 3, 3), Body("updatePeriod", 2, 1, 3), Body("deletePeriod", 2, 1, 1),
         Keyed("createDetail", 2, "a"),
         File(<<L(1, 2, "a"), L(3, 3, NoKey)>>), File(<<L(1, 2, "a"), L(2, 2, NoKey)>>) },
     funding |->
       { Means("updateOwner", NoMeaning), Body("deleteOwner", 1, 1, 1),
         Body("createPeriod", 1, 3, Forever), Body("createPeriod", 1, 3, 1),
         Body("updatePeriod", 2, Absent, 3), Body("deletePeriod", 2, 1, 1),
         Keyed("createDetail", 2, "a"), Keyed("updateDetail", 3, "b"), Keyed("deleteDetail", 3, "a") }]
=============================================================================

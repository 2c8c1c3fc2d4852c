---------------------------- MODULE PeriodsProofs ----------------------------
(***************************************************************************)
(* Theorems about Periods, for every calendar, schedule and set of         *)
(* requests.                                                               *)
(***************************************************************************)
EXTENDS Periods, TLAPS

Codes == {"none", "ok", "notFound", "badRequest", "conflict", "error"}

Tables ==
    /\ owner \in Owner \cup {NoOwner} /\ next \in 1..(MaxId + 1)
    /\ rows \in [Ids -> Period \cup {NoRow}] /\ details \in [Ids -> Detail \cup {NoRow}]

\* What a request remembers between its statements.
Memory ==
    /\ q \in [Reqs -> Request \cup {NoRequest}]
    /\ oid \in [Reqs -> Ids \cup {Absent}]
    /\ old \in [Reqs -> Owner \cup Period \cup Detail \cup {NoRow, NoOwner}]
    /\ kids \in [Reqs -> [Ids -> Detail \cup {NoRow}]]
    /\ seen \in [Reqs -> [Ids -> Period \cup {NoRow}]]

Control ==
    /\ kind \in Kinds /\ referenced \in BOOLEAN
    /\ pc \in [Reqs -> {"idle", "done", "insertOwner", "count", "saveOwner", "lockOwner",
                        "cascade", "check", "insertPeriod", "savePeriod", "deleteEntries",
                        "deletePeriod", "insertDetail", "saveDetail", "deleteDetail",
                        "beginClear", "clear", "install"}]
    /\ cleared \in [Reqs -> SUBSET Ids]
    /\ resp \in [Reqs -> Codes]

Types == Tables /\ Memory /\ Control

\* The period r writes overlaps none of those its check found, itself aside.
NoneOverlaps(r) ==
    \A i \in Present(seen[r]) :
        (q[r].kind = "updatePeriod" /\ i = q[r].id) \/ ~Overlaps(Written(r), seen[r][i])

\* A request's locals are those its next statement needs: its body, the row it
\* loaded, and what its last check found.
Local(r) ==
    /\ pc[r] # "idle" => q[r] \in Requests[kind]
    /\ pc[r] # "done" => resp[r] = "none"
    /\ pc[r] = "insertOwner" => q[r].kind = "createOwner"
    /\ pc[r] \in {"count", "saveOwner"} => old[r] \in Owner
    /\ pc[r] = "saveOwner" =>
         q[r].meaning \in {NoMeaning, old[r].meaning} \/ Present(seen[r]) = {}
    /\ pc[r] \in {"check", "insertPeriod", "savePeriod"} =>
         /\ q[r].kind \in {"createPeriod", "updatePeriod"}
         /\ q[r].kind = "updatePeriod" =>
              old[r] \in Period /\ \A d \in Present(kids[r]) : kids[r][d].period = q[r].id
    /\ pc[r] = "insertPeriod" => q[r].kind = "createPeriod"
    /\ pc[r] = "savePeriod" => q[r].kind = "updatePeriod"
    /\ pc[r] \in {"insertPeriod", "savePeriod"} => NoneOverlaps(r)
    /\ pc[r] = "saveDetail" => old[r] \in Detail
    /\ pc[r] \in {"beginClear", "clear", "install"} => q[r].kind = "import"
    /\ pc[r] = "install" /\ oid[r] # Absent => cleared[r] = Present(seen[r])

IInv ==
    /\ Types /\ BudgetOnePerDay /\ NothingDangles
    /\ \A r \in Reqs : Local(r)

---------------------------------------------------------------------------
(* What every step keeps of the requests that do not take it. *)

\* A step of r moves r alone, and no step changes the service.
Moves(r) ==
    /\ kind' = kind /\ referenced' = referenced
    /\ \A s \in Reqs \ {r} :
         /\ pc'[s] = pc[s] /\ q'[s] = q[s] /\ oid'[s] = oid[s] /\ old'[s] = old[s]
         /\ kids'[s] = kids[s] /\ seen'[s] = seen[s]
         /\ cleared'[s] = cleared[s] /\ resp'[s] = resp[s]

\* With the acting request's own facts, the invariant holds after its step.
LEMMA StepOK ==
    ASSUME IInv, NEW r \in Reqs, Moves(r), Types', BudgetOnePerDay', NothingDangles', Local(r)'
    PROVE  IInv'
<1>1. ASSUME NEW s \in Reqs \ {r} PROVE Local(s)'
  <2>1. /\ kind' = kind /\ pc'[s] = pc[s] /\ q'[s] = q[s] /\ oid'[s] = oid[s]
        /\ old'[s] = old[s] /\ kids'[s] = kids[s] /\ seen'[s] = seen[s]
        /\ cleared'[s] = cleared[s] /\ resp'[s] = resp[s]
    BY <1>1 DEF Moves
  <2>2. Local(s)
    BY <1>1 DEF IInv
  <2>3. NoneOverlaps(s) => NoneOverlaps(s)'
    BY <2>1 DEF NoneOverlaps, Written, Present, Overlaps
  <2>4. Present(seen[s])' = Present(seen[s]) /\ Present(kids[s])' = Present(kids[s])
    BY <2>1 DEF Present
  <2> QED  BY <2>1, <2>2, <2>3, <2>4 DEF Local
<1> QED  BY <1>1 DEF IInv

\* What an answer sets.
LEMMA AnswerFacts ==
    ASSUME IInv, NEW r \in Reqs, NEW code \in Codes, Answer(r, code)
    PROVE  /\ pc'[r] = "done" /\ resp'[r] = code
           /\ \A s \in Reqs \ {r} :
                pc'[s] = pc[s] /\ cleared'[s] = cleared[s] /\ resp'[s] = resp[s]
           /\ kind' = kind /\ referenced' = referenced => Control'
BY DEF Answer, IInv, Types, Control

\* An answer after a write that keeps the tables in order.
LEMMA AnswerOK ==
    ASSUME IInv, NEW r \in Reqs, NEW code \in Codes, Answer(r, code),
           kind' = kind, referenced' = referenced, Memory', q'[r] \in Requests[kind],
           \A s \in Reqs \ {r} : /\ q'[s] = q[s] /\ oid'[s] = oid[s] /\ old'[s] = old[s]
                                 /\ kids'[s] = kids[s] /\ seen'[s] = seen[s],
           Tables', BudgetOnePerDay', NothingDangles'
    PROVE  IInv'
<1>1. Moves(r) /\ Types' /\ pc'[r] = "done"
  BY AnswerFacts DEF Moves, Types
<1>2. Local(r)'
  BY <1>1 DEF Local
<1> QED  BY <1>1, <1>2, StepOK

\* A refusal changes nothing that is committed.
LEMMA RejectOK ==
    ASSUME IInv, NEW r \in Reqs, NEW code \in Codes, Reject(r, code),
           kind' = kind, referenced' = referenced, Memory', q'[r] \in Requests[kind],
           \A s \in Reqs \ {r} : /\ q'[s] = q[s] /\ oid'[s] = oid[s] /\ old'[s] = old[s]
                                 /\ kids'[s] = kids[s] /\ seen'[s] = seen[s]
    PROVE  IInv'
<1>1. /\ owner' = owner /\ rows' = rows /\ details' = details /\ next' = next
      /\ Answer(r, code)
  BY DEF Reject, tables
<1>2. Tables' /\ BudgetOnePerDay' /\ NothingDangles'
  BY <1>1 DEF IInv, Types, Tables, BudgetOnePerDay, OnePerDay, NothingDangles, Present
<1> QED  BY <1>1, <1>2, AnswerOK

\* A request goes on to its next statement.
LEMMA ContinueOK ==
    ASSUME IInv, NEW r \in Reqs,
           NEW s \in {"insertOwner", "count", "saveOwner", "lockOwner", "cascade", "check",
                      "insertPeriod", "savePeriod", "deleteEntries", "deletePeriod",
                      "insertDetail", "saveDetail", "deleteDetail", "beginClear", "clear",
                      "install"},
           Continue(r, s), kind' = kind, referenced' = referenced, Memory',
           \A p \in Reqs \ {r} : /\ q'[p] = q[p] /\ oid'[p] = oid[p] /\ old'[p] = old[p]
                                 /\ kids'[p] = kids[p] /\ seen'[p] = seen[p],
           Local(r)'
    PROVE  IInv'
<1>1. /\ owner' = owner /\ rows' = rows /\ details' = details /\ next' = next
      /\ pc' = [pc EXCEPT ![r] = s] /\ cleared' = cleared /\ resp' = resp
  BY DEF Continue, tables
<1>2. Tables' /\ BudgetOnePerDay' /\ NothingDangles'
  BY <1>1 DEF IInv, Types, Tables, BudgetOnePerDay, OnePerDay, NothingDangles, Present
<1>3. Moves(r) /\ Control'
  BY <1>1 DEF IInv, Types, Control, Moves
<1> QED  BY <1>2, <1>3, StepOK DEF Types

\* What a step that keeps the locals knows of its request.
LEMMA InFlight ==
    ASSUME IInv, NEW r \in Reqs, pc[r] # "idle", UNCHANGED locals
    PROVE  /\ q[r] \in Requests[kind] /\ q[r] \in Request /\ q[r].id \in Ids
           /\ Memory' /\ q'[r] \in Requests[kind]
           /\ \A s \in Reqs \ {r} : /\ q'[s] = q[s] /\ oid'[s] = oid[s] /\ old'[s] = old[s]
                                    /\ kids'[s] = kids[s] /\ seen'[s] = seen[s]
<1>1. q[r] \in Requests[kind] /\ kind \in Kinds
  BY DEF IInv, Local, Types, Control
<1>2. q[r] \in Request
  BY <1>1, RequestAssumption
<1>3. q[r].id \in Ids
  BY <1>2 DEF Request
<1> QED  BY <1>1, <1>2, <1>3 DEF locals, IInv, Types, Memory

\* A statement that refuses its request.
LEMMA RefuseOK ==
    ASSUME IInv, NEW r \in Reqs, pc[r] # "idle", NEW code \in Codes, Reject(r, code),
           UNCHANGED locals, UNCHANGED <<kind, referenced>>
    PROVE  IInv'
BY InFlight, RejectOK

\* What a statement finds by the owner's id is of the tables.
LEMMA FoundFacts ==
    ASSUME IInv, NEW r \in Reqs
    PROVE  /\ Found(r) \in [Ids -> Period \cup {NoRow}]
           /\ Mine(r) \subseteq Present(rows)
           /\ \A i \in Mine(r) : Found(r)[i] = rows[i]
           /\ Mine(r) = Present(Found(r))
<1>1. rows \in [Ids -> Period \cup {NoRow}]
  BY DEF IInv, Types, Tables
<1> QED  BY <1>1 DEF Found, Mine, Present

\* So are the details found by their periods.
LEMMA DetailsOfFacts ==
    ASSUME IInv, NEW S
    PROVE  /\ DetailsOf(S) \in [Ids -> Detail \cup {NoRow}]
           /\ \A d \in Present(DetailsOf(S)) : DetailsOf(S)[d].period \in S
<1>1. details \in [Ids -> Detail \cup {NoRow}]
  BY DEF IInv, Types, Tables
<1> QED  BY <1>1 DEF DetailsOf, Present

---------------------------------------------------------------------------
(* The steps that write no table. *)

\* The reads of a request that concerns the owner.
LEMMA SendOwnerOK ==
    ASSUME IInv, NEW r \in Reqs, NEW k \in Requests[kind], pc[r] = "idle",
           q' = [q EXCEPT ![r] = k],
           oid' = [oid EXCEPT ![r] = IF owner = NoOwner THEN Absent ELSE owner.id],
           SendOwner(r, k), seen' = seen, UNCHANGED <<kind, referenced>>
    PROVE  IInv'
<1>1. k \in Request /\ kind \in Kinds /\ kids' = kids
  BY RequestAssumption DEF IInv, Types, Control, SendOwner
<1>2. /\ owner \in Owner \cup {NoOwner} /\ NoOwner \notin Owner
      /\ owner # NoOwner => owner.id \in Ids
  BY SentinelAssumption DEF IInv, Types, Tables, Owner
<1>3. q' \in [Reqs -> Request \cup {NoRequest}] /\ oid' \in [Reqs -> Ids \cup {Absent}]
  BY <1>1, <1>2 DEF IInv, Types, Memory
<1>4. /\ q'[r] = k /\ oid'[r] = IF owner = NoOwner THEN Absent ELSE owner.id
      /\ \A s \in Reqs \ {r} : q'[s] = q[s] /\ oid'[s] = oid[s]
  BY DEF IInv, Types, Memory
<1>5. kids' \in [Reqs -> [Ids -> Detail \cup {NoRow}]] /\ seen' \in [Reqs -> [Ids -> Period \cup {NoRow}]]
  BY <1>1 DEF IInv, Types, Memory
<1>6. old \in [Reqs -> Owner \cup Period \cup Detail \cup {NoRow, NoOwner}]
  BY DEF IInv, Types, Memory
<1>7. CASE owner = NoOwner /\ (k.kind = "updateOwner" \/ (k.kind = "deleteOwner" /\ kind # "funding"))
  <2>1. Reject(r, "notFound") /\ old' = old
    BY <1>7 DEF SendOwner
  <2>2. Memory' /\ q'[r] \in Requests[kind]
    BY <1>3, <1>4, <1>5, <1>6, <2>1 DEF Memory
  <2> QED  BY <1>1, <1>4, <2>1, <2>2, RejectOK DEF Codes
<1>8. CASE ~(owner = NoOwner /\ (k.kind = "updateOwner" \/ (k.kind = "deleteOwner" /\ kind # "funding")))
  <2>1. /\ Continue(r, OwnerPhase(k))
        /\ old' = [old EXCEPT ![r] = IF k.kind = "updateOwner" THEN owner ELSE NoRow]
    BY <1>8 DEF SendOwner
  <2>2. /\ old' \in [Reqs -> Owner \cup Period \cup Detail \cup {NoRow, NoOwner}]
        /\ k.kind = "updateOwner" => old'[r] = owner /\ owner \in Owner
        /\ \A s \in Reqs \ {r} : old'[s] = old[s]
    BY <1>2, <1>6, <1>8, <2>1
  <2>3. k.kind \in {"createOwner", "updateOwner", "deleteOwner", "import"}
    BY <1>1 DEF SendOwner, Request
  <2>4. Memory'
    BY <1>3, <1>5, <2>2 DEF Memory
  <2>5. PICK s \in {"insertOwner", "saveOwner", "count", "lockOwner", "install", "beginClear"} :
          /\ s = OwnerPhase(k)
          /\ s = "insertOwner" => k.kind = "createOwner"
          /\ s \in {"count", "saveOwner"} => k.kind = "updateOwner"
          /\ s = "saveOwner" => k.meaning \in {NoMeaning, owner.meaning}
          /\ s = "install" => k.kind = "import" /\ owner = NoOwner
          /\ s = "beginClear" => k.kind = "import"
    BY <2>3 DEF OwnerPhase
  <2>6. pc'[r] = s /\ resp'[r] = resp[r] /\ resp[r] = "none"
    BY <2>1, <2>5 DEF Continue, IInv, Types, Control, Local
  <2>7. Local(r)'
    BY <1>1, <1>4, <2>2, <2>5, <2>6 DEF Local
  <2> QED  BY <1>1, <1>4, <2>1, <2>2, <2>4, <2>5, <2>7, ContinueOK
<1> QED  BY <1>7, <1>8

\* The reads of a request that concerns a period.
LEMMA SendPeriodOK ==
    ASSUME IInv, NEW r \in Reqs, NEW k \in Requests[kind], pc[r] = "idle",
           q' = [q EXCEPT ![r] = k],
           oid' = [oid EXCEPT ![r] = IF owner = NoOwner THEN Absent ELSE owner.id],
           SendPeriod(r, k), seen' = seen, UNCHANGED <<kind, referenced>>
    PROVE  IInv'
<1>1. k \in Request /\ k.id \in Ids /\ kind \in Kinds
  BY RequestAssumption DEF IInv, Types, Control, Request
<1>2. owner # NoOwner => owner.id \in Ids
  BY SentinelAssumption DEF IInv, Types, Tables, Owner
<1>3. q' \in [Reqs -> Request \cup {NoRequest}] /\ oid' \in [Reqs -> Ids \cup {Absent}]
  BY <1>1, <1>2 DEF IInv, Types, Memory
<1>4. q'[r] = k /\ \A s \in Reqs \ {r} : q'[s] = q[s] /\ oid'[s] = oid[s]
  BY DEF IInv, Types, Memory
<1>5. /\ seen' \in [Reqs -> [Ids -> Period \cup {NoRow}]]
      /\ kids \in [Reqs -> [Ids -> Detail \cup {NoRow}]]
      /\ old \in [Reqs -> Owner \cup Period \cup Detail \cup {NoRow, NoOwner}]
      /\ rows \in [Ids -> Period \cup {NoRow}]
  BY DEF IInv, Types, Memory, Tables
<1>6. ASSUME NEW code \in Codes, Reject(r, code), old' = old, kids' = kids PROVE IInv'
  <2>1. Memory'
    BY <1>3, <1>5, <1>6 DEF Memory
  <2> QED  BY <1>1, <1>4, <1>6, <2>1, RejectOK
<1>7. CASE owner = NoOwner \/ (k.kind # "createPeriod" /\ rows[k.id] = NoRow)
  BY <1>6, <1>7 DEF SendPeriod, Codes
<1>8. CASE ~(owner = NoOwner \/ (k.kind # "createPeriod" /\ rows[k.id] = NoRow))
  <2>1. /\ IF k.kind # "deletePeriod" /\ ~DatesOK(k) THEN Reject(r, "badRequest")
           ELSE Continue(r, CASE k.kind # "deletePeriod" -> "check"
                              [] kind = "payplan" -> "deleteEntries"
                              [] OTHER -> "deletePeriod")
        /\ IF k.kind = "updatePeriod"
           THEN /\ old' = [old EXCEPT ![r] = rows[k.id]]
                /\ kids' = [kids EXCEPT ![r] = DetailsOf(IF kind = "funding" THEN {k.id} ELSE {})]
           ELSE UNCHANGED <<old, kids>>
    BY <1>8 DEF SendPeriod
  <2>2. k.kind \in PeriodOps
    BY DEF SendPeriod
  <2>3. /\ old' \in [Reqs -> Owner \cup Period \cup Detail \cup {NoRow, NoOwner}]
        /\ kids' \in [Reqs -> [Ids -> Detail \cup {NoRow}]]
        /\ \A s \in Reqs \ {r} : old'[s] = old[s] /\ kids'[s] = kids[s]
        /\ k.kind = "updatePeriod" =>
             old'[r] \in Period /\ \A d \in Present(kids'[r]) : kids'[r][d].period = k.id
    <3>1. CASE k.kind = "updatePeriod"
      <4>1. rows[k.id] \in Period
        BY <1>1, <1>5, <1>8, <3>1
      <4> DEFINE S == IF kind = "funding" THEN {k.id} ELSE {}
      <4>2. /\ DetailsOf(S) \in [Ids -> Detail \cup {NoRow}]
            /\ \A d \in Present(DetailsOf(S)) : DetailsOf(S)[d].period \in S
        BY DetailsOfFacts
      <4>3. \A x \in S : x = k.id
        OBVIOUS
      <4>4. old' = [old EXCEPT ![r] = rows[k.id]] /\ kids' = [kids EXCEPT ![r] = DetailsOf(S)]
        BY <2>1, <3>1
      <4>5. kids'[r] = DetailsOf(S) /\ old'[r] = rows[k.id]
        BY <1>5, <4>4
      <4> HIDE DEF S
      <4> QED  BY <1>5, <4>1, <4>2, <4>3, <4>4, <4>5
    <3>2. CASE k.kind # "updatePeriod"
      BY <1>5, <2>1, <3>2
    <3> QED  BY <3>1, <3>2
  <2>4. Memory'
    BY <1>3, <1>5, <2>3 DEF Memory
  <2>5. CASE Reject(r, "badRequest")
    BY <1>1, <1>4, <2>3, <2>4, <2>5, RejectOK DEF Codes
  <2>6. ASSUME NEW s \in {"check", "deleteEntries", "deletePeriod"}, Continue(r, s),
               s = "check" => k.kind \in {"createPeriod", "updatePeriod"}
        PROVE  IInv'
    <3>1. pc'[r] = s /\ resp'[r] = resp[r] /\ resp[r] = "none"
      BY <2>6 DEF Continue, IInv, Types, Control, Local
    <3>2. Present(kids[r])' = Present(kids'[r])
      BY DEF Present
    <3>3. Local(r)'
      BY <1>1, <1>4, <2>3, <2>6, <3>1, <3>2 DEF Local
    <3> QED  BY <1>1, <1>4, <2>3, <2>4, <2>6, <3>3, ContinueOK
  <2> QED  BY <2>1, <2>2, <2>5, <2>6 DEF PeriodOps
<1> QED  BY <1>7, <1>8

\* The reads of a request that concerns a detail.
LEMMA SendDetailOK ==
    ASSUME IInv, NEW r \in Reqs, NEW k \in Requests[kind], pc[r] = "idle",
           q' = [q EXCEPT ![r] = k],
           oid' = [oid EXCEPT ![r] = IF owner = NoOwner THEN Absent ELSE owner.id],
           SendDetail(r, k), seen' = seen, UNCHANGED <<kind, referenced>>
    PROVE  IInv'
<1>1. k \in Request /\ k.id \in Ids /\ kind \in Kinds /\ kids' = kids
  BY RequestAssumption DEF IInv, Types, Control, Request, SendDetail
<1>2. owner # NoOwner => owner.id \in Ids
  BY SentinelAssumption DEF IInv, Types, Tables, Owner
<1>3. q' \in [Reqs -> Request \cup {NoRequest}] /\ oid' \in [Reqs -> Ids \cup {Absent}]
  BY <1>1, <1>2 DEF IInv, Types, Memory
<1>4. q'[r] = k /\ \A s \in Reqs \ {r} : q'[s] = q[s] /\ oid'[s] = oid[s]
  BY DEF IInv, Types, Memory
<1>5. /\ seen' \in [Reqs -> [Ids -> Period \cup {NoRow}]]
      /\ kids' \in [Reqs -> [Ids -> Detail \cup {NoRow}]]
      /\ old \in [Reqs -> Owner \cup Period \cup Detail \cup {NoRow, NoOwner}]
      /\ rows \in [Ids -> Period \cup {NoRow}] /\ details \in [Ids -> Detail \cup {NoRow}]
  BY <1>1 DEF IInv, Types, Memory, Tables
<1> DEFINE row == IF k.kind = "createDetail" THEN rows[k.id] ELSE details[k.id]
<1>6. CASE row = NoRow
  <2>1. Reject(r, "notFound") /\ old' = old
    BY <1>6 DEF SendDetail
  <2>2. Memory'
    BY <1>3, <1>5, <2>1 DEF Memory
  <2> QED  BY <1>1, <1>4, <2>1, <2>2, RejectOK DEF Codes
<1>7. CASE row # NoRow
  <2>1. /\ Continue(r, CASE k.kind = "createDetail" -> "insertDetail"
                         [] k.kind = "updateDetail" -> "saveDetail"
                         [] k.kind = "deleteDetail" -> "deleteDetail")
        /\ old' = [old EXCEPT ![r] = row]
    BY <1>7 DEF SendDetail
  <2>2. /\ old' \in [Reqs -> Owner \cup Period \cup Detail \cup {NoRow, NoOwner}]
        /\ k.kind # "createDetail" => old'[r] \in Detail
        /\ \A s \in Reqs \ {r} : old'[s] = old[s]
    BY <1>1, <1>5, <1>7, <2>1
  <2>3. Memory'
    BY <1>3, <1>5, <2>2 DEF Memory
  <2>4. PICK s \in {"insertDetail", "saveDetail", "deleteDetail"} :
          Continue(r, s) /\ (s = "saveDetail" => k.kind = "updateDetail")
    BY <2>1 DEF SendDetail, DetailOps
  <2>5. pc'[r] = s /\ resp'[r] = resp[r] /\ resp[r] = "none"
    BY <2>4 DEF Continue, IInv, Types, Control, Local
  <2>6. Local(r)'
    BY <1>1, <1>4, <2>2, <2>4, <2>5 DEF Local
  <2> QED  BY <1>1, <1>4, <2>2, <2>3, <2>4, <2>6, ContinueOK
<1> QED  BY <1>6, <1>7

\* The reads of any request.
LEMMA SendOK == ASSUME IInv, NEW r \in Reqs, Send(r), UNCHANGED <<kind, referenced>> PROVE IInv'
<1>1. PICK k \in Requests[kind] :
        /\ q' = [q EXCEPT ![r] = k]
        /\ oid' = [oid EXCEPT ![r] = IF owner = NoOwner THEN Absent ELSE owner.id]
        /\ SendOwner(r, k) \/ SendPeriod(r, k) \/ SendDetail(r, k)
  BY DEF Send
<1>2. pc[r] = "idle" /\ seen' = seen
  BY DEF Send
<1> QED  BY <1>1, <1>2, SendOwnerOK, SendPeriodOK, SendDetailOK

\* A read that goes into "seen" keeps the rest of the memory.
LEMMA SeenFacts ==
    ASSUME IInv, NEW r \in Reqs, pc[r] # "idle", UNCHANGED <<q, oid, old>>,
           kids' = kids \/ \E f \in [Ids -> Detail \cup {NoRow}] : kids' = [kids EXCEPT ![r] = f],
           NEW t \in [Ids -> Period \cup {NoRow}], seen' = [seen EXCEPT ![r] = t]
    PROVE  /\ Memory' /\ seen'[r] = t
           /\ q[r] \in Requests[kind] /\ q[r] \in Request
           /\ \A s \in Reqs \ {r} : /\ q'[s] = q[s] /\ oid'[s] = oid[s] /\ old'[s] = old[s]
                                    /\ kids'[s] = kids[s] /\ seen'[s] = seen[s]
<1>1. Memory
  BY DEF IInv, Types
<1>2. Memory' /\ seen'[r] = t
  BY <1>1 DEF Memory
<1>3. q[r] \in Requests[kind] /\ kind \in Kinds
  BY DEF IInv, Local, Types, Control
<1>4. q[r] \in Request
  BY <1>3, RequestAssumption
<1>5. \A s \in Reqs \ {r} : kids'[s] = kids[s] /\ seen'[s] = seen[s]
  BY <1>1 DEF Memory
<1> QED  BY <1>2, <1>3, <1>4, <1>5

\* The count before the meaning of a budget item changes.
LEMMA CountEntriesOK ==
    ASSUME IInv, NEW r \in Reqs, CountEntries(r), UNCHANGED <<kind, referenced, q, oid, old, kids>>
    PROVE  IInv'
<1>1. pc[r] = "count" /\ seen' = [seen EXCEPT ![r] = Found(r)]
  BY DEF CountEntries
<1>2. /\ Memory' /\ seen'[r] = Found(r) /\ q[r] \in Requests[kind]
      /\ \A s \in Reqs \ {r} : /\ q'[s] = q[s] /\ oid'[s] = oid[s] /\ old'[s] = old[s]
                               /\ kids'[s] = kids[s] /\ seen'[s] = seen[s]
  BY <1>1, FoundFacts, SeenFacts
<1>3. CASE Reject(r, "badRequest")
  BY <1>2, <1>3, RejectOK DEF Codes
<1>4. CASE Mine(r) = {} /\ Continue(r, "saveOwner")
  <2>1. Present(seen[r])' = {}
    BY <1>2, <1>4 DEF Mine, Present
  <2>2. pc'[r] = "saveOwner" /\ resp'[r] = resp[r] /\ resp[r] = "none" /\ old[r] \in Owner
    BY <1>1, <1>4 DEF Continue, IInv, Types, Control, Local
  <2>3. Local(r)'
    BY <1>2, <2>1, <2>2 DEF Local
  <2> QED  BY <1>2, <1>4, <2>3, ContinueOK
<1> QED  BY <1>3, <1>4 DEF CountEntries

\* The overlap check leaves its findings to the statement that writes.
LEMMA CheckOK ==
    ASSUME IInv, NEW r \in Reqs, Check(r), UNCHANGED <<kind, referenced, q, oid, old, kids>>
    PROVE  IInv'
<1>1. pc[r] = "check" /\ seen' = [seen EXCEPT ![r] = Found(r)]
  BY DEF Check
<1>2. /\ Memory' /\ seen'[r] = Found(r) /\ q[r] \in Requests[kind]
      /\ \A s \in Reqs \ {r} : /\ q'[s] = q[s] /\ oid'[s] = oid[s] /\ old'[s] = old[s]
                               /\ kids'[s] = kids[s] /\ seen'[s] = seen[s]
  BY <1>1, FoundFacts, SeenFacts
<1>3. ASSUME NEW code \in Codes, Reject(r, code) PROVE IInv'
  BY <1>2, <1>3, RejectOK
<1>4. CASE /\ ~OverlapSeen(r, Written(r))
           /\ Continue(r, IF q[r].kind = "createPeriod" THEN "insertPeriod" ELSE "savePeriod")
  <2>1. PICK s \in {"insertPeriod", "savePeriod"} :
          Continue(r, s) /\ (s = "insertPeriod" <=> q[r].kind = "createPeriod")
    BY <1>4
  <2>2. /\ pc'[r] = s /\ resp'[r] = resp[r] /\ resp[r] = "none"
        /\ q[r].kind \in {"createPeriod", "updatePeriod"}
        /\ q[r].kind = "updatePeriod" =>
             old[r] \in Period /\ \A d \in Present(kids[r]) : kids[r][d].period = q[r].id
    BY <1>1, <2>1 DEF Continue, IInv, Types, Control, Local
  <2>3. /\ Mine(r) = Present(Found(r)) /\ \A i \in Mine(r) : Found(r)[i] = rows[i]
        /\ Present(seen[r])' = Present(Found(r)) /\ Written(r)' = Written(r)
    BY <1>2, FoundFacts DEF Present, Written
  <2>4. NoneOverlaps(r)'
    <3>1. ASSUME NEW i \in Present(seen[r])', ~(q[r].kind = "updatePeriod" /\ i = q[r].id)
          PROVE  ~Overlaps(Written(r)', seen'[r][i])
      <4>1. i \in Mine(r) /\ seen'[r][i] = rows[i]
        BY <1>2, <2>3, <3>1
      <4>2. ~Overlaps(Written(r), rows[i])
        BY <1>4, <3>1, <4>1 DEF OverlapSeen
      <4> QED  BY <2>3, <4>1, <4>2
    <3> QED  BY <3>1 DEF NoneOverlaps, Overlaps, Written
  <2>5. Present(kids[r])' = Present(kids[r])
    BY DEF Present
  <2>6. Local(r)'
    BY <1>2, <2>1, <2>2, <2>4, <2>5 DEF Local
  <2> QED  BY <1>2, <2>1, <2>6, ContinueOK
<1> QED  BY <1>3, <1>4 DEF Check, Codes

\* The DELETE of an import takes its snapshot.
LEMMA BeginClearOK ==
    ASSUME IInv, NEW r \in Reqs, BeginClear(r), UNCHANGED <<kind, referenced, q, oid, old>>
    PROVE  IInv'
<1>1. /\ pc[r] = "beginClear" /\ seen' = [seen EXCEPT ![r] = Found(r)] /\ Continue(r, "clear")
      /\ kids' = [kids EXCEPT ![r] = DetailsOf(Mine(r))]
      /\ DetailsOf(Mine(r)) \in [Ids -> Detail \cup {NoRow}]
  BY DetailsOfFacts DEF BeginClear
<1>2. /\ Memory' /\ q[r] \in Requests[kind]
      /\ \A s \in Reqs \ {r} : /\ q'[s] = q[s] /\ oid'[s] = oid[s] /\ old'[s] = old[s]
                               /\ kids'[s] = kids[s] /\ seen'[s] = seen[s]
  BY <1>1, FoundFacts, SeenFacts
<1>3. /\ pc'[r] = "clear" /\ resp'[r] = resp[r] /\ resp[r] = "none" /\ q[r].kind = "import"
  BY <1>1 DEF Continue, IInv, Types, Control, Local
<1>4. Local(r)'
  BY <1>2, <1>3 DEF Local
<1> QED  BY <1>1, <1>2, <1>4, ContinueOK

\* An import has deleted the periods that it has seen and are still there.
LEMMA ClearOK ==
    ASSUME IInv, NEW r \in Reqs, Clear(r), UNCHANGED <<kind, referenced, q, oid, old, kids>>
    PROVE  IInv'
<1> DEFINE S == Present(seen[r]) \cap Mine(r)
           t == [i \in Ids |-> IF i \in S THEN rows[i] ELSE NoRow]
<1>1. /\ pc[r] = "clear" /\ seen' = [seen EXCEPT ![r] = t]
      /\ cleared' = [cleared EXCEPT ![r] = S] /\ pc' = [pc EXCEPT ![r] = "install"]
      /\ owner' = owner /\ rows' = rows /\ details' = details /\ next' = next /\ resp' = resp
  BY DEF Clear, tables
<1>2. S \subseteq Present(rows) /\ S \subseteq Ids
  BY FoundFacts DEF Present
<1>3. t \in [Ids -> Period \cup {NoRow}] /\ Present(t) = S
  BY <1>2 DEF IInv, Types, Tables, Present
<1> HIDE DEF t, S
<1>4. /\ Memory' /\ seen'[r] = t /\ q[r] \in Requests[kind]
      /\ \A s \in Reqs \ {r} : /\ q'[s] = q[s] /\ oid'[s] = oid[s] /\ old'[s] = old[s]
                               /\ kids'[s] = kids[s] /\ seen'[s] = seen[s]
  BY <1>1, <1>3, SeenFacts
<1>5. Control' /\ Moves(r) /\ cleared'[r] = S /\ pc'[r] = "install"
  BY <1>1, <1>2, <1>4 DEF IInv, Types, Control, Moves
<1>6. Tables' /\ BudgetOnePerDay' /\ NothingDangles'
  BY <1>1 DEF IInv, Types, Tables, BudgetOnePerDay, OnePerDay, NothingDangles, Present
<1>7. resp'[r] = "none" /\ q[r].kind = "import" /\ Present(seen[r])' = S
  BY <1>1, <1>3, <1>4 DEF IInv, Local, Present
<1>8. Local(r)'
  BY <1>4, <1>5, <1>7 DEF Local
<1> QED  BY <1>4, <1>5, <1>6, <1>8, StepOK DEF Types

---------------------------------------------------------------------------
(* Days with one period. *)

\* Taking periods away leaves at most one a day.
LEMMA FewerOnePerDay ==
    ASSUME NEW t, NEW u, OnePerDay(t), \A i \in Ids : u[i] = NoRow \/ u[i] = t[i]
    PROVE  OnePerDay(u)
BY DEF OnePerDay, Present

\* So does writing one that overlaps no other.
LEMMA WrittenOnePerDay ==
    ASSUME NEW t \in [Ids -> Period \cup {NoRow}], NEW i \in Ids, NEW p \in Period, OnePerDay(t),
           \A j \in Present(t) \ {i} : ~Overlaps(p, t[j])
    PROVE  OnePerDay([t EXCEPT ![i] = p])
<1> DEFINE u == [t EXCEPT ![i] = p]
<1>1. u[i] = p /\ \A j \in Ids \ {i} : u[j] = t[j]
  OBVIOUS
<1> HIDE DEF u
<1>2. ASSUME NEW d \in Day, NEW j \in Present(u) \ {i} PROVE ~(Active(p, d) /\ Active(u[j], d))
  <2>1. j \in Ids /\ u[j] = t[j] /\ j \in Present(t)
    BY <1>1 DEF Present
  <2>2. u[j] \in Period /\ ~Overlaps(p, u[j])
    BY <2>1 DEF Present
  <2>3. /\ d \in Int /\ p.from \in Int /\ p.to \in Int /\ u[j].from \in Int /\ u[j].to \in Int
    BY <2>2, SizeAssumption DEF Period, Day, Until, Forever
  <2> QED  BY <2>2, <2>3 DEF Overlaps, Active
<1>3. ASSUME NEW d \in Day, NEW j \in Present(u), NEW k \in Present(u), Active(u[j], d), Active(u[k], d)
      PROVE  j = k
  <2>1. CASE j = i
    BY <1>1, <1>2, <1>3, <2>1
  <2>2. CASE k = i
    BY <1>1, <1>2, <1>3, <2>2
  <2>3. CASE j # i /\ k # i
    BY <1>1, <1>3, <2>3 DEF OnePerDay, Present
  <2> QED  BY <2>1, <2>2, <2>3
<1>4. OnePerDay(u)
  BY <1>3 DEF OnePerDay
<1> QED  BY <1>4 DEF u

\* The periods of a plan or funding stay one a day unless r writes, is answered,
\* and its check is out of date; those of a budget item in any case.
OneStill(r) ==
    OnePerDay(rows) /\ (kind = "budget" \/ seen[r] = rows \/ resp'[r] = resp[r]) => OnePerDay(rows)'

\* A step that leaves the periods alone.
LEMMA RowsKept == ASSUME NEW r \in Reqs, rows' = rows PROVE OneStill(r)
BY DEF OneStill, OnePerDay, Present

\* A statement that refuses its request.
LEMMA RefuseStill ==
    ASSUME IInv, NEW r \in Reqs, pc[r] # "idle", NEW code \in Codes, Reject(r, code),
           UNCHANGED locals, UNCHANGED <<kind, referenced>>
    PROVE  IInv' /\ OneStill(r)
<1>1. rows' = rows
  BY DEF Reject, tables
<1> QED  BY <1>1, RefuseOK, RowsKept

\* A statement that writes, and COMMIT.
LEMMA WriteOK ==
    ASSUME IInv, NEW r \in Reqs, pc[r] \notin {"idle", "done"}, Answer(r, "ok"),
           UNCHANGED locals, UNCHANGED <<kind, referenced>>, Tables', NothingDangles',
           OnePerDay(rows) /\ (kind = "budget" \/ seen[r] = rows) => OnePerDay(rows)'
    PROVE  IInv' /\ OneStill(r)
<1>1. resp[r] = "none" /\ resp'[r] = "ok"
  BY AnswerFacts DEF IInv, Local, Codes
<1>2. OneStill(r)
  BY <1>1 DEF OneStill
<1>3. BudgetOnePerDay'
  BY DEF IInv, BudgetOnePerDay
<1>4. IInv'
  BY <1>3, InFlight, AnswerOK DEF Codes
<1> QED  BY <1>2, <1>4

---------------------------------------------------------------------------
(* The steps that write the owner. *)

\* A new owner has its first entry or none.
LEMMA InsertOwnerOK ==
    ASSUME IInv, NEW r \in Reqs, InsertOwner(r), UNCHANGED locals, UNCHANGED <<kind, referenced>>
    PROVE  IInv' /\ OneStill(r)
<1> DEFINE k == q[r]
           entry == kind = "budget" /\ k.from # Absent
           p == [from |-> k.from, to |-> k.to]
<1>1. pc[r] = "insertOwner"
  BY DEF InsertOwner
<1>2. ASSUME NEW code \in Codes, Reject(r, code) PROVE IInv' /\ OneStill(r)
  BY <1>1, <1>2, RefuseStill
<1>3. CASE /\ owner = NoOwner
           /\ next \in Ids /\ next' = next + 1
           /\ owner' = [id |-> next, meaning |-> k.meaning]
           /\ rows' = IF entry THEN [rows EXCEPT ![next] = p] ELSE rows
           /\ Answer(r, "ok") /\ UNCHANGED details
  <2>1. k \in Requests[kind] /\ kind \in Kinds /\ k.kind = "createOwner"
    BY <1>1 DEF IInv, Local, Types, Control
  <2>2. k \in Request /\ k.meaning # NoMeaning
    BY <2>1, RequestAssumption
  <2>3. k.meaning \in Meanings /\ (k.from # Absent => p \in Period)
    BY <2>2 DEF Request, Period
  <2>4. rows \in [Ids -> Period \cup {NoRow}] /\ details \in [Ids -> Detail \cup {NoRow}]
    BY DEF IInv, Types, Tables
  <2>5. Present(rows) = {} /\ Present(details) = {}
    BY <1>3 DEF IInv, NothingDangles, Present, Types, Tables, Detail
  <2>6. rows' \in [Ids -> Period \cup {NoRow}]
    BY <1>3, <2>3, <2>4
  <2>7. next' \in 1..(MaxId + 1)
    BY <1>3, SizeAssumption DEF Ids
  <2>8. owner' \in Owner
    BY <1>3, <2>3 DEF Owner
  <2>9. Tables'
    BY <1>3, <2>4, <2>6, <2>7, <2>8 DEF Tables
  <2>10. NothingDangles'
    BY <1>3, <2>5, <2>8, SentinelAssumption DEF NothingDangles, Present
  <2>11. \A i, j \in Present(rows') : i = j
    BY <1>3, <2>4, <2>5 DEF Present
  <2>12. OnePerDay(rows)'
    BY <2>11 DEF OnePerDay, Present
  <2> QED  BY <1>1, <1>3, <2>9, <2>10, <2>12, WriteOK
<1> QED  BY <1>2, <1>3 DEF InsertOwner, Codes

\* Save can bring the owner back, without its periods.
LEMMA SaveOwnerOK ==
    ASSUME IInv, NEW r \in Reqs, SaveOwner(r), UNCHANGED locals, UNCHANGED <<kind, referenced>>
    PROVE  IInv' /\ OneStill(r)
<1>1. pc[r] = "saveOwner" /\ old[r] \in Owner
  BY DEF SaveOwner, IInv, Local
<1>2. CASE \E code \in Codes : Reject(r, code)
  BY <1>1, <1>2, RefuseStill
<1>3. CASE /\ owner' = [old[r] EXCEPT !.meaning = IF q[r].meaning = NoMeaning THEN @ ELSE q[r].meaning]
           /\ Answer(r, "ok") /\ UNCHANGED <<rows, details, next>>
  <2>1. q[r].meaning \in Meanings \cup {NoMeaning}
    BY <1>1, InFlight DEF Request
  <2>2. owner' \in Owner
    BY <1>1, <1>3, <2>1 DEF Owner
  <2>3. Tables' /\ NothingDangles'
    BY <1>3, <2>2, SentinelAssumption DEF IInv, Types, Tables, NothingDangles, Present
  <2>4. OnePerDay(rows) => OnePerDay(rows)'
    BY <1>3 DEF OnePerDay, Present
  <2> QED  BY <1>1, <1>3, <2>3, <2>4, WriteOK
<1>4. (owner # NoOwner /\ ~OwnerIs(r)) => \E code \in Codes : Reject(r, code)
  BY DEF SaveOwner, Codes
<1> QED  BY <1>2, <1>3, <1>4 DEF SaveOwner

\* Locking the owner writes nothing yet.
LEMMA LockOwnerOK ==
    ASSUME IInv, NEW r \in Reqs, LockOwner(r), UNCHANGED locals, UNCHANGED <<kind, referenced>>
    PROVE  IInv' /\ OneStill(r)
<1>1. pc[r] = "lockOwner"
  BY DEF LockOwner
<1>2. CASE \E code \in Codes : Reject(r, code)
  BY <1>1, <1>2, RefuseStill
<1>3. CASE Continue(r, "cascade")
  <2>1. /\ pc'[r] = "cascade" /\ resp'[r] = resp[r] /\ resp[r] = "none"
        /\ rows' = rows /\ q'[r] \in Requests[kind]
    BY <1>1, <1>3, InFlight DEF Continue, tables, IInv, Types, Control, Local
  <2>2. Local(r)'
    BY <2>1 DEF Local
  <2> QED  BY <1>1, <1>3, <2>1, <2>2, InFlight, ContinueOK, RowsKept
<1> QED  BY <1>2, <1>3 DEF LockOwner, Codes

\* Nothing of the owner is left behind.
LEMMA CascadeOK ==
    ASSUME IInv, NEW r \in Reqs, Cascade(r), UNCHANGED locals, UNCHANGED <<kind, referenced>>
    PROVE  IInv' /\ OneStill(r)
<1>1. /\ pc[r] = "cascade" /\ Answer(r, "ok") /\ owner' = NoOwner /\ next' = next
      /\ rows' = [i \in Ids |-> NoRow] /\ details' = [i \in Ids |-> NoRow]
  BY DEF Cascade
<1>2. Tables' /\ NothingDangles' /\ OnePerDay(rows)'
  BY <1>1 DEF IInv, Types, Tables, NothingDangles, OnePerDay, Present
<1> QED  BY <1>1, <1>2, WriteOK

---------------------------------------------------------------------------
(* The steps that write periods and details. *)

\* What an accepted create or update writes is a period.
LEMMA WrittenFacts ==
    ASSUME IInv, NEW r \in Reqs, pc[r] \in {"insertPeriod", "savePeriod"}
    PROVE  Written(r) \in Period /\ q[r].id \in Ids
<1>1. /\ q[r] \in Requests[kind] /\ kind \in Kinds
      /\ q[r].kind \in {"createPeriod", "updatePeriod"}
      /\ q[r].kind = "updatePeriod" => old[r] \in Period
  BY DEF IInv, Local, Types, Control
<1>2. q[r] \in Request /\ (q[r].from = Absent => q[r].kind = "updatePeriod")
  BY <1>1, RequestAssumption
<1> QED  BY <1>1, <1>2 DEF Request, Written, Period

\* A period that overlaps nothing the constraint or an up to date check knows.
LEMMA WrittenStill ==
    ASSUME IInv, NEW r \in Reqs, pc[r] \in {"insertPeriod", "savePeriod"}, NEW i \in Ids,
           pc[r] = "savePeriod" => i = q[r].id, ~Excluded(i, Written(r)),
           rows' = [rows EXCEPT ![i] = Written(r)],
           OnePerDay(rows), kind = "budget" \/ seen[r] = rows
    PROVE  OnePerDay(rows)'
<1>1. rows \in [Ids -> Period \cup {NoRow}] /\ Written(r) \in Period
  BY WrittenFacts DEF IInv, Types, Tables
<1>2. /\ NoneOverlaps(r)
      /\ pc[r] = "insertPeriod" => q[r].kind = "createPeriod"
  BY DEF IInv, Local
<1>3. \A j \in Present(rows) \ {i} : ~Overlaps(Written(r), rows[j])
  BY <1>2 DEF Excluded, NoneOverlaps
<1>4. OnePerDay([rows EXCEPT ![i] = Written(r)])
  BY <1>1, <1>3, WrittenOnePerDay
<1> QED  BY <1>4 DEF OnePerDay, Present

\* The foreign key of a period holds when it is inserted.
LEMMA InsertPeriodOK ==
    ASSUME IInv, NEW r \in Reqs, InsertPeriod(r), UNCHANGED locals, UNCHANGED <<kind, referenced>>
    PROVE  IInv' /\ OneStill(r)
<1>1. pc[r] = "insertPeriod"
  BY DEF InsertPeriod
<1>2. CASE Reject(r, "error")
  BY <1>1, <1>2, RefuseStill DEF Codes
<1>3. CASE /\ OwnerIs(r) /\ ~Excluded(next, Written(r))
           /\ next \in Ids /\ next' = next + 1 /\ rows' = [rows EXCEPT ![next] = Written(r)]
           /\ Answer(r, "ok") /\ UNCHANGED <<owner, details>>
  <2>1. Written(r) \in Period /\ Written(r) # NoRow
    BY <1>1, WrittenFacts, SentinelAssumption
  <2>2. rows \in [Ids -> Period \cup {NoRow}]
    BY DEF IInv, Types, Tables
  <2>3. next' \in 1..(MaxId + 1) /\ rows' \in [Ids -> Period \cup {NoRow}]
    BY <1>3, <2>1, <2>2, SizeAssumption DEF Ids
  <2>4. Tables'
    BY <1>3, <2>3 DEF IInv, Types, Tables
  <2>5. \A i \in Ids : rows[i] # NoRow => rows'[i] # NoRow
    BY <1>3, <2>1, <2>2
  <2>6. NothingDangles'
    <3>1. owner' # NoOwner
      BY <1>3 DEF OwnerIs
    <3>2. ASSUME NEW d \in Present(details) PROVE rows'[details[d].period] # NoRow
      <4>1. details[d].period \in Ids /\ rows[details[d].period] # NoRow
        BY <3>2 DEF IInv, Types, Tables, NothingDangles, Present, Detail
      <4> QED  BY <2>5, <4>1
    <3> QED  BY <1>3, <3>1, <3>2 DEF NothingDangles, Present
  <2>7. OnePerDay(rows) /\ (kind = "budget" \/ seen[r] = rows) => OnePerDay(rows)'
    BY <1>1, <1>3, WrittenStill
  <2> QED  BY <1>1, <1>3, <2>4, <2>6, <2>7, WriteOK
<1> QED  BY <1>2, <1>3 DEF InsertPeriod

\* A period that Save brings back has its owner, and comes without details.
LEMMA SavePeriodOK ==
    ASSUME IInv, NEW r \in Reqs, SavePeriod(r), UNCHANGED locals, UNCHANGED <<kind, referenced>>
    PROVE  IInv' /\ OneStill(r)
<1> DEFINE i == q[r].id
           gone == rows[i] = NoRow
<1>1. pc[r] = "savePeriod" /\ q[r].kind = "updatePeriod"
  BY DEF SavePeriod, IInv, Local
<1>2. CASE Reject(r, "error")
  BY <1>1, <1>2, RefuseStill DEF Codes
<1>3. CASE /\ ~(gone /\ (~OwnerIs(r) \/ Present(kids[r]) # {}))
           /\ ~Excluded(i, Written(r))
           /\ rows' = [rows EXCEPT ![i] = Written(r)]
           /\ details' = [d \in Ids |-> IF details[d] = NoRow THEN kids[r][d] ELSE details[d]]
           /\ Answer(r, "ok") /\ UNCHANGED <<owner, next>>
  <2>1. Written(r) \in Period /\ Written(r) # NoRow /\ i \in Ids
    BY <1>1, WrittenFacts, SentinelAssumption
  <2>2. /\ rows \in [Ids -> Period \cup {NoRow}] /\ details \in [Ids -> Detail \cup {NoRow}]
        /\ kids[r] \in [Ids -> Detail \cup {NoRow}]
    BY DEF IInv, Types, Tables, Memory
  <2>3. /\ rows' \in [Ids -> Period \cup {NoRow}] /\ details' \in [Ids -> Detail \cup {NoRow}]
        /\ rows'[i] # NoRow /\ \A j \in Ids : rows[j] # NoRow => rows'[j] # NoRow
    BY <1>3, <2>1, <2>2
  <2>4. Tables'
    BY <1>3, <2>3 DEF IInv, Types, Tables
  <2>5. owner # NoOwner
    <3>1. CASE gone
      BY <1>3, <3>1 DEF OwnerIs
    <3>2. CASE ~gone
      BY <2>1, <3>2 DEF IInv, NothingDangles, Present
    <3> QED  BY <3>1, <3>2
  <2>6. ASSUME NEW d \in Present(details') PROVE rows'[details'[d].period] # NoRow
    <3>1. d \in Ids /\ details'[d] # NoRow
      BY <2>6 DEF Present
    <3>2. CASE details[d] = NoRow
      <4>1. details'[d] = kids[r][d] /\ d \in Present(kids[r])
        BY <1>3, <3>1, <3>2 DEF Present
      <4>2. details'[d].period = i
        BY <1>1, <4>1 DEF IInv, Local
      <4> QED  BY <2>3, <4>2
    <3>3. CASE details[d] # NoRow
      <4>1. details'[d] = details[d] /\ details[d].period \in Ids /\ rows[details[d].period] # NoRow
        BY <1>3, <2>2, <3>1, <3>3 DEF IInv, NothingDangles, Present, Detail
      <4> QED  BY <2>3, <4>1
    <3> QED  BY <3>2, <3>3
  <2>7. NothingDangles'
    BY <1>3, <2>5, <2>6 DEF NothingDangles, Present
  <2>8. OnePerDay(rows) /\ (kind = "budget" \/ seen[r] = rows) => OnePerDay(rows)'
    BY <1>1, <1>3, <2>1, WrittenStill
  <2> QED  BY <1>1, <1>3, <2>4, <2>7, <2>8, WriteOK
<1> QED  BY <1>2, <1>3 DEF SavePeriod

\* What stays when the details of some periods go.
LEMMA WithoutFacts ==
    ASSUME IInv, NEW S
    PROVE  /\ WithoutDetailsOf(S) \in [Ids -> Detail \cup {NoRow}]
           /\ \A d \in Present(WithoutDetailsOf(S)) :
                /\ WithoutDetailsOf(S)[d] = details[d] /\ details[d].period \in Ids \ S
                /\ rows[details[d].period] # NoRow
<1>1. details \in [Ids -> Detail \cup {NoRow}]
  BY DEF IInv, Types, Tables
<1>2. WithoutDetailsOf(S) \in [Ids -> Detail \cup {NoRow}]
  BY <1>1 DEF WithoutDetailsOf
<1>3. ASSUME NEW d \in Present(WithoutDetailsOf(S))
      PROVE  /\ WithoutDetailsOf(S)[d] = details[d] /\ details[d].period \in Ids \ S
             /\ rows[details[d].period] # NoRow
  <2>1. /\ d \in Ids /\ WithoutDetailsOf(S)[d] # NoRow
        /\ WithoutDetailsOf(S)[d] = IF details[d] # NoRow /\ details[d].period \in S THEN NoRow ELSE details[d]
    BY <1>3 DEF Present, WithoutDetailsOf
  <2>2. WithoutDetailsOf(S)[d] = details[d] /\ details[d] # NoRow /\ details[d].period \notin S
    BY <2>1
  <2>3. details[d].period \in Ids /\ rows[details[d].period] # NoRow
    BY <1>1, <2>1, <2>2 DEF IInv, NothingDangles, Present, Detail
  <2> QED  BY <2>2, <2>3
<1> QED  BY <1>2, <1>3

\* The entries of a period go in a transaction of their own.
LEMMA DeleteEntriesOK ==
    ASSUME IInv, NEW r \in Reqs, DeleteEntries(r), UNCHANGED locals, UNCHANGED <<kind, referenced>>
    PROVE  IInv' /\ OneStill(r)
<1>1. /\ pc[r] = "deleteEntries" /\ pc' = [pc EXCEPT ![r] = "deletePeriod"]
      /\ owner' = owner /\ rows' = rows /\ next' = next /\ cleared' = cleared /\ resp' = resp
      /\ details' = WithoutDetailsOf({q[r].id})
  BY DEF DeleteEntries
<1>2. Tables'
  BY <1>1, WithoutFacts DEF IInv, Types, Tables
<1>3. NothingDangles'
  <2>1. \A d \in Present(details') : rows[details'[d].period] # NoRow
    BY <1>1, WithoutFacts
  <2> QED  BY <1>1, <2>1 DEF IInv, NothingDangles, Present
<1>4. BudgetOnePerDay'
  BY <1>1 DEF IInv, BudgetOnePerDay, OnePerDay, Present
<1>5. Control' /\ Moves(r) /\ Memory' /\ q'[r] \in Requests[kind]
  BY <1>1, InFlight DEF IInv, Types, Control, Moves
<1>6. pc'[r] = "deletePeriod" /\ resp'[r] = "none"
  BY <1>1 DEF IInv, Types, Control, Local
<1>7. Local(r)'
  BY <1>5, <1>6 DEF Local
<1> QED  BY <1>1, <1>2, <1>3, <1>4, <1>5, <1>7, StepOK, RowsKept DEF Types

\* A period goes with what hangs on it.
LEMMA DeletePeriodOK ==
    ASSUME IInv, NEW r \in Reqs, DeletePeriod(r), UNCHANGED locals, UNCHANGED <<kind, referenced>>
    PROVE  IInv' /\ OneStill(r)
<1>1. /\ pc[r] = "deletePeriod" /\ rows' = [rows EXCEPT ![q[r].id] = NoRow]
      /\ details' = WithoutDetailsOf({q[r].id})
      /\ Answer(r, "ok") /\ owner' = owner /\ next' = next
  BY DEF DeletePeriod
<1>2. /\ rows \in [Ids -> Period \cup {NoRow}]
      /\ rows' \in [Ids -> Period \cup {NoRow}]
      /\ \A i \in Ids : rows'[i] = IF i = q[r].id THEN NoRow ELSE rows[i]
  BY <1>1 DEF IInv, Types, Tables
<1>3. Tables'
  BY <1>1, <1>2, WithoutFacts DEF IInv, Types, Tables
<1>4. NothingDangles'
  <2>1. \A d \in Present(details') : rows'[details'[d].period] # NoRow
    BY <1>1, <1>2, WithoutFacts
  <2> QED  BY <1>1, <1>2, <2>1 DEF IInv, NothingDangles, Present
<1>5. OnePerDay(rows) => OnePerDay(rows)'
  BY <1>2, FewerOnePerDay DEF OnePerDay, Present
<1> QED  BY <1>1, <1>3, <1>4, <1>5, WriteOK

\* Writing or removing one detail, its period being there.
LEMMA DetailWritten ==
    ASSUME IInv, NEW i \in Ids, NEW e \in Detail \cup {NoRow}, e # NoRow => rows[e.period] # NoRow,
           details' = [details EXCEPT ![i] = e], UNCHANGED <<owner, rows>>,
           next' \in 1..(MaxId + 1)
    PROVE  Tables' /\ NothingDangles' /\ (OnePerDay(rows) => OnePerDay(rows)')
<1>1. details \in [Ids -> Detail \cup {NoRow}]
  BY DEF IInv, Types, Tables
<1>2. /\ details' \in [Ids -> Detail \cup {NoRow}]
      /\ \A d \in Ids : details'[d] = IF d = i THEN e ELSE details[d]
  BY <1>1
<1>3. Tables'
  BY <1>2 DEF IInv, Types, Tables
<1>4. \A d \in Present(details') : rows[details'[d].period] # NoRow
  BY <1>2 DEF IInv, NothingDangles, Present
<1>5. NothingDangles'
  BY <1>4 DEF IInv, NothingDangles, Present
<1> QED  BY <1>3, <1>5 DEF OnePerDay, Present

\* A detail is inserted under a period that is there.
LEMMA InsertDetailOK ==
    ASSUME IInv, NEW r \in Reqs, InsertDetail(r), UNCHANGED locals, UNCHANGED <<kind, referenced>>
    PROVE  IInv' /\ OneStill(r)
<1> DEFINE p == q[r].id
           e == [period |-> p, key |-> q[r].key]
<1>1. pc[r] = "insertDetail"
  BY DEF InsertDetail
<1>2. CASE \E code \in {"error", "conflict"} : Reject(r, code)
  BY <1>1, <1>2, RefuseStill DEF Codes
<1>3. CASE /\ rows[p] # NoRow
           /\ next \in Ids /\ next' = next + 1 /\ details' = [details EXCEPT ![next] = e]
           /\ Answer(r, "ok") /\ UNCHANGED <<owner, rows>>
  <2>1. e \in Detail /\ e.period = p
    BY <1>1, InFlight DEF Request, Detail
  <2>2. next' \in 1..(MaxId + 1)
    BY <1>3, SizeAssumption DEF Ids
  <2>3. Tables' /\ NothingDangles' /\ (OnePerDay(rows) => OnePerDay(rows)')
    BY <1>3, <2>1, <2>2, DetailWritten
  <2> QED  BY <1>1, <1>3, <2>3, WriteOK
<1> QED  BY <1>2, <1>3 DEF InsertDetail

\* A detail that Save brings back has its period.
LEMMA SaveDetailOK ==
    ASSUME IInv, NEW r \in Reqs, SaveDetail(r), UNCHANGED locals, UNCHANGED <<kind, referenced>>
    PROVE  IInv' /\ OneStill(r)
<1> DEFINE e == [old[r] EXCEPT !.key = q[r].key]
<1>1. pc[r] = "saveDetail" /\ old[r] \in Detail
  BY DEF SaveDetail, IInv, Local
<1>2. CASE \E code \in {"error", "conflict"} : Reject(r, code)
  BY <1>1, <1>2, RefuseStill DEF Codes
<1>3. CASE /\ rows[e.period] # NoRow /\ details' = [details EXCEPT ![q[r].id] = e]
           /\ Answer(r, "ok") /\ UNCHANGED <<owner, rows, next>>
  <2>1. e \in Detail /\ q[r].id \in Ids
    BY <1>1, InFlight DEF Request, Detail
  <2>2. next' \in 1..(MaxId + 1)
    BY <1>3 DEF IInv, Types, Tables
  <2>3. Tables' /\ NothingDangles' /\ (OnePerDay(rows) => OnePerDay(rows)')
    BY <1>3, <2>1, <2>2, DetailWritten
  <2> QED  BY <1>1, <1>3, <2>3, WriteOK
<1> QED  BY <1>2, <1>3 DEF SaveDetail

\* A detail goes alone.
LEMMA DeleteDetailOK ==
    ASSUME IInv, NEW r \in Reqs, DeleteDetail(r), UNCHANGED locals, UNCHANGED <<kind, referenced>>
    PROVE  IInv' /\ OneStill(r)
<1>1. /\ pc[r] = "deleteDetail" /\ details' = [details EXCEPT ![q[r].id] = NoRow]
      /\ Answer(r, "ok") /\ owner' = owner /\ rows' = rows /\ next' = next
  BY DEF DeleteDetail
<1>2. q[r].id \in Ids /\ next' \in 1..(MaxId + 1)
  BY <1>1, InFlight DEF IInv, Types, Tables
<1>3. Tables' /\ NothingDangles' /\ (OnePerDay(rows) => OnePerDay(rows)')
  BY <1>1, <1>2, DetailWritten
<1> QED  BY <1>1, <1>3, WriteOK

---------------------------------------------------------------------------
(* Import. *)

\* An import leaves the periods of its file and those its DELETE did not see.
LEMMA InstallOK ==
    ASSUME IInv, NEW r \in Reqs, Install(r), UNCHANGED locals, UNCHANGED <<kind, referenced>>
    PROVE  IInv' /\ OneStill(r)
<1> DEFINE f == q[r].file
           new == oid[r] = Absent
           base == IF new THEN next + 1 ELSE next
           line(i) == f[i - base + 1]
           added == base .. (base + Len(f) - 1)
           p(i) == [from |-> line(i).from, to |-> line(i).to]
           e(i) == [period |-> i, key |-> line(i).key]
<1>1. pc[r] = "install"
  BY DEF Install
<1>2. CASE \E code \in {"error", "badRequest", "notFound"} : Reject(r, code)
  BY <1>1, <1>2, RefuseStill DEF Codes
<1>3. CASE /\ new => owner = NoOwner
           /\ FileOK(f)
           /\ ~new => OwnerIs(r)
           /\ next \in Ids /\ added \subseteq Ids /\ next' = base + Len(f)
           /\ owner' = IF new THEN [id |-> next, meaning |-> q[r].meaning] ELSE owner
           /\ rows' = [i \in Ids |-> IF i \in added THEN p(i)
                                     ELSE IF i \in cleared[r] THEN NoRow ELSE rows[i]]
           /\ details' = [i \in Ids |-> IF i \in added /\ line(i).key # NoKey THEN e(i)
                                        ELSE IF kids[r][i] # NoRow THEN NoRow
                                        ELSE WithoutDetailsOf(cleared[r])[i]]
           /\ Answer(r, "ok")
  <2> HIDE DEF f, new, base, line, added, p, e
  <2>1. q[r] \in Requests[kind] /\ kind \in Kinds /\ q[r].kind = "import"
    BY <1>1 DEF IInv, Local, Types, Control
  <2>2. q[r] \in Request /\ kind = "payplan" /\ q[r].meaning # NoMeaning
    BY <2>1, RequestAssumption
  <2>3. f \in Seq(Line) /\ q[r].meaning \in Meanings
    BY <2>2 DEF Request, f
  <2>4. /\ next \in Int /\ next >= 1 /\ MaxId \in Nat /\ Len(f) \in Nat /\ base \in Int /\ base >= 1
        /\ base <= MaxId + 1 \/ (base = MaxId + 2 /\ new)
    BY <1>3, <2>3, SizeAssumption DEF Ids, base
  <2>5. ASSUME NEW i \in added
        PROVE  /\ i \in Ids /\ i - base + 1 \in DOMAIN f /\ line(i) \in Line
               /\ p(i) \in Period /\ (line(i).key # NoKey => e(i) \in Detail)
    <3>1. i \in Ids /\ i - base + 1 \in DOMAIN f
      <4>1. i \in Ids /\ i \in Int /\ base <= i /\ i <= base + Len(f) - 1
        BY <1>3, <2>4, <2>5 DEF added
      <4>2. DOMAIN f = 1..Len(f)
        BY <2>3
      <4> QED  BY <2>4, <4>1, <4>2
    <3>2. line(i) \in Line
      BY <2>3, <3>1 DEF line
    <3> QED  BY <3>1, <3>2 DEF Line, Period, Detail, p, e
  <2>6. owner' \in Owner
    BY <1>3, <2>3 DEF IInv, Types, Tables, Owner, OwnerIs
  <2>7. /\ rows \in [Ids -> Period \cup {NoRow}]
        /\ WithoutDetailsOf(cleared[r]) \in [Ids -> Detail \cup {NoRow}]
    BY WithoutFacts DEF IInv, Types, Tables
  <2>8. /\ \A i \in added : i \in Ids /\ rows'[i] = p(i) /\ p(i) \in Period /\ rows'[i] # NoRow
        /\ \A i \in Ids \ added : rows'[i] = IF i \in cleared[r] THEN NoRow ELSE rows[i]
        /\ rows' \in [Ids -> Period \cup {NoRow}]
    <3>1. \A i \in added : i \in Ids /\ p(i) \in Period /\ p(i) # NoRow
      BY <2>5, SentinelAssumption
    <3>2. \A i \in Ids : rows'[i] = IF i \in added THEN p(i)
                                    ELSE IF i \in cleared[r] THEN NoRow ELSE rows[i]
      BY <1>3
    <3>3. rows' \in [Ids -> Period \cup {NoRow}]
      BY <1>3, <2>7, <3>1
    <3> QED  BY <3>1, <3>2, <3>3
  <2>9. details' \in [Ids -> Detail \cup {NoRow}]
    <3>1. \A i \in added : line(i).key # NoKey => e(i) \in Detail
      BY <2>5
    <3> QED  BY <1>3, <2>7, <3>1
  <2>10. next' \in 1..(MaxId + 1)
    <3>1. CASE Len(f) = 0
      BY <1>3, <2>4, <3>1 DEF Ids, base
    <3>2. CASE Len(f) # 0
      <4>1. base + Len(f) - 1 \in added
        BY <2>4, <3>2 DEF added
      <4>2. base + Len(f) - 1 <= MaxId /\ next' = base + Len(f)
        BY <1>3, <2>4, <4>1 DEF Ids
      <4> QED  BY <2>4, <4>2
    <3> QED  BY <3>1, <3>2
  <2>11. Tables'
    BY <2>6, <2>8, <2>9, <2>10 DEF Tables
  <2>12. ASSUME NEW d \in Present(details') PROVE rows'[details'[d].period] # NoRow
    <3>1. d \in Ids /\ details'[d] # NoRow
      BY <2>12 DEF Present
    <3>2. CASE d \in added /\ line(d).key # NoKey
      <4>1. details'[d] = e(d)
        BY <1>3, <3>1, <3>2
      <4>2. e(d).period = d
        BY DEF e
      <4> QED  BY <2>8, <3>2, <4>1, <4>2
    <3>3. CASE ~(d \in added /\ line(d).key # NoKey)
      <4>1. details'[d] = WithoutDetailsOf(cleared[r])[d]
        BY <1>3, <3>1, <3>3
      <4>2. d \in Present(WithoutDetailsOf(cleared[r]))
        BY <3>1, <4>1 DEF Present
      <4>3. /\ details'[d].period \in Ids \ cleared[r]
            /\ rows[details'[d].period] # NoRow
        BY <4>1, <4>2, WithoutFacts
      <4> QED  BY <2>8, <4>3
    <3> QED  BY <3>2, <3>3
  <2>13. NothingDangles'
    BY <2>6, <2>12, SentinelAssumption DEF NothingDangles, Present
  <2>14. ASSUME seen[r] = rows PROVE OnePerDay(rows')
    <3>1. \A i \in Present(rows') : i \in added
      <4>1. CASE new
        BY <1>3, <2>8, <4>1 DEF IInv, NothingDangles, Present
      <4>2. CASE ~new
        BY <1>1, <2>8, <2>14, <4>2 DEF IInv, Local, Present, new
      <4> QED  BY <4>1, <4>2
    <3>2. ASSUME NEW d \in Day, NEW i \in added, NEW j \in added, Active(p(i), d), Active(p(j), d)
          PROVE  i = j
      <4>1. p(i) \in Period /\ p(j) \in Period /\ d \in Int
        BY <2>5, SizeAssumption DEF Day
      <4>2. /\ p(i).from \in Int /\ p(i).to \in Int /\ p(j).from \in Int /\ p(j).to \in Int
            /\ p(i).from = line(i).from /\ p(i).to = line(i).to
            /\ p(j).from = line(j).from /\ p(j).to = line(j).to
        BY <4>1, SizeAssumption DEF Period, Day, Until, Forever, p
      <4>3. Overlaps(line(i), line(j))
        BY <3>2, <4>1, <4>2 DEF Active, Overlaps
      <4>4. i - base + 1 \in DOMAIN f /\ j - base + 1 \in DOMAIN f
        BY <2>5
      <4>5. i - base + 1 = j - base + 1
        BY <1>3, <4>3, <4>4 DEF FileOK, line
      <4>6. i \in Int /\ j \in Int
        BY <2>5 DEF Ids
      <4> QED  BY <2>4, <4>5, <4>6
    <3> QED  BY <2>8, <3>1, <3>2 DEF OnePerDay
  <2>15. OnePerDay(rows) /\ (kind = "budget" \/ seen[r] = rows) => OnePerDay(rows)'
    BY <2>2, <2>14 DEF OnePerDay, Present
  <2> QED  BY <1>1, <1>3, <2>11, <2>13, <2>15, WriteOK
<1> QED  BY <1>2, <1>3 DEF Install

---------------------------------------------------------------------------

\* Every statement of every request.
LEMMA ServeOK ==
    ASSUME IInv, NEW r \in Reqs, Serve(r), UNCHANGED <<kind, referenced>>
    PROVE  IInv' /\ OneStill(r)
<1>1. CASE (CountEntries(r) \/ Check(r) \/ Clear(r)) /\ UNCHANGED <<q, oid, old, kids>>
  <2>1. rows' = rows
    BY <1>1 DEF CountEntries, Check, Clear, Reject, Continue, tables
  <2> QED  BY <1>1, <2>1, CountEntriesOK, CheckOK, ClearOK, RowsKept
<1>2. CASE BeginClear(r) /\ UNCHANGED <<q, oid, old>>
  <2>1. rows' = rows
    BY <1>2 DEF BeginClear, Continue, tables
  <2> QED  BY <1>2, <2>1, BeginClearOK, RowsKept
<1>3. CASE UNCHANGED locals /\ WriteOwner(r)
  BY <1>3, InsertOwnerOK, SaveOwnerOK, LockOwnerOK, CascadeOK DEF WriteOwner
<1>4. CASE UNCHANGED locals /\ WritePeriod(r)
  BY <1>4, InsertPeriodOK, SavePeriodOK, DeleteEntriesOK, DeletePeriodOK DEF WritePeriod
<1>5. CASE UNCHANGED locals /\ WriteDetail(r)
  BY <1>5, InsertDetailOK, SaveDetailOK, DeleteDetailOK DEF WriteDetail
<1>6. CASE UNCHANGED locals /\ Install(r)
  BY <1>6, InstallOK
<1>7. CASE UNCHANGED locals /\ DeadlockVictim(r)
  <2>1. pc[r] # "idle" /\ Reject(r, "error")
    BY <1>7 DEF DeadlockVictim
  <2> QED  BY <1>7, <2>1, RefuseStill DEF Codes
<1> QED  BY <1>1, <1>2, <1>3, <1>4, <1>5, <1>6, <1>7 DEF Serve

\* A step keeps the invariant, and is the step of one request at most.
LEMMA NextOK ==
    ASSUME IInv, [Next]_vars
    PROVE  IInv' /\ ((\E r \in Reqs : OneStill(r)) \/ UNCHANGED vars)
<1>1. ASSUME NEW r \in Reqs, Send(r), UNCHANGED <<kind, referenced>> PROVE IInv' /\ OneStill(r)
  <2>1. rows' = rows
    BY <1>1 DEF Send, SendOwner, SendPeriod, SendDetail, Reject, Continue, tables
  <2> QED  BY <1>1, <2>1, SendOK, RowsKept
<1>2. ASSUME NEW r \in Reqs, Interrupted(r), UNCHANGED <<kind, referenced>> PROVE IInv' /\ OneStill(r)
  BY <1>2, RefuseStill DEF Interrupted, Codes
<1>3. CASE UNCHANGED vars
  <2>1. ASSUME NEW r \in Reqs PROVE Local(r)'
    <3>1. NoneOverlaps(r) => NoneOverlaps(r)'
      BY <1>3 DEF vars, NoneOverlaps, Written, Present, Overlaps
    <3>2. Present(seen[r])' = Present(seen[r]) /\ Present(kids[r])' = Present(kids[r])
      BY <1>3 DEF vars, Present
    <3>3. Local(r)
      BY DEF IInv
    <3> QED  BY <1>3, <3>1, <3>2, <3>3 DEF Local, vars
  <2>2. Types'
    BY <1>3 DEF vars, IInv, Types, Tables, Memory, Control
  <2>3. BudgetOnePerDay' /\ NothingDangles'
    BY <1>3 DEF vars, IInv, BudgetOnePerDay, OnePerDay, NothingDangles, Present
  <2> QED  BY <1>3, <2>1, <2>2, <2>3 DEF IInv
<1> QED  BY <1>1, <1>2, <1>3, ServeOK DEF Next, Finished

\* Every schedule is in order when the requests start.
LEMMA InitOK == Init => IInv
<1> SUFFICES ASSUME Init PROVE IInv
  OBVIOUS
<1>1. PICK s \in Schedules :
        /\ kind = s.kind /\ referenced = s.referenced
        /\ owner = s.owner /\ rows = s.rows /\ details = s.details /\ next = s.next
  BY DEF Init
<1>2. Types
  BY <1>1, ScheduleAssumption DEF Init, Types, Tables, Memory, Control, Codes
<1>3. BudgetOnePerDay /\ NothingDangles
  BY <1>1, ScheduleAssumption DEF BudgetOnePerDay, NothingDangles
<1>4. \A r \in Reqs : Local(r)
  BY DEF Init, Local
<1> QED  BY <1>2, <1>3, <1>4 DEF IInv

\* The inductive invariant: the tables are in order, and every request remembers
\* what its next statement relies on.
THEOREM Inductive == Spec => []IInv
<1>1. IInv /\ [Next]_vars => IInv'
  BY NextOK
<1> QED  BY InitOK, <1>1, PTL DEF Spec

\* The tables and the requests' locals have their types.
THEOREM TypeCorrect == Spec => []TypeOK
<1>1. IInv => TypeOK
  BY DEF IInv, Types, Tables, Memory, Control, TypeOK
<1> QED  BY Inductive, <1>1, PTL

\* A budget item never has two amounts on one day, whatever is sent at once.
THEOREM BudgetCorrect == Spec => []BudgetOnePerDay
<1>1. IInv => BudgetOnePerDay
  BY DEF IInv
<1> QED  BY Inductive, <1>1, PTL

\* No period is left without its owner and no detail without its period.
THEOREM NothingDanglesCorrect == Spec => []NothingDangles
<1>1. IInv => NothingDangles
  BY DEF IInv
<1> QED  BY Inductive, <1>1, PTL

\* Two periods of a plan or funding on one day are the work of a request whose
\* check was out of date.
THEOREM AmbiguousOnlyByRaceCorrect == Spec => AmbiguousOnlyByRace
<1> DEFINE A == OnePerDay(rows) /\ ~OnePerDay(rows') =>
                  \E r \in Reqs : resp'[r] # resp[r] /\ seen[r] # rows
<1>1. IInv /\ [Next]_vars => [A]_vars
  <2> SUFFICES ASSUME IInv, [Next]_vars, ~UNCHANGED vars PROVE A
    OBVIOUS
  <2>1. PICK r \in Reqs : OneStill(r)
    BY NextOK
  <2>2. OnePerDay(rows)' <=> OnePerDay(rows')
    BY DEF OnePerDay, Present
  <2> QED  BY <2>1, <2>2 DEF OneStill
<1> QED  BY Inductive, <1>1, PTL DEF Spec, AmbiguousOnlyByRace

\* What the amounts of a budget item mean changes under its entries only if the
\* item or they changed after the update had looked at them.
THEOREM MeaningKeptCorrect == Spec => MeaningKept
<1> DEFINE A == \A r \in Reqs :
                  /\ pc[r] = "saveOwner" /\ resp'[r] = "ok" /\ kind = "budget"
                  /\ owner # NoOwner /\ owner'.meaning # owner.meaning /\ Present(rows) # {}
                  => old[r] # owner \/ seen[r] # rows
<1>1. IInv /\ [Next]_vars => [A]_vars
  <2> SUFFICES ASSUME IInv, [Next]_vars, ~UNCHANGED vars,
                      NEW r \in Reqs, pc[r] = "saveOwner", resp'[r] = "ok",
                      owner # NoOwner, owner'.meaning # owner.meaning, Present(rows) # {},
                      old[r] = owner, seen[r] = rows
               PROVE  FALSE
    OBVIOUS
  <2>1. resp[r] = "none" /\ q[r].meaning \in {NoMeaning, owner.meaning}
    BY DEF IInv, Local
  <2>2. ASSUME NEW s \in Reqs, Send(s) \/ Serve(s) \/ Interrupted(s) PROVE s = r
    <3>1. \E code \in {"ok", "error"} \cup Codes : Answer(s, code) \/ resp' = resp
      BY <2>2 DEF Codes, Send, SendOwner, SendPeriod, SendDetail, Serve, CountEntries, Check, Clear,
         BeginClear, WriteOwner, WritePeriod, WriteDetail, InsertOwner, SaveOwner, LockOwner, Cascade,
         InsertPeriod, SavePeriod, DeleteEntries, DeletePeriod, InsertDetail, SaveDetail, DeleteDetail,
         Install, DeadlockVictim, Interrupted, Reject, Continue
    <3> QED  BY <2>1, <3>1 DEF Answer, IInv, Types, Control
  <2>3. SaveOwner(r)
    <3>1. Send(r) \/ Serve(r) \/ Interrupted(r)
      BY <2>2 DEF Next, Finished
    <3>2. ~Send(r) /\ ~Interrupted(r)
      BY DEF Send, Interrupted, Reject, Answer, IInv, Types, Control
    <3> QED  BY <3>1, <3>2 DEF Serve, CountEntries, Check, Clear, BeginClear, WriteOwner, WritePeriod,
         WriteDetail, InsertOwner, LockOwner, Cascade, InsertPeriod, SavePeriod, DeleteEntries,
         DeletePeriod, InsertDetail, SaveDetail, DeleteDetail, Install, DeadlockVictim
  <2>4. owner'.meaning = owner.meaning
    <3>1. CASE Reject(r, "error") \/ Reject(r, "conflict")
      BY <3>1 DEF Reject, tables
    <3>2. CASE owner' = [old[r] EXCEPT !.meaning = IF q[r].meaning = NoMeaning THEN @ ELSE q[r].meaning]
      <4>1. owner \in Owner
        BY DEF IInv, Types, Tables
      <4> QED  BY <2>1, <3>2, <4>1 DEF Owner
    <3> QED  BY <2>3, <3>1, <3>2 DEF SaveOwner
  <2> QED  BY <2>4
<1> QED  BY Inductive, <1>1, PTL DEF Spec, MeaningKept
=============================================================================

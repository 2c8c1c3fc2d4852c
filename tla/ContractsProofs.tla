--------------------------- MODULE ContractsProofs ---------------------------
(***************************************************************************)
(* Theorems about Contracts, for every calendar, funding configuration,    *)
(* pay plan, set of requests and number of concurrent clients.             *)
(***************************************************************************)
EXTENDS Contracts, TLAPS

---------------------------------------------------------------------------
(* The rows the intents write are rows. *)

\* Merging the auto-applied keys of a period into a property map gives a map.
LEMMA MergeDefaultsType ==
    ASSUME NEW p \in Props, NEW d \in Day
    PROVE  MergeDefaults(p, d) \in Props
<1>1. autoApply(d) \in SUBSET Keys
  BY FundingAssumption DEF autoApply, Period
<1>2. KeysOf(p) \in SUBSET Keys
  BY DEF KeysOf, Props
<1> QED  BY <1>1, <1>2 DEF MergeDefaults, Props

\* What a request the API can send looks like.
\* The fields of a request that passed the handlers' binding.
LEMMA RequestType ==
    ASSUME NEW k \in Requests
    PROVE  /\ k \in Request /\ k.kind \in Kinds /\ k.id \in Ids /\ k.later \in Ids
           /\ k.exp \in Nat \cup {AnyVersion} /\ k.laterExp \in Nat /\ k.at \in Day
           /\ k.from \in Day \cup {Unset} /\ k.to \in Until \cup {Unset}
           /\ k.terms \in Terms \cup {Unset} /\ k.props \in Props \cup {Unset}
BY RequestAssumption DEF Request

\* The fields of a contract row.
LEMMA RowType ==
    ASSUME NEW x \in Row
    PROVE  /\ x.from \in Day /\ x.to \in Until /\ x.ver \in Nat \ {0}
           /\ x.terms \in Terms /\ x.props \in Props
           /\ x.from \in Nat /\ x.to \in Nat /\ x.ver \in Nat
BY CalendarAssumption DEF Row, Day, Until, Forever

\* The created contract of an accepted request is a row.
LEMMA CreatedType ==
    ASSUME NEW k \in Requests, k.kind = "create"
    PROVE  Created(k) \in Row
<1>1. k.from \in Day /\ k.to \in Until /\ k.terms \in Terms /\ k.props \in Props
  BY RequestType, RequestAssumption
<1>2. MergeDefaults(k.props, k.from) \in Props
  BY <1>1, MergeDefaultsType
<1> QED  BY <1>1, <1>2 DEF Created, Row

\* A corrected contract is a row.
LEMMA CorrectedType ==
    ASSUME NEW k \in Requests, NEW x \in Row
    PROVE  Corrected(x, k) \in Row
<1>1. /\ Opt(k.from, x.from) \in Day /\ Opt(k.to, x.to) \in Until
      /\ Opt(k.terms, x.terms) \in Terms /\ Opt(k.props, x.props) \in Props
  BY RequestType, RowType DEF Opt
<1>2. MergeDefaults(Opt(k.props, x.props), Opt(k.from, x.from)) \in Props
  BY <1>1, MergeDefaultsType
<1>3. x.ver + 1 \in Nat \ {0} /\ x.props \in Props
  BY RowType
<1> QED  BY <1>1, <1>2, <1>3 DEF Corrected, Row

\* An ended contract is a row.
LEMMA EndedType ==
    ASSUME NEW k \in Requests, NEW x \in Row, EndOK(x, k)
    PROVE  Ended(x, k) \in Row
<1>1. k.to \in Until
  BY RequestType DEF EndOK
<1>2. x.ver + 1 \in Nat \ {0}
  BY RowType
<1> QED  BY <1>1, <1>2 DEF Ended, Row

\* The day before a seam that lies after a contract's start is a day.
LEMMA DayBefore ==
    ASSUME NEW d \in Day, NEW e \in Day, d > e
    PROVE  d - 1 \in Until /\ d \in Nat
BY CalendarAssumption DEF Day, Until, Forever

\* Both rows of an accepted amendment are rows.
LEMMA AmendedType ==
    ASSUME NEW k \in Requests, NEW x \in Row, AmendOK(x, k)
    PROVE  Closed(x, k) \in Row /\ Successor(x, k) \in Row
<1>1. k.at \in Day /\ k.at - 1 \in Until
  BY RequestType, RowType, DayBefore DEF AmendOK, checkAmendSeam
<1>2. MergeDefaults(x.props, k.at) \in Props
  BY <1>1, RowType, MergeDefaultsType
<1>3. Opt(k.props, x.props) \in Props
  BY RequestType, RowType DEF Opt
<1>4. MergeDefaults(Opt(k.props, x.props), k.at) \in Props
  BY <1>1, <1>3, MergeDefaultsType
<1>5. Opt(k.to, x.to) \in Until /\ Opt(k.terms, x.terms) \in Terms
  BY RequestType, RowType DEF Opt
<1>6. Closed(x, k) \in Row
  <2>1. x.ver + 1 \in Nat \ {0} /\ x.props \in Props
    BY RowType
  <2> QED  BY <1>1, <1>2, <2>1 DEF Closed, Row
<1>7. Successor(x, k) \in Row
  BY <1>1, <1>4, <1>5 DEF Successor, Row
<1> QED  BY <1>6, <1>7

\* Both rows of an accepted boundary move are rows.
LEMMA MovedType ==
    ASSUME NEW k \in Requests, NEW x \in Row, NEW y \in Row, BoundaryOK(x, y, k)
    PROVE  MovedEarlier(x, k) \in Row /\ MovedLater(y, k) \in Row
<1>1. k.at \in Day /\ k.at - 1 \in Until
  BY RequestType, RowType, DayBefore DEF BoundaryOK, checkAdjacent
<1>2. x.ver + 1 \in Nat \ {0} /\ y.ver + 1 \in Nat \ {0}
  BY RowType
<1> QED  BY <1>1, <1>2 DEF MovedEarlier, MovedLater, Row

\* A row is none of the markers of an empty slot.
LEMMA RowsAreLive ==
    ASSUME NEW x \in Row
    PROVE  Live(x) /\ x # NoRow /\ x # Gone
BY SentinelAssumption DEF Live

---------------------------------------------------------------------------
(* The inductive invariant: the types, and what locks and versions protect. *)

IInv == TypeOK /\ LocksHold

\* What LocksHold says of one request.
ReqOK(r) ==
    /\ pc[r] \in Statements => Accepted(r) /\ Writes(r)
    /\ pc[r] # "done" => resp[r] = "none"
    /\ pc[r] \notin Statements => pend[r] = NoWrites /\ a[r] = NoRow /\ b[r] = NoRow
    /\ a[r] \in Row => Since(a[r], q[r].id)
    /\ b[r] \in Row => Since(b[r], q[r].later)

Exclusive == \A r, s \in Reqs : \A i \in Ids : pend[r][i] # NoRow /\ pend[s][i] # NoRow => r = s

Fresh == \A i \in Ids : i >= nextId => rows[i] = NoRow /\ \A r \in Reqs : pend[r][i] = NoRow

\* A step of request r leaves the other requests alone ...
Only(r) == \A s \in Reqs \ {r} :
    /\ pc'[s] = pc[s] /\ q'[s] = q[s] /\ a'[s] = a[s]
    /\ b'[s] = b[s] /\ pend'[s] = pend[s] /\ resp'[s] = resp[s]

\* ... changes no row that they have locked, and moves the rest only forward.
Keeps(r) ==
    /\ \A i \in Ids : \/ rows'[i] = rows[i]
                      \/ rows[i] = NoRow
                      \/ rows[i] \in Row /\ rows'[i] = Gone
                      \/ rows[i] \in Row /\ rows'[i] \in Row /\ rows'[i].ver > rows[i].ver
    /\ \A s \in Reqs \ {r} : \A i \in Ids : pend[s][i] # NoRow => rows'[i] = rows[i]
    /\ nextId' \in Nat /\ nextId' >= nextId

\* LocksHold, request by request, with the exclusion of writers and the unused
\* ids apart.
LEMMA LocksHoldParts == LocksHold <=> (\A r \in Reqs : ReqOK(r)) /\ Exclusive /\ Fresh
BY DEF LocksHold, ReqOK, Exclusive, Fresh

\* The rows of an accepted request have the type of rows.
LEMMA WrittenType ==
    ASSUME NEW r \in Reqs, Accepted(r)
    PROVE  /\ q[r] \in Requests /\ q[r].id \in Ids /\ q[r].later \in Ids
           /\ q[r].kind \notin {"create", "delete"} /\ pc[r] # "loadLater" => NewAddressed(r) \in Row
           /\ q[r].kind \in {"create", "amend"} => NewInserted(r) \in Row
           /\ q[r].kind = "boundary" /\ pc[r] # "loadLater" => MovedLater(b[r], q[r]) \in Row
<1>1. q[r] \in Requests /\ q[r].id \in Ids /\ q[r].later \in Ids
  BY RequestType DEF Accepted
<1>2. CASE q[r].kind = "create"
  BY <1>1, <1>2, CreatedType DEF NewInserted
<1>3. CASE q[r].kind = "correct"
  BY <1>1, <1>3, CorrectedType DEF NewAddressed, Accepted
<1>4. CASE q[r].kind = "end"
  BY <1>1, <1>4, EndedType DEF NewAddressed, Accepted
<1>5. CASE q[r].kind = "amend"
  BY <1>1, <1>5, AmendedType DEF NewAddressed, NewInserted, Accepted
<1>6. CASE q[r].kind = "boundary"
  BY <1>1, <1>6, MovedType DEF NewAddressed, Accepted
<1>7. CASE q[r].kind = "delete"
  BY <1>1, <1>7
<1> QED  BY <1>1, <1>2, <1>3, <1>4, <1>5, <1>6, <1>7 DEF Accepted

\* A request that a step leaves alone is still accepted for what it loaded, and
\* the rows it has written are still locked and unchanged.
LEMMA OthersOK ==
    ASSUME IInv, NEW r \in Reqs, Only(r), Keeps(r), NEW s \in Reqs \ {r}
    PROVE  ReqOK(s)'
<1>1. ReqOK(s)
  BY LocksHoldParts DEF IInv
<1>2. /\ pc'[s] = pc[s] /\ q'[s] = q[s] /\ a'[s] = a[s]
      /\ b'[s] = b[s] /\ pend'[s] = pend[s] /\ resp'[s] = resp[s]
  BY DEF Only
<1>3. pc'[s] \in Statements => Accepted(s)'
  BY <1>1, <1>2 DEF ReqOK, Accepted
<1>4. ASSUME pc'[s] \in Statements PROVE Writes(s)'
  <2>1. Accepted(s) /\ Writes(s)
    BY <1>1, <1>2, <1>4 DEF ReqOK
  <2>2. /\ UpdatesAddressed(s)' = UpdatesAddressed(s) /\ UpdatesLater(s)' = UpdatesLater(s)
        /\ Inserts(s)' = Inserts(s)
        /\ NewAddressed(s)' = NewAddressed(s) /\ NewInserted(s)' = NewInserted(s)
    BY <1>2 DEF UpdatesAddressed, UpdatesLater, Inserts, NewAddressed, NewInserted
  <2>3. \A i \in Ids : pend[s][i] # NoRow => rows'[i] = rows[i]
    BY DEF Keeps
  <2>4. \A x \in Row : x # NoRow
    BY RowsAreLive
  <2>5. UpdatesAddressed(s) => pend[s][q[s].id] # NoRow /\ rows'[q[s].id] = rows[q[s].id]
    BY <2>1, <2>3, <2>4, WrittenType DEF UpdatesAddressed, Writes
  <2>6. UpdatesLater(s) => pend[s][q[s].later] # NoRow /\ rows'[q[s].later] = rows[q[s].later]
    BY <2>1, <2>3, <2>4, WrittenType DEF UpdatesLater, Writes
  <2>7. ASSUME Inserts(s)
        PROVE  \E n \in Ids : /\ n < nextId' /\ rows'[n] = NoRow /\ pend[s][n] = NewInserted(s)
                              /\ \A i \in Ids \ {n} : pend[s][i] # NoRow => UpdatesAddressed(s) /\ i = q[s].id
    <3>1. PICK n \in Ids : /\ n < nextId /\ rows[n] = NoRow /\ pend[s][n] = NewInserted(s)
                          /\ \A i \in Ids \ {n} : pend[s][i] # NoRow => UpdatesAddressed(s) /\ i = q[s].id
      BY <2>1, <2>7 DEF Writes
    <3>2. pend[s][n] # NoRow
      BY <3>1, <2>1, <2>4, <2>7, WrittenType DEF Inserts
    <3>3. n < nextId'
      BY <3>1, CalendarAssumption DEF Keeps, IInv, TypeOK
    <3>4. rows'[n] = NoRow
      BY <3>1, <3>2, <2>3
    <3> QED  BY <3>1, <3>3, <3>4, Zenon
  <2>8. ASSUME NEW i \in Ids, pend[s][i] # NoRow
        PROVE  \/ UpdatesAddressed(s) /\ i = q[s].id
               \/ UpdatesLater(s) /\ i = q[s].later
               \/ Inserts(s) /\ rows'[i] = NoRow
    BY <2>1, <2>3, <2>8 DEF Writes
  <2>9. /\ UpdatesAddressed(s) => pend[s][q[s].id] = NewAddressed(s) /\ rows'[q[s].id] = a[s]
        /\ UpdatesLater(s) =>
             pend[s][q[s].later] = MovedLater(b[s], q[s]) /\ rows'[q[s].later] = b[s]
    BY <2>1, <2>5, <2>6 DEF Writes
  <2> QED  BY <1>2, <2>2, <2>7, <2>8, <2>9 DEF Writes
<1>5. pc'[s] \notin Statements => pend'[s] = NoWrites' /\ a'[s] = NoRow /\ b'[s] = NoRow
  BY <1>1, <1>2 DEF ReqOK, NoWrites
<1>6. /\ a'[s] \in Row => Since(a[s], q[s].id)'
      /\ b'[s] \in Row => Since(b[s], q[s].later)'
  <2>1. ASSUME a[s] \in Row \/ b[s] \in Row
        PROVE  q[s].id \in Ids /\ q[s].later \in Ids
    <3>1. pc[s] \in Statements
      BY <1>1, <2>1, RowsAreLive DEF ReqOK
    <3> QED  BY <1>1, <3>1, WrittenType DEF ReqOK
  <2>2. ASSUME NEW x \in Row, NEW i \in Ids, Since(x, i)
        PROVE  Since(x, i)'
    <3>1. \A y \in Row : y.ver \in Nat /\ y # NoRow /\ y # Gone
      BY RowType, RowsAreLive
    <3>2. Gone # NoRow /\ Gone \notin Row
      BY SentinelAssumption
    <3> QED  BY <2>2, <3>1, <3>2 DEF Since, Keeps
  <2>3. ASSUME a[s] \in Row PROVE Since(a[s], q[s].id)'
    <3>1. Since(a[s], q[s].id)
      BY <1>1, <2>3 DEF ReqOK
    <3>2. q[s].id \in Ids
      BY <2>1, <2>3
    <3> QED  BY <1>2, <2>2, <2>3, <3>1, <3>2 DEF Since
  <2>4. ASSUME b[s] \in Row PROVE Since(b[s], q[s].later)'
    <3>1. Since(b[s], q[s].later)
      BY <1>1, <2>4 DEF ReqOK
    <3>2. q[s].later \in Ids
      BY <2>1, <2>4
    <3> QED  BY <1>2, <2>2, <2>4, <3>1, <3>2 DEF Since
  <2> QED  BY <1>2, <2>3, <2>4
<1> QED  BY <1>1, <1>2, <1>3, <1>4, <1>5, <1>6 DEF ReqOK

\* A step of one request keeps the invariant if it keeps that request's part,
\* takes no row another transaction has written and uses no id still unused.
LEMMA StepOK ==
    ASSUME IInv, NEW r \in Reqs, Only(r), Keeps(r), TypeOK', ReqOK(r)',
           \A i \in Ids : pend'[r][i] # NoRow => \A s \in Reqs \ {r} : pend[s][i] = NoRow,
           \A i \in Ids : i >= nextId' => rows'[i] = NoRow /\ pend'[r][i] = NoRow
    PROVE  IInv'
<1>1. \A s \in Reqs : ReqOK(s)'
  BY OthersOK
<1>2. Exclusive'
  BY LocksHoldParts DEF IInv, Exclusive, Only
<1>3. Fresh'
  <2>1. \A i \in Ids : i >= nextId' => i >= nextId
    BY CalendarAssumption DEF Keeps, IInv, TypeOK
  <2>2. \A i \in Ids : i >= nextId => \A s \in Reqs : pend[s][i] = NoRow
    BY LocksHoldParts DEF IInv, Fresh
  <2> QED  BY <2>1, <2>2 DEF Fresh, Only
<1> QED  BY <1>1, <1>2, <1>3 DEF IInv, LocksHold, ReqOK, Exclusive, Fresh

\* Answering a request drops all it held.
LEMMA AnswerOK ==
    ASSUME IInv, NEW r \in Reqs, NEW code \in Answers, Answer(r, code), Keeps(r),
           rows' \in [Ids -> Slot], nextId' \in 1..(MaxId + 1),
           \A i \in Ids : i >= nextId' => rows'[i] = NoRow
    PROVE  IInv'
<1>1. NoWrites \in [Ids -> Row \cup {NoRow}] /\ \A i \in Ids : NoWrites[i] = NoRow
  BY DEF NoWrites
<1>2. NoRow \in Slot
  BY DEF Slot
<1>3. TypeOK'
  BY <1>1, <1>2 DEF IInv, TypeOK, Answer
<1>4. /\ pc'[r] = "done" /\ pend'[r] = NoWrites /\ a'[r] = NoRow /\ b'[r] = NoRow
  BY DEF IInv, TypeOK, Answer
<1>5. Only(r)
  BY DEF IInv, TypeOK, Answer, Only
<1>6. ReqOK(r)'
  <2>1. "done" \notin Statements /\ NoRow \notin Row
    BY SentinelAssumption DEF Statements
  <2>2. NoWrites' = NoWrites
    BY DEF NoWrites
  <2> QED  BY <1>4, <2>1, <2>2 DEF ReqOK
<1> QED  BY <1>1, <1>3, <1>4, <1>5, <1>6, StepOK

\* A step that leaves the committed rows and the sequence alone keeps them.
LEMMA KeepsUnchanged ==
    ASSUME IInv, NEW r \in Reqs, UNCHANGED <<rows, nextId>>
    PROVE  /\ Keeps(r) /\ rows' \in [Ids -> Slot] /\ nextId' \in 1..(MaxId + 1)
           /\ \A i \in Ids : i >= nextId' => rows'[i] = NoRow
BY CalendarAssumption DEF Keeps, IInv, TypeOK, LocksHold

---------------------------------------------------------------------------
(* Every step keeps the invariant. *)

\* A request that passes its validation starts at statement s with the row x.
LEMMA BeginOK ==
    ASSUME IInv, NEW r \in Reqs, NEW k \in Requests, NEW x \in Slot, NEW s \in Statements,
           pc[r] = "idle", Begin(r, k, x, s), UNCHANGED <<rows, nextId>>, x \in Row => x = rows[k.id],
           Accepted(r)', s \in {"loadLater", "check", "update", "delete"},
           s = "check" => k.kind \notin {"amend", "boundary"}
    PROVE  IInv'
<1>1. /\ pc'[r] = s /\ q'[r] = k /\ a'[r] = x /\ UNCHANGED <<b, pend, resp>>
  BY DEF Begin, IInv, TypeOK
<1>2. pend[r] = NoWrites /\ b[r] = NoRow /\ resp[r] = "none"
  BY DEF IInv, LocksHold, Statements
<1>3. TypeOK'
  BY RequestAssumption DEF Begin, IInv, TypeOK
<1>4. Only(r)
  BY DEF Begin, IInv, TypeOK, Only
<1>5. Writes(r)'
  <2>1. \A i \in Ids : pend'[r][i] = NoRow
    BY <1>1, <1>2 DEF NoWrites
  <2>2. ~UpdatesAddressed(r)' /\ ~UpdatesLater(r)' /\ ~Inserts(r)'
    BY <1>1 DEF UpdatesAddressed, UpdatesLater, Inserts
  <2> QED  BY <2>1, <2>2 DEF Writes
<1>6. ReqOK(r)'
  <2>1. NoRow \notin Row
    BY SentinelAssumption
  <2> QED  BY <1>1, <1>2, <1>5, <2>1 DEF ReqOK, Since
<1>7. \A i \in Ids : pend'[r][i] = NoRow
  BY <1>1, <1>2 DEF NoWrites
<1> QED  BY <1>3, <1>4, <1>6, <1>7, StepOK, KeepsUnchanged

\* The load of the addressed contract, whatever the intent.
LEMMA LoadOK ==
    ASSUME IInv, NEW r \in Reqs, NEW k \in Requests, NEW ok \in BOOLEAN, NEW s \in Statements,
           LoadThen(r, k, ok, s), s \in {"check", "update", "delete"},
           s = "check" => k.kind \notin {"amend", "boundary"},
           ok /\ rows[k.id] \in Row /\ checkVersion(k.exp, rows[k.id].ver)
              /\ Begin(r, k, rows[k.id], s) => Accepted(r)'
    PROVE  IInv'
<1>1. pc[r] = "idle" /\ UNCHANGED <<rows, nextId>>
  BY DEF LoadThen
<1>2. k.id \in Ids /\ rows[k.id] \in Slot
  BY RequestType DEF IInv, TypeOK
<1>3. CASE ~Live(rows[k.id])
  BY <1>1, <1>3, AnswerOK, KeepsUnchanged DEF LoadThen, Answers
<1>4. CASE Live(rows[k.id]) /\ ~checkVersion(k.exp, rows[k.id].ver)
  BY <1>1, <1>4, AnswerOK, KeepsUnchanged DEF LoadThen, Answers
<1>5. CASE Live(rows[k.id]) /\ checkVersion(k.exp, rows[k.id].ver) /\ ~ok
  BY <1>1, <1>5, AnswerOK, KeepsUnchanged DEF LoadThen, Answers
<1>6. CASE Live(rows[k.id]) /\ checkVersion(k.exp, rows[k.id].ver) /\ ok
  <2>1. Begin(r, k, rows[k.id], s)
    BY <1>6 DEF LoadThen
  <2>2. rows[k.id] \in Row
    BY <1>2, <1>6 DEF Slot, Live
  <2> QED  BY <1>1, <1>2, <1>6, <2>1, <2>2, BeginOK
<1> QED  BY <1>3, <1>4, <1>5, <1>6

\* Taking in a request and validating it, whatever its intent, keeps the invariant.
LEMMA SendOK == ASSUME IInv, NEW r \in Reqs, Send(r) PROVE IInv'
<1> PICK k \in Requests :
        \/ CreateContract(r, k) \/ CorrectContract(r, k) \/ EndContract(r, k)
        \/ AmendContract(r, k) \/ MoveContractBoundary(r, k) \/ DeleteContract(r, k)
  BY DEF Send
<1>0. ASSUME NEW x, NEW s, Begin(r, k, x, s)
      PROVE  q'[r] = k /\ pc'[r] = s /\ a'[r] = x
  BY <1>0 DEF Begin, IInv, TypeOK
<1>1. CASE CreateContract(r, k)
  <2>1. CASE CreateOK(k)
    <3>1. Begin(r, k, NoRow, "check") /\ UNCHANGED <<rows, nextId>> /\ pc[r] = "idle"
      BY <1>1, <2>1 DEF CreateContract
    <3>2. Accepted(r)'
      BY <1>0, <1>1, <2>1, <3>1 DEF Accepted, CreateContract
    <3>3. NoRow \in Slot /\ NoRow \notin Row /\ "check" \in Statements /\ k.kind = "create"
      BY <1>1, SentinelAssumption DEF Slot, Statements, CreateContract
    <3> QED  BY <3>1, <3>2, <3>3, BeginOK
  <2>2. CASE ~CreateOK(k)
    BY <1>1, <2>2, AnswerOK, KeepsUnchanged DEF CreateContract, Answers
  <2> QED  BY <2>1, <2>2
<1>2. CASE CorrectContract(r, k)
  <2>1. /\ LoadThen(r, k, CorrectOK(rows[k.id], k), "check")
        /\ k.kind = "correct" /\ "check" \in Statements /\ CorrectOK(rows[k.id], k) \in BOOLEAN
    BY <1>2 DEF CorrectContract, Statements, CorrectOK
  <2>2. rows[k.id] \in Row /\ checkVersion(k.exp, rows[k.id].ver) /\ CorrectOK(rows[k.id], k)
        /\ Begin(r, k, rows[k.id], "check") => Accepted(r)'
    BY <1>0, <2>1 DEF Accepted
  <2> QED  BY <2>1, <2>2, LoadOK
<1>3. CASE EndContract(r, k)
  <2>1. /\ LoadThen(r, k, EndOK(rows[k.id], k), "check")
        /\ k.kind = "end" /\ "check" \in Statements /\ EndOK(rows[k.id], k) \in BOOLEAN
    BY <1>3 DEF EndContract, Statements, EndOK
  <2>2. rows[k.id] \in Row /\ checkVersion(k.exp, rows[k.id].ver) /\ EndOK(rows[k.id], k)
        /\ Begin(r, k, rows[k.id], "check") => Accepted(r)'
    BY <1>0, <2>1 DEF Accepted
  <2> QED  BY <2>1, <2>2, LoadOK
<1>4. CASE AmendContract(r, k)
  <2>1. /\ LoadThen(r, k, AmendOK(rows[k.id], k), "update")
        /\ k.kind = "amend" /\ "update" \in Statements /\ AmendOK(rows[k.id], k) \in BOOLEAN
    BY <1>4 DEF AmendContract, Statements, AmendOK
  <2>2. rows[k.id] \in Row /\ checkVersion(k.exp, rows[k.id].ver) /\ AmendOK(rows[k.id], k)
        /\ Begin(r, k, rows[k.id], "update") => Accepted(r)'
    BY <1>0, <2>1 DEF Accepted
  <2> QED  BY <2>1, <2>2, LoadOK
<1>5. CASE DeleteContract(r, k)
  <2>1. /\ LoadThen(r, k, TRUE, "delete")
        /\ k.kind = "delete" /\ "delete" \in Statements
    BY <1>5 DEF DeleteContract, Statements
  <2>2. rows[k.id] \in Row /\ Begin(r, k, rows[k.id], "delete") => Accepted(r)'
    BY <1>0, <2>1 DEF Accepted
  <2> QED  BY <2>1, <2>2, LoadOK
<1>6. CASE MoveContractBoundary(r, k)
  <2>1. pc[r] = "idle" /\ k.kind = "boundary" /\ UNCHANGED <<rows, nextId>>
    BY <1>6 DEF MoveContractBoundary
  <2>2. CASE k.id = k.later
    BY <1>6, <2>1, <2>2, AnswerOK, KeepsUnchanged DEF MoveContractBoundary, Answers
  <2>3. CASE k.id # k.later /\ ~Live(rows[k.id])
    BY <1>6, <2>1, <2>3, AnswerOK, KeepsUnchanged DEF MoveContractBoundary, Answers
  <2>4. CASE k.id # k.later /\ Live(rows[k.id])
    <3>1. Begin(r, k, rows[k.id], "loadLater")
      BY <1>6, <2>4 DEF MoveContractBoundary
    <3>2. rows[k.id] \in Row
      BY <2>4, RequestType DEF Slot, Live, IInv, TypeOK
    <3>3. Accepted(r)'
      BY <1>0, <2>1, <2>4, <3>1, <3>2 DEF Accepted
    <3>4. rows[k.id] \in Slot /\ "loadLater" \in Statements
      BY <3>2 DEF Slot, Statements
    <3> QED  BY <2>1, <3>1, <3>2, <3>3, <3>4, BeginOK
  <2> QED  BY <2>2, <2>3, <2>4
<1> QED  BY <1>1, <1>2, <1>3, <1>4, <1>5, <1>6

\* The locals of a request that is being served.
LEMMA ServedRequest ==
    ASSUME IInv, NEW r \in Reqs, pc[r] \in Statements
    PROVE  /\ Accepted(r) /\ Writes(r) /\ resp[r] = "none"
           /\ a[r] \in Row => Since(a[r], q[r].id)
           /\ b[r] \in Row => Since(b[r], q[r].later)
           /\ pend[r] \in [Ids -> Row \cup {NoRow}]
BY DEF IInv, TypeOK, LocksHold, Statements

\* The second load of a boundary move keeps the invariant.
LEMMA LoadLaterOK == ASSUME IInv, NEW r \in Reqs, LoadLater(r) PROVE IInv'
<1> DEFINE k == q[r]
           y == rows[q[r].later]
<1>1. pc[r] = "loadLater" /\ UNCHANGED <<rows, nextId>>
  BY DEF LoadLater
<1>2. /\ Accepted(r) /\ Writes(r) /\ resp[r] = "none" /\ Since(a[r], k.id)
      /\ k \in Requests /\ k.kind = "boundary" /\ a[r] \in Row /\ k.id # k.later /\ k.later \in Ids
  BY <1>1, ServedRequest, WrittenType DEF Statements, Accepted
<1>3. y \in Slot
  BY <1>2 DEF IInv, TypeOK
<1>4. CASE \E code \in Answers : Answer(r, code)
  BY <1>1, <1>4, AnswerOK, KeepsUnchanged
<1>5. CASE /\ Live(y) /\ k.exp = a[r].ver /\ k.laterExp = y.ver /\ BoundaryOK(a[r], y, k)
           /\ pc' = [pc EXCEPT ![r] = "update"] /\ b' = [b EXCEPT ![r] = y]
           /\ UNCHANGED <<q, a, pend, resp>>
  <2>1. y \in Row
    BY <1>3, <1>5 DEF Live, Slot
  <2>2. pc'[r] = "update" /\ b'[r] = y
    BY <1>5 DEF IInv, TypeOK
  <2>3. TypeOK'
    BY <1>1, <1>3, <1>5 DEF IInv, TypeOK, Statements
  <2>4. Only(r)
    BY <1>5 DEF IInv, TypeOK, Only
  <2>5. Accepted(r)'
    BY <1>2, <1>5, <2>1, <2>2 DEF Accepted
  <2>6. \A i \in Ids : pend[r][i] = NoRow
    BY <1>1, <1>2 DEF Writes, UpdatesAddressed, UpdatesLater, Inserts
  <2>7. Writes(r)'
    BY <1>2, <1>5, <2>2, <2>6 DEF Writes, UpdatesAddressed, UpdatesLater, Inserts
  <2>8. ReqOK(r)'
    <3>1. a'[r] = a[r] /\ q'[r] = k /\ rows' = rows /\ b'[r] = rows[k.later] /\ resp'[r] = "none"
      BY <1>1, <1>2, <1>5, <2>2
    <3>2. Since(a[r], k.id)' /\ Since(b[r], k.later)'
      BY <1>2, <3>1 DEF Since
    <3> QED  BY <2>2, <2>5, <2>7, <3>1, <3>2 DEF ReqOK, Statements
  <2> QED  BY <1>1, <1>5, <2>3, <2>4, <2>6, <2>8, StepOK, KeepsUnchanged
<1> QED  BY <1>4, <1>5 DEF LoadLater, Answers

\* The order of the statements, as a table.
LEMMA AfterValues ==
    /\ After["create"]["check"] = "insert" /\ After["create"]["insert"] = "commit"
    /\ After["correct"]["check"] = "update" /\ After["correct"]["update"] = "commit"
    /\ After["end"]["check"] = "update" /\ After["end"]["update"] = "commit"
    /\ After["amend"]["update"] = "check" /\ After["amend"]["check"] = "insert"
    /\ After["amend"]["insert"] = "commit"
    /\ After["boundary"]["update"] = "updateLater" /\ After["boundary"]["updateLater"] = "check"
    /\ After["boundary"]["check"] = "checkLater" /\ After["boundary"]["checkLater"] = "commit"
BY DEF After

\* A transaction whose statement succeeded is at the next one of its intent.
LEMMA AfterStatement ==
    ASSUME IInv, NEW r \in Reqs, Advance(r),
           pc[r] \in {"check", "checkLater", "update", "updateLater", "insert"}
    PROVE  /\ \/ /\ q[r].kind \in {"correct", "end"}
                 /\ <<pc[r], pc'[r]>> \in {<<"check", "update">>, <<"update", "commit">>}
              \/ /\ q[r].kind = "create"
                 /\ <<pc[r], pc'[r]>> \in {<<"check", "insert">>, <<"insert", "commit">>}
              \/ /\ q[r].kind = "amend"
                 /\ <<pc[r], pc'[r]>> \in
                      {<<"update", "check">>, <<"check", "insert">>, <<"insert", "commit">>}
              \/ /\ q[r].kind = "boundary"
                 /\ <<pc[r], pc'[r]>> \in
                      {<<"update", "updateLater">>, <<"updateLater", "check">>,
                       <<"check", "checkLater">>, <<"checkLater", "commit">>}
           /\ pc' = [pc EXCEPT ![r] = pc'[r]] /\ pc'[r] \in Statements
           /\ UNCHANGED <<q, a, b, resp>>
           /\ Accepted(r)'
<1>1. Accepted(r) /\ pc' = [pc EXCEPT ![r] = After[q[r].kind][pc[r]]] /\ UNCHANGED <<q, a, b, resp>>
  BY ServedRequest DEF Advance, Statements
<1>2. pc'[r] = After[q[r].kind][pc[r]]
  BY <1>1 DEF IInv, TypeOK
<1>3. \/ /\ q[r].kind \in {"correct", "end"}
         /\ <<pc[r], pc'[r]>> \in {<<"check", "update">>, <<"update", "commit">>}
      \/ /\ q[r].kind = "create"
         /\ <<pc[r], pc'[r]>> \in {<<"check", "insert">>, <<"insert", "commit">>}
      \/ /\ q[r].kind = "amend"
         /\ <<pc[r], pc'[r]>> \in
              {<<"update", "check">>, <<"check", "insert">>, <<"insert", "commit">>}
      \/ /\ q[r].kind = "boundary"
         /\ <<pc[r], pc'[r]>> \in
              {<<"update", "updateLater">>, <<"updateLater", "check">>,
               <<"check", "checkLater">>, <<"checkLater", "commit">>}
  BY <1>1, <1>2, AfterValues DEF Accepted
<1>4. pc'[r] \in Statements /\ pc' = [pc EXCEPT ![r] = pc'[r]]
  BY <1>1, <1>2, <1>3 DEF Statements
<1>5. Accepted(r)'
  BY <1>1, <1>3 DEF Accepted
<1> QED  BY <1>1, <1>3, <1>4, <1>5

\* A statement that succeeds keeps the invariant if what the transaction has now
\* written is in order, and no one else has written it.
LEMMA AdvanceOK ==
    ASSUME IInv, NEW r \in Reqs, Advance(r),
           pc[r] \in {"check", "checkLater", "update", "updateLater", "insert"},
           NEW w \in [Ids -> Row \cup {NoRow}], pend' = [pend EXCEPT ![r] = w],
           rows' = rows, nextId' \in 1..(MaxId + 1), nextId' >= nextId,
           Writes(r)',
           \A i \in Ids : w[i] # NoRow => \A s \in Reqs \ {r} : pend[s][i] = NoRow,
           \A i \in Ids : i >= nextId' => w[i] = NoRow
    PROVE  IInv'
<1>1. /\ pc' = [pc EXCEPT ![r] = pc'[r]] /\ pc'[r] \in Statements
      /\ UNCHANGED <<q, a, b, resp>> /\ Accepted(r)'
  BY AfterStatement
<1>2. TypeOK'
  BY <1>1 DEF IInv, TypeOK
<1>3. Only(r)
  BY <1>1 DEF IInv, TypeOK, Only
<1>4. Keeps(r) /\ \A i \in Ids : i >= nextId' => rows'[i] = NoRow
  BY CalendarAssumption DEF Keeps, IInv, TypeOK, LocksHold
<1>5. pend'[r] = w
  BY DEF IInv, TypeOK
<1>6. ReqOK(r)'
  <2>1. /\ resp[r] = "none"
        /\ a[r] \in Row => Since(a[r], q[r].id)
        /\ b[r] \in Row => Since(b[r], q[r].later)
    BY ServedRequest DEF Statements
  <2> QED  BY <1>1, <2>1 DEF ReqOK, Since
<1> QED  BY <1>2, <1>3, <1>4, <1>5, <1>6, StepOK

\* No other transaction has written what this one has.
LEMMA OwnWrites ==
    ASSUME IInv, NEW r \in Reqs, NEW i \in Ids
    PROVE  /\ pend[r][i] # NoRow => \A s \in Reqs \ {r} : pend[s][i] = NoRow
           /\ i >= nextId => pend[r][i] = NoRow
BY DEF IInv, LocksHold

\* The check reads; it changes no row.
LEMMA CheckedOK ==
    ASSUME IInv, NEW r \in Reqs, pc[r] \in {"check", "checkLater"}, Advance(r),
           UNCHANGED <<rows, nextId, pend>>
    PROVE  IInv'
<1>1. Accepted(r) /\ Writes(r) /\ pend[r] \in [Ids -> Row \cup {NoRow}]
  BY ServedRequest DEF Statements
<1>2. pend' = [pend EXCEPT ![r] = pend[r]] /\ pend'[r] = pend[r]
  BY DEF IInv, TypeOK
<1>3. Writes(r)'
  <2>1. /\ UpdatesAddressed(r)' = UpdatesAddressed(r) /\ UpdatesLater(r)' = UpdatesLater(r)
        /\ ~Inserts(r)' /\ ~Inserts(r)
    BY AfterStatement DEF UpdatesAddressed, UpdatesLater, Inserts
  <2>2. NewAddressed(r)' = NewAddressed(r) /\ UNCHANGED <<q, a, b>>
    BY AfterStatement DEF NewAddressed
  <2> QED  BY <1>1, <1>2, <2>1, <2>2 DEF Writes
<1>4. nextId' \in 1..(MaxId + 1) /\ nextId' >= nextId
  BY CalendarAssumption DEF IInv, TypeOK
<1> QED  BY <1>1, <1>2, <1>3, <1>4, AdvanceOK, OwnWrites

\* ValidateNoOverlap, for either contract of a boundary move, keeps the invariant.
LEMMA CheckOK == ASSUME IInv, NEW r \in Reqs, Check(r) \/ CheckLater(r) PROVE IInv'
<1>1. pc[r] \in {"check", "checkLater"} /\ UNCHANGED <<rows, nextId>>
  BY DEF Check, CheckLater, ValidateNoOverlap
<1>2. CASE Answer(r, "overlap")
  BY <1>1, <1>2, AnswerOK, KeepsUnchanged DEF Answers
<1>3. CASE Advance(r) /\ UNCHANGED pend
  BY <1>1, <1>3, CheckedOK
<1> QED  BY <1>2, <1>3 DEF Check, CheckLater, ValidateNoOverlap

\* The guarded UPDATE: on success the row is still the loaded one.
LEMMA GuardedUpdate ==
    ASSUME IInv, NEW r \in Reqs, NEW i \in Ids, NEW x \in Row, NEW loaded \in Row,
           Since(loaded, i), UpdateRow(r, i, loaded, x), ~Answer(r, "versionConflict")
    PROVE  /\ Advance(r) /\ UNCHANGED <<rows, nextId>>
           /\ rows[i] = loaded
           /\ pend' = [pend EXCEPT ![r] = [pend[r] EXCEPT ![i] = x]]
           /\ \A s \in Reqs \ {r} : pend[s][i] = NoRow
           /\ i < nextId
<1>1. /\ Advance(r) /\ UNCHANGED <<rows, nextId>> /\ Live(rows[i]) /\ rows[i].ver = loaded.ver
      /\ pend' = [pend EXCEPT ![r][i] = x] /\ Unlocked(r, i)
  BY DEF UpdateRow
<1>2. rows[i] = loaded
  BY <1>1, RowType DEF Since, Live
<1>3. i < nextId
  BY <1>1, CalendarAssumption DEF IInv, TypeOK, LocksHold, Live
<1>4. pend' = [pend EXCEPT ![r] = [pend[r] EXCEPT ![i] = x]]
  BY <1>1
<1> QED  BY <1>1, <1>2, <1>3, <1>4 DEF Unlocked

\* The guarded UPDATE of the addressed contract keeps the invariant.
LEMMA UpdateContractOK == ASSUME IInv, NEW r \in Reqs, UpdateContract(r) PROVE IInv'
<1> DEFINE i == q[r].id
           w == [pend[r] EXCEPT ![i] = NewAddressed(r)]
<1>1. pc[r] = "update" /\ UpdateRow(r, i, a[r], NewAddressed(r))
  BY DEF UpdateContract
<1>2. /\ Accepted(r) /\ Writes(r) /\ pend[r] \in [Ids -> Row \cup {NoRow}]
      /\ a[r] \in Row /\ Since(a[r], i)
  BY <1>1, ServedRequest DEF Statements, Accepted
<1>3. i \in Ids /\ NewAddressed(r) \in Row
  BY <1>1, <1>2, WrittenType DEF Accepted
<1>4. CASE Answer(r, "versionConflict")
  BY <1>1, <1>4, AnswerOK, KeepsUnchanged DEF Answers, UpdateRow
<1>5. CASE ~Answer(r, "versionConflict")
  <2>1. /\ Advance(r) /\ UNCHANGED <<rows, nextId>> /\ rows[i] = a[r]
        /\ pend' = [pend EXCEPT ![r] = w]
        /\ \A s \in Reqs \ {r} : pend[s][i] = NoRow
        /\ i < nextId
    BY <1>1, <1>2, <1>3, <1>5, GuardedUpdate
  <2>2. w \in [Ids -> Row \cup {NoRow}] /\ w[i] = NewAddressed(r) /\ pend'[r] = w
    BY <1>2, <1>3, <2>1 DEF IInv, TypeOK
  <2>3. \A j \in Ids \ {i} : w[j] = NoRow
    BY <1>1, <1>2 DEF Writes, UpdatesAddressed, UpdatesLater, Inserts
  <2>4. UpdatesAddressed(r)' /\ ~UpdatesLater(r)' /\ ~Inserts(r)'
    BY <1>1, <1>2, <2>1, AfterStatement DEF UpdatesAddressed, UpdatesLater, Inserts
  <2>5. NewAddressed(r)' = NewAddressed(r) /\ UNCHANGED <<q, a, b>>
    BY <1>1, <2>1, AfterStatement DEF NewAddressed
  <2>6. Writes(r)'
    BY <2>1, <2>2, <2>3, <2>4, <2>5 DEF Writes
  <2>7. \A j \in Ids : w[j] # NoRow => j = i
    BY <2>3
  <2>8. nextId' \in 1..(MaxId + 1) /\ nextId' >= nextId /\ \A j \in Ids : j >= nextId' => w[j] = NoRow
    BY <2>1, <2>7, CalendarAssumption DEF IInv, TypeOK
  <2>9. \A j \in Ids : w[j] # NoRow => \A s \in Reqs \ {r} : pend[s][j] = NoRow
    BY <2>1, <2>7
  <2> HIDE DEF w, i
  <2> QED  BY <1>1, <2>1, <2>2, <2>6, <2>8, <2>9, AdvanceOK
<1> QED  BY <1>4, <1>5

\* The guarded UPDATE of a boundary move's later contract keeps the invariant.
LEMMA UpdateLaterOK == ASSUME IInv, NEW r \in Reqs, UpdateLater(r) PROVE IInv'
<1> DEFINE i == q[r].later
           x == MovedLater(b[r], q[r])
           w == [pend[r] EXCEPT ![i] = x]
<1>1. pc[r] = "updateLater" /\ UpdateRow(r, i, b[r], x)
  BY DEF UpdateLater
<1>2. /\ Accepted(r) /\ Writes(r) /\ pend[r] \in [Ids -> Row \cup {NoRow}]
      /\ b[r] \in Row /\ Since(b[r], i) /\ q[r].kind = "boundary" /\ q[r].id # i
  BY <1>1, ServedRequest DEF Statements, Accepted
<1>3. i \in Ids /\ x \in Row /\ q[r].id \in Ids
  BY <1>1, <1>2, WrittenType
<1>4. CASE Answer(r, "versionConflict")
  BY <1>1, <1>4, AnswerOK, KeepsUnchanged DEF Answers, UpdateRow
<1>5. CASE ~Answer(r, "versionConflict")
  <2>1. /\ Advance(r) /\ UNCHANGED <<rows, nextId>> /\ rows[i] = b[r]
        /\ pend' = [pend EXCEPT ![r] = w]
        /\ \A s \in Reqs \ {r} : pend[s][i] = NoRow
        /\ i < nextId
    BY <1>1, <1>2, <1>3, <1>5, GuardedUpdate
  <2>2. /\ w \in [Ids -> Row \cup {NoRow}] /\ w[i] = x /\ pend'[r] = w
        /\ \A j \in Ids \ {i} : w[j] = pend[r][j]
    BY <1>2, <1>3, <2>1 DEF IInv, TypeOK
  <2>3. UpdatesAddressed(r) /\ ~UpdatesLater(r) /\ ~Inserts(r)
    BY <1>1, <1>2 DEF UpdatesAddressed, UpdatesLater, Inserts
  <2>4. UpdatesAddressed(r)' /\ UpdatesLater(r)' /\ ~Inserts(r)'
    BY <1>1, <1>2, <2>1, AfterStatement DEF UpdatesAddressed, UpdatesLater, Inserts
  <2>5. NewAddressed(r)' = NewAddressed(r) /\ UNCHANGED <<q, a, b>>
    BY <1>1, <2>1, AfterStatement DEF NewAddressed
  <2>6. Writes(r)'
    BY <1>2, <1>3, <2>1, <2>2, <2>3, <2>4, <2>5 DEF Writes
  <2>7. \A j \in Ids : w[j] # NoRow => \A s \in Reqs \ {r} : pend[s][j] = NoRow
    BY <2>1, <2>2, OwnWrites
  <2>8. nextId' \in 1..(MaxId + 1) /\ nextId' >= nextId /\ \A j \in Ids : j >= nextId' => w[j] = NoRow
    BY <1>3, <2>1, <2>2, OwnWrites, CalendarAssumption DEF IInv, TypeOK
  <2> QED  BY <1>1, <2>1, <2>2, <2>6, <2>7, <2>8, AdvanceOK
<1> QED  BY <1>4, <1>5

\* The INSERT of a new contract or successor keeps the invariant.
LEMMA InsertContractOK == ASSUME IInv, NEW r \in Reqs, InsertContract(r) PROVE IInv'
<1> DEFINE w == [pend[r] EXCEPT ![nextId] = NewInserted(r)]
<1>1. /\ pc[r] = "insert" /\ nextId <= MaxId /\ nextId' = nextId + 1 /\ Advance(r) /\ rows' = rows
      /\ pend' = [pend EXCEPT ![r] = w]
  BY DEF InsertContract
<1>2. /\ Accepted(r) /\ Writes(r) /\ pend[r] \in [Ids -> Row \cup {NoRow}]
      /\ q[r].kind \in {"create", "amend"}
  BY <1>1, ServedRequest DEF Statements, Accepted
<1>3. NewInserted(r) \in Row /\ NewInserted(r) # NoRow
  BY <1>2, WrittenType, RowsAreLive
<1>4. nextId \in Ids /\ nextId' \in 1..(MaxId + 1) /\ nextId' >= nextId /\ nextId < nextId'
  BY <1>1, CalendarAssumption DEF IInv, TypeOK
<1>5. rows[nextId] = NoRow /\ \A s \in Reqs : pend[s][nextId] = NoRow
  BY <1>4, CalendarAssumption DEF IInv, LocksHold
<1>6. /\ w \in [Ids -> Row \cup {NoRow}] /\ w[nextId] = NewInserted(r) /\ pend'[r] = w
      /\ \A j \in Ids \ {nextId} : w[j] = pend[r][j]
  BY <1>1, <1>2, <1>3, <1>4 DEF IInv, TypeOK
<1>7. /\ UpdatesAddressed(r)' = UpdatesAddressed(r)
      /\ ~UpdatesLater(r) /\ ~UpdatesLater(r)' /\ ~Inserts(r) /\ Inserts(r)'
  BY <1>1, <1>2, AfterStatement DEF UpdatesAddressed, UpdatesLater, Inserts
<1>8. /\ NewAddressed(r)' = NewAddressed(r) /\ NewInserted(r)' = NewInserted(r)
      /\ UNCHANGED <<q, a, b>>
  BY <1>1, AfterStatement DEF NewAddressed, NewInserted
<1>9. Writes(r)'
  <2>1. \A j \in Ids \ {nextId} : w[j] # NoRow => UpdatesAddressed(r) /\ j = q[r].id
    BY <1>2, <1>6, <1>7 DEF Writes
  <2>2. UpdatesAddressed(r) => w[q[r].id] = NewAddressed(r) /\ rows[q[r].id] = a[r]
    <3>1. ASSUME UpdatesAddressed(r) PROVE q[r].id \in Ids /\ q[r].id # nextId
      <4>1. q[r].id \in Ids /\ a[r] \in Row
        BY <1>2, <3>1, WrittenType DEF UpdatesAddressed, Accepted
      <4>2. rows[q[r].id] = a[r] /\ a[r] # NoRow
        BY <1>2, <3>1, <4>1, RowsAreLive DEF Writes
      <4> QED  BY <1>5, <4>1, <4>2
    <3> QED  BY <1>2, <1>6, <3>1 DEF Writes
  <2>3. \E n \in Ids : /\ n < nextId' /\ rows[n] = NoRow /\ w[n] = NewInserted(r)
                       /\ \A i \in Ids \ {n} : w[i] # NoRow => UpdatesAddressed(r)' /\ i = q[r].id
    BY <1>4, <1>5, <1>6, <1>7, <2>1
  <2>4. \A j \in Ids : w[j] # NoRow =>
          \/ UpdatesAddressed(r)' /\ j = q[r].id
          \/ Inserts(r)' /\ rows'[j] = NoRow
    BY <1>1, <1>5, <1>7, <2>1
  <2> HIDE DEF w
  <2> QED  BY <1>1, <1>6, <1>7, <1>8, <2>2, <2>3, <2>4 DEF Writes
<1>10. \A j \in Ids : w[j] # NoRow => \A s \in Reqs \ {r} : pend[s][j] = NoRow
  BY <1>5, <1>6, OwnWrites
<1>11. \A j \in Ids : j >= nextId' => w[j] = NoRow
  BY <1>1, <1>4, <1>6, OwnWrites, CalendarAssumption DEF IInv, TypeOK
<1> QED  BY <1>1, <1>4, <1>6, <1>9, <1>10, <1>11, AdvanceOK

\* Committing publishes the pending rows, each in the place of the row it was
\* computed from or under an id that was never used.
LEMMA CommitOK == ASSUME IInv, NEW r \in Reqs, Commit(r) PROVE IInv'
<1>1. pc[r] = "commit" /\ nextId' = nextId
  BY DEF Commit
<1>2. Accepted(r) /\ Writes(r) /\ pend[r] \in [Ids -> Row \cup {NoRow}]
  BY <1>1, ServedRequest DEF Statements
<1>3. CASE Answer(r, "overlap") /\ UNCHANGED rows
  BY <1>1, <1>3, AnswerOK, KeepsUnchanged DEF Answers
<1>4. CASE Answer(r, "ok") /\ rows' = View(r)
  <2>1. \A i \in Ids : \/ pend[r][i] = NoRow /\ rows'[i] = rows[i]
                       \/ pend[r][i] \in Row /\ rows'[i] = pend[r][i]
    BY <1>2, <1>4, RowsAreLive DEF View, Live
  <2>2. rows' \in [Ids -> Slot]
    BY <1>2, <1>4 DEF View, IInv, TypeOK, Slot
  <2>3. \A s \in Reqs \ {r} : \A i \in Ids : pend[s][i] # NoRow => rows'[i] = rows[i]
    BY <2>1, RowsAreLive DEF IInv, LocksHold
  <2>4. ASSUME NEW i \in Ids, pend[r][i] # NoRow
        PROVE  rows[i] = NoRow \/ (rows[i] \in Row /\ pend[r][i].ver > rows[i].ver)
    <3>1. CASE UpdatesAddressed(r) /\ i = q[r].id
      <4>1. /\ q[r].kind \in {"correct", "end", "amend", "boundary"}
            /\ a[r] \in Row /\ a[r].ver \in Nat
        BY <1>1, <1>2, <3>1, RowType DEF UpdatesAddressed, Accepted
      <4>2. NewAddressed(r).ver = a[r].ver + 1
        BY <4>1 DEF NewAddressed, Corrected, Ended, Closed, MovedEarlier, Row
      <4> QED  BY <1>2, <3>1, <4>1, <4>2 DEF Writes
    <3>2. CASE UpdatesLater(r) /\ i = q[r].later
      <4>1. b[r] \in Row /\ b[r].ver \in Nat
        BY <1>1, <1>2, <3>2, RowType DEF UpdatesLater, Accepted
      <4>2. MovedLater(b[r], q[r]).ver = b[r].ver + 1
        BY <4>1 DEF MovedLater, Row
      <4> QED  BY <1>2, <3>2, <4>1, <4>2 DEF Writes
    <3> QED  BY <1>2, <2>4, <3>1, <3>2 DEF Writes
  <2>5. Keeps(r)
    <3>1. nextId' \in Nat /\ nextId' >= nextId
      BY <1>1, CalendarAssumption DEF IInv, TypeOK
    <3>2. ASSUME NEW i \in Ids
          PROVE  \/ rows'[i] = rows[i]
                 \/ rows[i] = NoRow
                 \/ rows[i] \in Row /\ rows'[i] \in Row /\ rows'[i].ver > rows[i].ver
      BY <2>1, <2>4, RowsAreLive
    <3> QED  BY <2>3, <3>1, <3>2 DEF Keeps
  <2>6. \A i \in Ids : i >= nextId' => rows'[i] = NoRow
    BY <1>1, <2>1, RowsAreLive DEF IInv, LocksHold
  <2> QED  BY <1>1, <1>4, <2>2, <2>5, <2>6, AnswerOK DEF Answers, IInv, TypeOK
<1> QED  BY <1>3, <1>4 DEF Commit

\* Aborting a transaction in a deadlock at COMMIT keeps the invariant.
LEMMA DeadlockVictimOK == ASSUME IInv, NEW r \in Reqs, DeadlockVictim(r) PROVE IInv'
BY AnswerOK, KeepsUnchanged DEF DeadlockVictim, Answers

\* The guarded DELETE keeps the invariant.
LEMMA DeleteRowOK == ASSUME IInv, NEW r \in Reqs, DeleteRow(r) PROVE IInv'
<1> DEFINE i == q[r].id
<1>1. pc[r] = "delete" /\ nextId' = nextId /\ Unlocked(r, i)
  BY DEF DeleteRow
<1>2. i \in Ids
  BY <1>1, ServedRequest, WrittenType DEF Statements
<1>3. CASE UNCHANGED rows
  BY <1>1, <1>3, AnswerOK, KeepsUnchanged DEF DeleteRow, Answers
<1>4. CASE rows' = [rows EXCEPT ![i] = Gone] /\ Answer(r, "ok") /\ Live(rows[i])
  <2>1. rows' \in [Ids -> Slot] /\ rows'[i] = Gone /\ \A j \in Ids \ {i} : rows'[j] = rows[j]
    BY <1>2, <1>4 DEF IInv, TypeOK, Slot
  <2>2. rows[i] \in Row /\ rows[i] # NoRow
    BY <1>2, <1>4 DEF IInv, TypeOK, Slot, Live
  <2>3. Keeps(r)
    BY <1>1, <2>1, <2>2, CalendarAssumption DEF Keeps, Unlocked, IInv, TypeOK
  <2>4. \A j \in Ids : j >= nextId' => rows'[j] = NoRow
    BY <1>1, <2>1, <2>2 DEF IInv, LocksHold
  <2> QED  BY <1>1, <1>4, <2>1, <2>3, <2>4, AnswerOK DEF Answers, IInv, TypeOK
<1> QED  BY <1>3, <1>4 DEF DeleteRow

---------------------------------------------------------------------------

\* A server without requests in flight satisfies the invariant.
LEMMA InitOK == Init => IInv
<1> SUFFICES ASSUME Init PROVE IInv
  OBVIOUS
<1>1. rows \in [Ids -> Slot]
  BY TimelinesAssumption DEF Init
<1>2. NoWrites \in [Ids -> Row \cup {NoRow}]
  BY DEF NoWrites
<1>3. TypeOK
  BY <1>1, <1>2 DEF Init, TypeOK, Slot, Answers
<1>4. LocksHold
  BY SentinelAssumption, CalendarAssumption DEF Init, LocksHold, Statements, NoWrites
<1> QED  BY <1>3, <1>4 DEF IInv

\* Every step of every request keeps the invariant.
LEMMA NextOK == IInv /\ [Next]_vars => IInv'
<1> SUFFICES ASSUME IInv, [Next]_vars PROVE IInv'
  OBVIOUS
<1>1. ASSUME NEW r \in Reqs, Send(r) PROVE IInv'
  BY <1>1, SendOK
<1>2. ASSUME NEW r \in Reqs, Serve(r) PROVE IInv'
  BY <1>2, LoadLaterOK, CheckOK, UpdateContractOK, UpdateLaterOK, InsertContractOK, CommitOK,
     DeadlockVictimOK, DeleteRowOK DEF Serve
<1>3. CASE UNCHANGED vars
  <2>1. TypeOK'
    BY <1>3 DEF vars, IInv, TypeOK
  <2>2. \A r \in Reqs : Accepted(r)' = Accepted(r)
    BY <1>3 DEF vars, Accepted
  <2>3. \A r \in Reqs : Writes(r)' = Writes(r)
    BY <1>3 DEF vars, Writes, UpdatesAddressed, UpdatesLater, Inserts, NewAddressed, NewInserted
  <2>4. LocksHold'
    BY <1>3, <2>2, <2>3 DEF vars, IInv, LocksHold, Since, NoWrites
  <2> QED  BY <2>1, <2>4 DEF IInv
<1> QED  BY <1>1, <1>2, <1>3 DEF Next, Finished

\* Every reachable state has its types, and the rows a transaction has written are
\* locked and still the ones its request validated against.
THEOREM InductiveInvariant == Spec => []IInv
BY InitOK, NextOK, PTL DEF Spec

\* Committed rows and the locals of every request keep their types: no statement
\* is reached by an intent that does not have it.
THEOREM TypeCorrect == Spec => []TypeOK
BY InductiveInvariant, PTL DEF IInv

\* From a transaction's write of a row to its end, the row is the one its request
\* loaded, and no other transaction has written it.
THEOREM LocksProtect == Spec => []LocksHold
BY InductiveInvariant, PTL DEF IInv

---------------------------------------------------------------------------
(* What the committed rows do. *)

\* The committed rows change in two ways only: a transaction commits what it has
\* written, past the exclusion constraint, or a row is deleted.
LEMMA RowsStep ==
    ASSUME IInv, Next
    PROVE  \/ rows' = rows
           \/ \E r \in Reqs : /\ pc[r] = "commit" /\ ~Excluded(r) /\ rows' = View(r)
                               /\ resp'[r] = "ok"
           \/ \E r \in Reqs : /\ pc[r] = "delete" /\ q[r].id \in Ids
                               /\ Live(rows[q[r].id]) /\ checkVersion(q[r].exp, rows[q[r].id].ver)
                               /\ rows' = [rows EXCEPT ![q[r].id] = Gone]
<1>1. ASSUME NEW r \in Reqs, Send(r) PROVE rows' = rows
  BY <1>1 DEF Send, CreateContract, CorrectContract, EndContract, AmendContract,
              MoveContractBoundary, DeleteContract, LoadThen
<1>2. ASSUME NEW r \in Reqs, LoadLater(r) \/ Check(r) \/ CheckLater(r) \/ UpdateContract(r)
                             \/ UpdateLater(r) \/ InsertContract(r) \/ DeadlockVictim(r)
      PROVE  rows' = rows
  BY <1>2 DEF LoadLater, Check, CheckLater, ValidateNoOverlap, UpdateContract, UpdateLater,
              UpdateRow, InsertContract, DeadlockVictim
<1>3. ASSUME NEW r \in Reqs, Commit(r)
      PROVE  \/ rows' = rows
             \/ pc[r] = "commit" /\ ~Excluded(r) /\ rows' = View(r) /\ resp'[r] = "ok"
  BY <1>3 DEF Commit, Answer, IInv, TypeOK
<1>4. ASSUME NEW r \in Reqs, DeleteRow(r)
      PROVE  \/ rows' = rows
             \/ /\ pc[r] = "delete" /\ q[r].id \in Ids
                /\ Live(rows[q[r].id]) /\ checkVersion(q[r].exp, rows[q[r].id].ver)
                /\ rows' = [rows EXCEPT ![q[r].id] = Gone]
  BY <1>4, ServedRequest, WrittenType DEF DeleteRow, Statements
<1> QED  BY <1>1, <1>2, <1>3, <1>4 DEF Next, Serve, Finished, vars

\* A commit past the exclusion constraint publishes a timeline without overlap.
LEMMA CommitKeepsNoOverlap ==
    ASSUME IInv, NoOverlap, NEW r \in Reqs, ~Excluded(r), rows' = View(r)
    PROVE  NoOverlapIn(rows')
<1> SUFFICES ASSUME NEW i \in Ids, NEW j \in Ids, i # j, Live(rows'[i]), Live(rows'[j])
             PROVE  ~Overlaps(rows'[i], rows'[j])
  BY DEF NoOverlapIn
<1>1. rows'[i] = View(r)[i] /\ rows'[j] = View(r)[j]
  OBVIOUS
<1>2. CASE Live(pend[r][i])
  BY <1>1, <1>2 DEF Excluded, View
<1>3. CASE Live(pend[r][j])
  <2>1. ~Overlaps(rows'[j], rows'[i])
    BY <1>1, <1>3 DEF Excluded, View
  <2> QED  BY <2>1 DEF Overlaps
<1>4. CASE ~Live(pend[r][i]) /\ ~Live(pend[r][j])
  BY <1>1, <1>4 DEF View, NoOverlap, NoOverlapIn
<1> QED  BY <1>2, <1>3, <1>4

\* No step makes two committed contracts share a day.
LEMMA NoOverlapStep ==
    ASSUME IInv, NoOverlap, [Next]_vars
    PROVE  NoOverlap'
<1>1. CASE rows' = rows
  BY <1>1 DEF NoOverlap, NoOverlapIn
<1>2. ASSUME NEW r \in Reqs, ~Excluded(r), rows' = View(r) PROVE NoOverlap'
  BY <1>2, CommitKeepsNoOverlap DEF NoOverlap, NoOverlapIn
<1>3. ASSUME NEW i \in Ids, rows' = [rows EXCEPT ![i] = Gone] PROVE NoOverlap'
  BY <1>3 DEF NoOverlap, NoOverlapIn, IInv, TypeOK, Live
<1> QED  BY <1>1, <1>2, <1>3, RowsStep DEF vars

\* No two committed contracts of an owner ever share a day.
THEOREM NeverOverlap == Spec => []NoOverlap
<1>1. Init => NoOverlap
  BY TimelinesAssumption DEF Init, NoOverlap
<1> QED  BY <1>1, InductiveInvariant, NoOverlapStep, PTL DEF Spec

\* What a committing transaction does to each row.
LEMMA CommittedRow ==
    ASSUME IInv, NEW r \in Reqs, pc[r] = "commit", rows' = View(r), NEW i \in Ids
    PROVE  \/ pend[r][i] = NoRow /\ rows'[i] = rows[i]
           \/ /\ UpdatesAddressed(r) /\ i = q[r].id /\ a[r] \in Row
              /\ rows[i] = a[r] /\ rows'[i] = NewAddressed(r) /\ rows'[i].ver = a[r].ver + 1
           \/ /\ UpdatesLater(r) /\ i = q[r].later /\ b[r] \in Row
              /\ rows[i] = b[r] /\ rows'[i] = MovedLater(b[r], q[r]) /\ rows'[i].ver = b[r].ver + 1
           \/ Inserts(r) /\ rows[i] = NoRow /\ pend[r][i] # NoRow
<1>1. Accepted(r) /\ Writes(r) /\ pend[r] \in [Ids -> Row \cup {NoRow}]
  BY ServedRequest DEF Statements
<1>2. \/ pend[r][i] = NoRow /\ rows'[i] = rows[i]
      \/ pend[r][i] \in Row /\ rows'[i] = pend[r][i] /\ pend[r][i] # NoRow
  BY <1>1, RowsAreLive DEF View, Live
<1>3. CASE UpdatesAddressed(r) /\ i = q[r].id /\ pend[r][i] # NoRow
  <2>1. q[r].kind \in {"correct", "end", "amend", "boundary"} /\ a[r] \in Row
    BY <1>1, <1>3 DEF UpdatesAddressed, Accepted
  <2>2. NewAddressed(r).ver = a[r].ver + 1
    BY <2>1 DEF NewAddressed, Corrected, Ended, Closed, MovedEarlier, Row
  <2> QED  BY <1>1, <1>2, <1>3, <2>1, <2>2 DEF Writes
<1>4. CASE UpdatesLater(r) /\ i = q[r].later /\ pend[r][i] # NoRow
  <2>1. b[r] \in Row
    BY <1>1, <1>4 DEF UpdatesLater, Accepted
  <2>2. MovedLater(b[r], q[r]).ver = b[r].ver + 1
    BY <2>1 DEF MovedLater, Row
  <2> QED  BY <1>1, <1>2, <1>4, <2>1, <2>2 DEF Writes
<1> QED  BY <1>1, <1>2, <1>3, <1>4 DEF Writes

\* Every step that replaces a committed row replaces the one its request loaded.
LEMMA NoLostUpdateStep ==
    ASSUME IInv, [Next]_vars, NEW i \in Ids, Live(rows[i]), Live(rows'[i]), rows'[i] # rows[i]
    PROVE  /\ rows'[i].ver = rows[i].ver + 1
           /\ \E r \in Reqs : /\ Commits(r)
                              /\ \/ q[r].id = i /\ a[r] = rows[i]
                                 \/ q[r].later = i /\ b[r] = rows[i]
<1>1. ASSUME NEW r \in Reqs, pc[r] = "delete", q[r].id \in Ids,
             rows' = [rows EXCEPT ![q[r].id] = Gone]
      PROVE  FALSE
  BY <1>1 DEF IInv, TypeOK, Live
<1>2. ASSUME NEW r \in Reqs, pc[r] = "commit", rows' = View(r), resp'[r] = "ok"
      PROVE  /\ rows'[i].ver = rows[i].ver + 1
             /\ Commits(r)
             /\ \/ q[r].id = i /\ a[r] = rows[i]
                \/ q[r].later = i /\ b[r] = rows[i]
  BY <1>2, CommittedRow DEF Commits, Live
<1> QED  BY <1>1, <1>2, RowsStep DEF vars

\* A committed update replaces exactly the row its request loaded.
THEOREM NothingIsLost == Spec => NoLostUpdate
<1>1. IInv /\ [Next]_vars =>
        [\A i \in Ids : Live(rows[i]) /\ Live(rows'[i]) /\ rows'[i] # rows[i] =>
          /\ rows'[i].ver = rows[i].ver + 1
          /\ \E r \in Reqs : /\ Commits(r)
                             /\ \/ q[r].id = i /\ a[r] = rows[i]
                                \/ q[r].later = i /\ b[r] = rows[i]]_vars
  BY NoLostUpdateStep
<1> QED  BY <1>1, InductiveInvariant, PTL DEF Spec, NoLostUpdate

---------------------------------------------------------------------------
(* The statement-level system implements the atomic timeline. *)

\* The committed timeline, row by row, as one atomic write of the request's intent.
LEMMA CommittedTimeline ==
    ASSUME IInv, NEW r \in Reqs, pc[r] = "commit", rows' = View(r)
    PROVE  LET k == q[r] IN
           \/ /\ k.kind = "create" /\ CreateOK(k)
              /\ \E n \in Ids : rows[n] = NoRow /\ rows' = [rows EXCEPT ![n] = Created(k)]
           \/ /\ k.kind = "correct" /\ rows[k.id] = a[r] /\ CorrectOK(rows[k.id], k)
              /\ rows' = [rows EXCEPT ![k.id] = Corrected(rows[k.id], k)]
           \/ /\ k.kind = "end" /\ rows[k.id] = a[r] /\ EndOK(rows[k.id], k)
              /\ rows' = [rows EXCEPT ![k.id] = Ended(rows[k.id], k)]
           \/ /\ k.kind = "amend" /\ rows[k.id] = a[r] /\ AmendOK(rows[k.id], k)
              /\ \E n \in Ids :
                   /\ rows[n] = NoRow
                   /\ rows' = [rows EXCEPT ![k.id] = Closed(rows[k.id], k),
                                           ![n] = Successor(rows[k.id], k)]
           \/ /\ k.kind = "boundary" /\ k.id # k.later /\ rows[k.id] = a[r] /\ rows[k.later] = b[r]
              /\ k.exp = a[r].ver /\ k.laterExp = b[r].ver /\ b[r] \in Row
              /\ BoundaryOK(rows[k.id], rows[k.later], k)
              /\ rows' = [rows EXCEPT ![k.id] = MovedEarlier(rows[k.id], k),
                                      ![k.later] = MovedLater(rows[k.later], k)]
<1> DEFINE k == q[r]
<1>1. /\ Accepted(r) /\ Writes(r) /\ pend[r] \in [Ids -> Row \cup {NoRow}]
      /\ k.id \in Ids /\ k.later \in Ids
  BY ServedRequest, WrittenType DEF Statements
<1>2. /\ rows' \in [Ids -> Slot] /\ rows \in [Ids -> Slot]
      /\ \A i \in Ids : \/ pend[r][i] = NoRow /\ rows'[i] = rows[i]
                        \/ pend[r][i] # NoRow /\ rows'[i] = pend[r][i]
  BY <1>1, RowsAreLive DEF View, Live, IInv, TypeOK, Slot
<1>3. CASE k.kind = "create"
  <2>1. CreateOK(k) /\ ~UpdatesAddressed(r) /\ ~UpdatesLater(r) /\ Inserts(r)
    BY <1>1, <1>3 DEF Accepted, UpdatesAddressed, UpdatesLater, Inserts
  <2>2. PICK n \in Ids : /\ rows[n] = NoRow /\ pend[r][n] = Created(k)
                        /\ \A i \in Ids \ {n} : pend[r][i] # NoRow => UpdatesAddressed(r) /\ i = k.id
    BY <1>1, <1>3, <2>1 DEF Writes, NewInserted
  <2>3. pend[r][n] # NoRow /\ \A i \in Ids \ {n} : pend[r][i] = NoRow
    BY <1>1, <1>3, <2>1, <2>2, CreatedType, RowsAreLive DEF Accepted
  <2>4. rows' = [rows EXCEPT ![n] = Created(k)]
    BY <1>2, <2>2, <2>3
  <2> QED  BY <1>3, <2>1, <2>2, <2>4
<1>4. CASE k.kind \in {"correct", "end"}
  <2>1. UpdatesAddressed(r) /\ ~UpdatesLater(r) /\ ~Inserts(r)
    BY <1>1, <1>4 DEF Accepted, UpdatesAddressed, UpdatesLater, Inserts
  <2>2. /\ rows[k.id] = a[r] /\ pend[r][k.id] = NewAddressed(r) /\ pend[r][k.id] # NoRow
        /\ \A i \in Ids \ {k.id} : pend[r][i] = NoRow
    BY <1>1, <1>4, <2>1, WrittenType, RowsAreLive DEF Writes, Accepted
  <2>3. rows' = [rows EXCEPT ![k.id] = NewAddressed(r)]
    BY <1>1, <1>2, <2>2
  <2>4. CASE k.kind = "correct"
    BY <1>1, <2>2, <2>3, <2>4 DEF Accepted, NewAddressed
  <2>5. CASE k.kind = "end"
    BY <1>1, <2>2, <2>3, <2>5 DEF Accepted, NewAddressed
  <2> QED  BY <1>4, <2>4, <2>5
<1>5. CASE k.kind = "amend"
  <2>1. UpdatesAddressed(r) /\ ~UpdatesLater(r) /\ Inserts(r)
    BY <1>1, <1>5 DEF Accepted, UpdatesAddressed, UpdatesLater, Inserts
  <2>2. /\ rows[k.id] = a[r] /\ a[r] \in Row /\ AmendOK(a[r], k)
        /\ pend[r][k.id] = Closed(a[r], k) /\ pend[r][k.id] # NoRow
    BY <1>1, <1>5, <2>1, WrittenType, RowsAreLive DEF Writes, Accepted, NewAddressed
  <2>3. PICK n \in Ids : /\ rows[n] = NoRow /\ pend[r][n] = Successor(a[r], k)
                        /\ \A i \in Ids \ {n} : pend[r][i] # NoRow => UpdatesAddressed(r) /\ i = k.id
    BY <1>1, <1>5, <2>1 DEF Writes, NewInserted
  <2>4. n # k.id /\ pend[r][n] # NoRow
    BY <1>1, <1>5, <2>2, <2>3, AmendedType, RowsAreLive DEF Accepted
  <2>5. rows' = [rows EXCEPT ![k.id] = Closed(a[r], k), ![n] = Successor(a[r], k)]
    BY <1>1, <1>2, <2>2, <2>3, <2>4
  <2> QED  BY <1>5, <2>2, <2>3, <2>5
<1>6. CASE k.kind = "boundary"
  <2>1. UpdatesAddressed(r) /\ UpdatesLater(r) /\ ~Inserts(r)
    BY <1>1, <1>6 DEF Accepted, UpdatesAddressed, UpdatesLater, Inserts
  <2>2. /\ a[r] \in Row /\ b[r] \in Row /\ k.id # k.later
        /\ k.exp = a[r].ver /\ k.laterExp = b[r].ver /\ BoundaryOK(a[r], b[r], k)
    BY <1>1, <1>6 DEF Accepted
  <2>3. /\ rows[k.id] = a[r] /\ pend[r][k.id] = MovedEarlier(a[r], k) /\ pend[r][k.id] # NoRow
        /\ rows[k.later] = b[r] /\ pend[r][k.later] = MovedLater(b[r], k)
        /\ pend[r][k.later] # NoRow
        /\ \A i \in Ids \ {k.id, k.later} : pend[r][i] = NoRow
    BY <1>1, <1>6, <2>1, WrittenType, RowsAreLive DEF Writes, NewAddressed
  <2>4. rows' = [rows EXCEPT ![k.id] = MovedEarlier(a[r], k), ![k.later] = MovedLater(b[r], k)]
    BY <1>1, <1>2, <2>2, <2>3
  <2> QED  BY <1>6, <2>2, <2>3, <2>4
<1>7. k.kind # "delete"
  BY <1>1 DEF Accepted
<1> QED  BY <1>1, <1>3, <1>4, <1>5, <1>6, <1>7 DEF Accepted

\* The abstract timeline uses the same operators on rows as the implementation.
LEMMA SameRowOps ==
    /\ \A x : T!Live(x) = Live(x)
    /\ \A e, c : T!checkVersion(e, c) = checkVersion(e, c)
    /\ \A f, v : T!Opt(f, v) = Opt(f, v)
    /\ \A p, d : T!MergeDefaults(p, d) = MergeDefaults(p, d)
    /\ \A p, d : T!validProps(p, d) = validProps(p, d)
    /\ \A x : T!afterBirth(x) = afterBirth(x)
    /\ \A x : T!validPeriod(x) = validPeriod(x)
<1>1. \A d : T!autoApply(d) = autoApply(d)
  BY DEF T!autoApply, autoApply
<1>2. \A p : T!KeysOf(p) = KeysOf(p)
  BY DEF T!KeysOf, KeysOf
<1>3. \A p, d : T!MergeDefaults(p, d) = MergeDefaults(p, d)
  BY <1>1, <1>2, Zenon DEF T!MergeDefaults, MergeDefaults
<1>4. \A p, d : T!validProps(p, d) = validProps(p, d)
  BY <1>2, Zenon DEF T!validProps, validProps
<1>5. \A x : T!Live(x) = Live(x)
  BY DEF T!Live, Live
<1>6. \A e, c : T!checkVersion(e, c) = checkVersion(e, c)
  BY DEF T!checkVersion, checkVersion
<1>7. \A f, v : T!Opt(f, v) = Opt(f, v)
  BY DEF T!Opt, Opt
<1>8. \A x : T!afterBirth(x) = afterBirth(x) /\ T!validPeriod(x) = validPeriod(x)
  BY DEF T!afterBirth, afterBirth, T!validPeriod, validPeriod
<1> QED  BY <1>3, <1>4, <1>5, <1>6, <1>7, <1>8

\* ... the same rule against overlap,
LEMMA SameNoOverlap == \A R : T!NoOverlapIn(R) = NoOverlapIn(R)
<1>1. \A x, y : T!Overlaps(x, y) = Overlaps(x, y)
  BY DEF T!Overlaps, Overlaps
<1> QED  BY <1>1, SameRowOps, Zenon DEF T!NoOverlapIn, NoOverlapIn

\* ... and the same intents.
LEMMA SameIntents ==
    /\ \A k : T!Created(k) = Created(k) /\ T!CreateOK(k) = CreateOK(k)
    /\ \A x, k : T!Corrected(x, k) = Corrected(x, k) /\ T!CorrectOK(x, k) = CorrectOK(x, k)
    /\ \A x, k : T!Ended(x, k) = Ended(x, k) /\ T!EndOK(x, k) = EndOK(x, k)
    /\ \A x, k : T!Closed(x, k) = Closed(x, k) /\ T!Successor(x, k) = Successor(x, k)
    /\ \A x, k : T!AmendOK(x, k) = AmendOK(x, k)
    /\ \A x, k : T!MovedEarlier(x, k) = MovedEarlier(x, k) /\ T!MovedLater(x, k) = MovedLater(x, k)
    /\ \A x, y, k : T!BoundaryOK(x, y, k) = BoundaryOK(x, y, k)
<1>1. \A k : T!Created(k) = Created(k)
  BY SameRowOps, Zenon DEF T!Created, Created
<1>2. \A k : T!CreateOK(k) = CreateOK(k)
  BY <1>1, SameRowOps, Zenon DEF T!CreateOK, CreateOK
<1>3. \A x, k : T!Corrected(x, k) = Corrected(x, k)
  BY SameRowOps, Zenon DEF T!Corrected, Corrected
<1>4. \A x, k : T!CorrectOK(x, k) = CorrectOK(x, k)
  BY <1>3, SameRowOps, Zenon DEF T!CorrectOK, CorrectOK
<1>5. \A x, k : T!Ended(x, k) = Ended(x, k)
  BY DEF T!Ended, Ended
<1>6. \A x, k : T!EndOK(x, k) = EndOK(x, k)
  BY <1>5, SameRowOps, Zenon DEF T!EndOK, EndOK
<1>7. \A x, k : T!Closed(x, k) = Closed(x, k)
  BY SameRowOps, Zenon DEF T!Closed, Closed
<1>8. \A x, k : T!Successor(x, k) = Successor(x, k)
  BY SameRowOps, Zenon DEF T!Successor, Successor
<1>9. \A x, k : T!checkAmendSeam(x, k) = checkAmendSeam(x, k)
  BY DEF T!checkAmendSeam, checkAmendSeam
<1>10. \A x, k : T!AmendOK(x, k) = AmendOK(x, k)
  BY <1>8, <1>9, SameRowOps, Zenon DEF T!AmendOK, AmendOK
<1>11. \A x, k : T!MovedEarlier(x, k) = MovedEarlier(x, k) /\ T!MovedLater(x, k) = MovedLater(x, k)
  BY DEF T!MovedEarlier, MovedEarlier, T!MovedLater, MovedLater
<1>12. \A x, y, k : T!checkAdjacent(x, y, k) = checkAdjacent(x, y, k)
  BY Zenon DEF T!checkAdjacent, checkAdjacent, T!Forever, Forever
<1>13. \A x, y, k : T!BoundaryOK(x, y, k) = BoundaryOK(x, y, k)
  BY <1>11, <1>12, SameRowOps, Zenon DEF T!BoundaryOK, BoundaryOK
<1> QED  BY <1>1, <1>2, <1>3, <1>4, <1>5, <1>6, <1>7, <1>8, <1>10, <1>11, <1>13

\* Every step is one atomic write of the abstract timeline, or leaves it as it is.
LEMMA StepRefines ==
    ASSUME IInv, NoOverlap, [Next]_vars
    PROVE  [T!Next]_rows
<1>1. ASSUME NEW r \in Reqs, pc[r] = "commit", ~Excluded(r), rows' = View(r)
      PROVE  T!Next
  <2> DEFINE k == q[r]
  <2>1. /\ k \in Requests /\ Accepted(r) /\ T!NoOverlapIn(rows')
    BY <1>1, CommitKeepsNoOverlap, SameNoOverlap, ServedRequest, WrittenType DEF Statements
  <2>2. /\ k.kind # "create" => a[r] \in Row /\ Live(a[r])
        /\ k.kind \in {"correct", "end", "amend"} => checkVersion(k.exp, a[r].ver)
    BY <1>1, <2>1, RowsAreLive DEF Accepted
  <2>3. T!Create(k) \/ T!Correct(k) \/ T!End(k) \/ T!Amend(k) \/ T!MoveBoundary(k)
    <3>1. CASE k.kind = "create"
      <4>1. CreateOK(k) /\ \E n \in Ids : rows[n] = NoRow /\ rows' = [rows EXCEPT ![n] = Created(k)]
        BY <1>1, <3>1, CommittedTimeline
      <4> QED  BY <2>1, <3>1, <4>1, SameIntents DEF T!Create, T!Write
    <3>2. CASE k.kind = "correct"
      <4>1. /\ rows[k.id] = a[r] /\ CorrectOK(rows[k.id], k)
            /\ rows' = [rows EXCEPT ![k.id] = Corrected(rows[k.id], k)]
        BY <1>1, <3>2, CommittedTimeline
      <4> QED  BY <2>1, <2>2, <3>2, <4>1, SameRowOps, SameIntents DEF T!Correct, T!Addressed, T!Write
    <3>3. CASE k.kind = "end"
      <4>1. /\ rows[k.id] = a[r] /\ EndOK(rows[k.id], k)
            /\ rows' = [rows EXCEPT ![k.id] = Ended(rows[k.id], k)]
        BY <1>1, <3>3, CommittedTimeline
      <4> QED  BY <2>1, <2>2, <3>3, <4>1, SameRowOps, SameIntents DEF T!End, T!Addressed, T!Write
    <3>4. CASE k.kind = "amend"
      <4>1. /\ rows[k.id] = a[r] /\ AmendOK(rows[k.id], k)
            /\ \E n \in Ids : /\ rows[n] = NoRow
                             /\ rows' = [rows EXCEPT ![k.id] = Closed(rows[k.id], k),
                                                     ![n] = Successor(rows[k.id], k)]
        BY <1>1, <3>4, CommittedTimeline
      <4> QED  BY <2>1, <2>2, <3>4, <4>1, SameRowOps, SameIntents DEF T!Amend, T!Addressed, T!Write
    <3>5. CASE k.kind = "boundary"
      <4>1. /\ k.id # k.later /\ rows[k.id] = a[r] /\ rows[k.later] = b[r]
            /\ k.exp = a[r].ver /\ k.laterExp = b[r].ver /\ b[r] \in Row
            /\ BoundaryOK(rows[k.id], rows[k.later], k)
            /\ rows' = [rows EXCEPT ![k.id] = MovedEarlier(rows[k.id], k),
                                    ![k.later] = MovedLater(rows[k.later], k)]
        BY <1>1, <3>5, CommittedTimeline
      <4>2. Live(b[r]) /\ checkVersion(k.exp, a[r].ver)
        BY <4>1, RowsAreLive DEF checkVersion
      <4> QED  BY <2>1, <2>2, <3>5, <4>1, <4>2, SameRowOps, SameIntents
               DEF T!MoveBoundary, T!Addressed, T!Write
    <3> QED  BY <1>1, <2>1, <3>1, <3>2, <3>3, <3>4, <3>5 DEF Accepted
  <2> QED  BY <2>1, <2>3 DEF T!Next
<1>2. ASSUME NEW r \in Reqs, pc[r] = "delete", Live(rows[q[r].id]), checkVersion(q[r].exp, rows[q[r].id].ver),
             rows' = [rows EXCEPT ![q[r].id] = Gone]
      PROVE  T!Next
  <2>1. q[r] \in Requests /\ q[r].kind = "delete"
    BY <1>2, ServedRequest DEF Statements, Accepted
  <2> QED  BY <1>2, <2>1, SameRowOps DEF T!Next, T!Delete, T!Addressed
<1> QED  BY <1>1, <1>2, RowsStep DEF vars

\* Whatever the interleaving of their statements, concurrent requests leave the
\* owner's contracts as atomic writes in commit order would.
THEOREM Refinement == Spec => RefinesTimeline
<1>1. Init => T!Init
  BY DEF Init, T!Init
<1> QED  BY <1>1, InductiveInvariant, NeverOverlap, StepRefines, PTL DEF Spec, RefinesTimeline, T!Spec

---------------------------------------------------------------------------
(* What Contracts promises its clients: each follows from what a transaction finds and
   leaves at its COMMIT (CommittedTimeline). *)

\* A statement of one request answers no other.
LEMMA AnswersItself ==
    ASSUME NEW s \in Reqs, NEW r \in Reqs \ {s}, Send(s) \/ Serve(s)
    PROVE  resp'[r] = resp[r]
<1>1. ASSUME NEW code, Answer(s, code) PROVE resp'[r] = resp[r]
  BY <1>1 DEF Answer
<1>2. CASE Send(s)
  BY <1>1, <1>2 DEF Send, CreateContract, CorrectContract, EndContract, AmendContract,
                    MoveContractBoundary, DeleteContract, LoadThen, Begin
<1>3. CASE LoadLater(s) \/ Check(s) \/ CheckLater(s)
  BY <1>1, <1>3 DEF LoadLater, Check, CheckLater, ValidateNoOverlap, Advance
<1>4. CASE UpdateContract(s) \/ UpdateLater(s) \/ InsertContract(s)
  BY <1>1, <1>4 DEF UpdateContract, UpdateLater, UpdateRow, InsertContract, Advance
<1>5. CASE Commit(s) \/ DeadlockVictim(s) \/ DeleteRow(s)
  BY <1>1, <1>5 DEF Commit, DeadlockVictim, DeleteRow
<1> QED  BY <1>2, <1>3, <1>4, <1>5 DEF Serve

\* A request that is answered in a step takes that step itself.
LEMMA AnsweredByItself ==
    ASSUME IInv, [Next]_vars, NEW r \in Reqs, pc[r] \in Statements, resp'[r] = "ok"
    PROVE  Serve(r)
<1>1. resp[r] = "none"
  BY LocksHoldParts DEF IInv, ReqOK, Statements
<1>2. CASE \E s \in Reqs : Send(s) \/ Serve(s)
  <2>1. PICK s \in Reqs : Send(s) \/ Serve(s)
    BY <1>2
  <2>2. s = r
    BY <1>1, <2>1, AnswersItself
  <2>3. ~Send(r)
    BY DEF Send, CreateContract, CorrectContract, EndContract, AmendContract, MoveContractBoundary,
           DeleteContract, LoadThen, Statements
  <2> QED  BY <2>1, <2>2, <2>3
<1>3. CASE Finished \/ UNCHANGED vars
  BY <1>1, <1>3 DEF Finished, vars
<1> QED  BY <1>2, <1>3 DEF Next

\* A transaction that is answered "ok" at its COMMIT publishes what it has written.
LEMMA CommitPublishes ==
    ASSUME IInv, [Next]_vars, NEW r \in Reqs, Commits(r)
    PROVE  /\ pc[r] = "commit" /\ rows' = View(r)
           /\ Accepted(r) /\ q[r] \in Requests /\ q[r].id \in Ids /\ q[r].later \in Ids
           /\ rows \in [Ids -> Slot]
<1>1. pc[r] = "commit" /\ resp'[r] = "ok"
  BY DEF Commits
<1>2. Serve(r)
  BY <1>1, AnsweredByItself DEF Statements
<1>3. Commit(r) \/ DeadlockVictim(r)
  BY <1>1, <1>2 DEF Serve, LoadLater, Check, CheckLater, UpdateContract, UpdateLater, InsertContract, DeleteRow
<1>4. ASSUME Answer(r, "overlap") PROVE FALSE
  BY <1>1, <1>4 DEF Answer, IInv, TypeOK
<1>5. rows' = View(r)
  BY <1>3, <1>4 DEF Commit, DeadlockVictim
<1> QED  BY <1>1, <1>5, ServedRequest, WrittenType DEF Statements, IInv, TypeOK

---------------------------------------------------------------------------
(* If-Match. *)

\* The versions a request states are those its rows have when it takes effect.
LEMMA IfMatchStep ==
    ASSUME IInv, [Next]_vars, NEW r \in Reqs, pc[r] \in {"commit", "delete"}, resp'[r] = "ok",
           q[r].kind # "create"
    PROVE  /\ q[r].exp # AnyVersion => Live(rows[q[r].id]) /\ rows[q[r].id].ver = q[r].exp
           /\ q[r].kind = "boundary" =>
                Live(rows[q[r].later]) /\ rows[q[r].later].ver = q[r].laterExp
<1>1. CASE pc[r] = "commit"
  <2>1. Commits(r) /\ Accepted(r) /\ rows' = View(r)
    BY <1>1, CommitPublishes DEF Commits
  <2>2. a[r] \in Row /\ (q[r].exp = AnyVersion \/ q[r].exp = a[r].ver)
    BY <1>1, <2>1 DEF Accepted, checkVersion
  <2>3. rows[q[r].id] = a[r]
    BY <1>1, <2>1, CommittedTimeline
  <2>4. q[r].kind = "boundary" => rows[q[r].later] = b[r] /\ b[r] \in Row /\ q[r].laterExp = b[r].ver
    BY <1>1, <2>1, CommittedTimeline
  <2> QED  BY <2>2, <2>3, <2>4, RowsAreLive
<1>2. CASE pc[r] = "delete"
  <2>1. DeleteRow(r) /\ q[r].kind = "delete"
    <3>1. Serve(r)
      BY <1>2, AnsweredByItself DEF Statements
    <3>2. DeleteRow(r)
      BY <1>2, <3>1 DEF Serve, LoadLater, Check, CheckLater, UpdateContract, UpdateLater, InsertContract,
                        Commit, DeadlockVictim
    <3>3. Accepted(r)
      BY <1>2, ServedRequest DEF Statements
    <3> QED  BY <1>2, <3>2, <3>3 DEF Accepted
  <2>2. ASSUME q[r].exp # AnyVersion
        PROVE  Live(rows[q[r].id]) /\ rows[q[r].id].ver = q[r].exp
    <3>1. ~Answer(r, "preconditionFailed")
      BY DEF Answer, IInv, TypeOK
    <3> QED  BY <2>1, <2>2, <3>1 DEF DeleteRow, checkVersion
  <2> QED  BY <2>1, <2>2
<1> QED  BY <1>1, <1>2

\* A write or a delete that states a version takes effect only on a row that still has
\* it at that moment (checkVersion, UPDATE ... WHERE version).
THEOREM VersionsHonoured == Spec => IfMatchHonoured
<1>1. IInv /\ [Next]_vars =>
        [\A r \in Reqs :
           pc[r] \in {"commit", "delete"} /\ resp'[r] = "ok" /\ q[r].kind # "create" =>
              /\ q[r].exp # AnyVersion => Live(rows[q[r].id]) /\ rows[q[r].id].ver = q[r].exp
              /\ q[r].kind = "boundary" =>
                   Live(rows[q[r].later]) /\ rows[q[r].later].ver = q[r].laterExp]_vars
  BY IfMatchStep
<1> QED  BY <1>1, InductiveInvariant, PTL DEF Spec, IfMatchHonoured

---------------------------------------------------------------------------
(* Omitted fields. *)

\* What a commit makes of the addressed row, field by field.
LEMMA AddressedRow ==
    ASSUME IInv, [Next]_vars, NEW r \in Reqs, Commits(r), q[r].kind # "create"
    PROVE  LET k == q[r]
               x == rows[k.id]
               y == rows'[k.id]
           IN  /\ x \in Row
               /\ \/ k.kind = "correct" /\ y = Corrected(x, k)
                  \/ k.kind = "end" /\ y = Ended(x, k)
                  \/ k.kind = "amend" /\ y = Closed(x, k)
                  \/ k.kind = "boundary" /\ y = MovedEarlier(x, k)
<1> DEFINE k == q[r]
<1>1. /\ pc[r] = "commit" /\ rows' = View(r) /\ Accepted(r) /\ k.id \in Ids /\ k.later \in Ids
      /\ rows \in [Ids -> Slot]
  BY CommitPublishes
<1>2. a[r] \in Row /\ k.kind \in {"correct", "end", "amend", "boundary"}
  BY <1>1 DEF Accepted
<1>3. CASE k.kind = "correct"
  <2>1. rows[k.id] = a[r] /\ rows' = [rows EXCEPT ![k.id] = Corrected(rows[k.id], k)]
    BY <1>1, <1>3, CommittedTimeline
  <2> QED  BY <1>1, <1>2, <1>3, <2>1
<1>4. CASE k.kind = "end"
  <2>1. rows[k.id] = a[r] /\ rows' = [rows EXCEPT ![k.id] = Ended(rows[k.id], k)]
    BY <1>1, <1>4, CommittedTimeline
  <2> QED  BY <1>1, <1>2, <1>4, <2>1
<1>5. CASE k.kind = "amend"
  <2>1. /\ rows[k.id] = a[r]
        /\ \E n \in Ids : /\ rows[n] = NoRow
                         /\ rows' = [rows EXCEPT ![k.id] = Closed(rows[k.id], k),
                                                 ![n] = Successor(rows[k.id], k)]
    BY <1>1, <1>5, CommittedTimeline
  <2>2. PICK n \in Ids : /\ rows[n] = NoRow
                         /\ rows' = [rows EXCEPT ![k.id] = Closed(rows[k.id], k),
                                                 ![n] = Successor(rows[k.id], k)]
    BY <2>1
  <2>3. n # k.id
    BY <1>2, <2>1, <2>2, RowsAreLive
  <2> QED  BY <1>1, <1>2, <1>5, <2>1, <2>2, <2>3
<1>6. CASE k.kind = "boundary"
  <2>1. /\ k.id # k.later /\ rows[k.id] = a[r]
        /\ rows' = [rows EXCEPT ![k.id] = MovedEarlier(rows[k.id], k),
                                ![k.later] = MovedLater(rows[k.later], k)]
    BY <1>1, <1>6, CommittedTimeline
  <2> QED  BY <1>1, <1>2, <1>6, <2>1
<1> QED  BY <1>2, <1>3, <1>4, <1>5, <1>6

\* A field the request omits keeps the value it has at the commit, although the UPDATE
\* writes every column of the row as it was loaded (CorrectContract, EndContract).
THEOREM OmissionsKept == Spec => OmittedFieldsKept
<1>1. ASSUME IInv, [Next]_vars, NEW r \in Reqs, Commits(r), q[r].kind # "create"
      PROVE  LET k == q[r]
                 old == rows[k.id]
                 new == rows'[k.id]
             IN  /\ k.kind # "correct" => new.terms = old.terms /\ new.from = old.from
                 /\ k.kind \in {"end", "boundary"} => new.props = old.props
                 /\ k.kind = "correct" =>
                      /\ k.terms = Unset => new.terms = old.terms
                      /\ k.from = Unset => new.from = old.from
                      /\ k.to = Unset => new.to = old.to
                      /\ k.from = Unset /\ k.props = Unset => new.props = old.props
  <2> DEFINE k == q[r]
             x == rows[k.id]
  <2>1. x \in Row
    BY <1>1, AddressedRow
  <2>2. CASE k.kind = "correct" /\ rows'[k.id] = Corrected(x, k)
    BY <2>2 DEF Corrected, Opt
  <2>3. CASE k.kind \in {"end", "boundary"} /\ rows'[k.id] \in {Ended(x, k), MovedEarlier(x, k)}
    BY <2>1, <2>3 DEF Ended, MovedEarlier, Row
  <2>4. CASE k.kind = "amend" /\ rows'[k.id] = Closed(x, k)
    BY <2>1, <2>4 DEF Closed, Row
  <2> QED  BY <1>1, <2>2, <2>3, <2>4, AddressedRow
<1>2. IInv /\ [Next]_vars =>
        [\A r \in Reqs : Commits(r) /\ q[r].kind # "create" =>
           LET k == q[r]
               old == rows[k.id]
               new == rows'[k.id]
           IN  /\ k.kind # "correct" => new.terms = old.terms /\ new.from = old.from
               /\ k.kind \in {"end", "boundary"} => new.props = old.props
               /\ k.kind = "correct" =>
                    /\ k.terms = Unset => new.terms = old.terms
                    /\ k.from = Unset => new.from = old.from
                    /\ k.to = Unset => new.to = old.to
                    /\ k.from = Unset /\ k.props = Unset => new.props = old.props]_vars
  BY <1>1
<1> QED  BY <1>2, InductiveInvariant, PTL DEF Spec, OmittedFieldsKept

---------------------------------------------------------------------------
(* Pay plans and seams: what every committed row satisfies. *)

RowsValid == \A i \in Ids : Live(rows[i]) => validPeriod(rows[i])

\* A row that is new or changed by a commit has been validated: it ends after it starts, and
\* the pay plan has an entry for its terms on its first day, if it had one before.
LEMMA CommittedRowValid ==
    ASSUME IInv, RowsValid, PayPlanCovers, [Next]_vars, NEW r \in Reqs, Commits(r), NEW i \in Ids, Live(rows'[i])
    PROVE  validPeriod(rows'[i]) /\ rows'[i].terms \in Payable[rows'[i].from]
<1> DEFINE k == q[r]
<1>1. /\ pc[r] = "commit" /\ rows' = View(r) /\ Accepted(r) /\ k \in Requests /\ k.id \in Ids /\ k.later \in Ids
      /\ rows \in [Ids -> Slot]
  BY CommitPublishes
<1>2. CASE rows'[i] = rows[i]
  BY <1>2 DEF RowsValid, PayPlanCovers
<1>3. CASE k.kind = "create"
  <2>1. CreateOK(k) /\ \E n \in Ids : rows[n] = NoRow /\ rows' = [rows EXCEPT ![n] = Created(k)]
    BY <1>1, <1>3, CommittedTimeline
  <2>2. rows'[i] = rows[i] \/ rows'[i] = Created(k)
    BY <1>1, <2>1
  <2> QED  BY <1>2, <2>1, <2>2 DEF CreateOK
<1>4. ASSUME k.kind # "create"
      PROVE  /\ rows[k.id] \in Row /\ a[r] = rows[k.id] /\ Live(rows[k.id])
             /\ rows[k.id].from \in Nat /\ rows[k.id].to \in Nat
             /\ rows[k.id].terms \in Payable[rows[k.id].from] /\ validPeriod(rows[k.id])
  <2>1. a[r] = rows[k.id]
    BY <1>1, <1>4, CommittedTimeline
  <2>2. rows[k.id] \in Row /\ Live(rows[k.id])
    BY <1>4, AddressedRow, RowsAreLive
  <2> QED  BY <1>1, <2>1, <2>2, RowType DEF RowsValid, PayPlanCovers
<1>5. CASE k.kind = "correct"
  <2> DEFINE x == rows[k.id]
  <2>1. CorrectOK(x, k) /\ rows' = [rows EXCEPT ![k.id] = Corrected(x, k)]
    BY <1>1, <1>5, CommittedTimeline
  <2>2. rows'[i] = rows[i] \/ rows'[i] = Corrected(x, k)
    BY <1>1, <2>1
  <2>3. validPeriod(Corrected(x, k))
    BY <2>1 DEF CorrectOK
  <2>4. Corrected(x, k).terms \in Payable[Corrected(x, k).from]
    <3>1. CASE k.terms = Unset /\ k.from = Unset
      BY <1>4, <1>5, <3>1 DEF Corrected, Opt
    <3>2. CASE k.terms # Unset \/ k.from # Unset
      BY <2>1, <3>2 DEF CorrectOK
    <3> QED  BY <3>1, <3>2
  <2> QED  BY <1>2, <2>2, <2>3, <2>4
<1>6. CASE k.kind = "end"
  <2> DEFINE x == rows[k.id]
  <2>1. EndOK(x, k) /\ rows' = [rows EXCEPT ![k.id] = Ended(x, k)]
    BY <1>1, <1>6, CommittedTimeline
  <2>2. rows'[i] = rows[i] \/ rows'[i] = Ended(x, k)
    BY <1>1, <2>1
  <2>3. validPeriod(Ended(x, k)) /\ Ended(x, k).terms = x.terms /\ Ended(x, k).from = x.from
    BY <1>4, <1>6, <2>1 DEF EndOK, Ended, Row
  <2> QED  BY <1>2, <1>4, <1>6, <2>2, <2>3
<1>7. CASE k.kind = "amend"
  <2> DEFINE x == rows[k.id]
  <2>1. /\ AmendOK(x, k)
        /\ \E n \in Ids : /\ rows[n] = NoRow
                         /\ rows' = [rows EXCEPT ![k.id] = Closed(x, k), ![n] = Successor(x, k)]
    BY <1>1, <1>7, CommittedTimeline
  <2>2. rows'[i] = rows[i] \/ rows'[i] = Closed(x, k) \/ rows'[i] = Successor(x, k)
    BY <1>1, <2>1
  <2>3. validPeriod(Successor(x, k)) /\ Successor(x, k).terms \in Payable[Successor(x, k).from]
    BY <2>1 DEF AmendOK, Successor
  <2>4. Closed(x, k).terms = x.terms /\ Closed(x, k).from = x.from /\ Closed(x, k).to = k.at - 1
    BY <1>4, <1>7 DEF Closed, Row
  <2>5. validPeriod(Closed(x, k))
    <3>1. k.at \in Nat /\ k.at > x.from
      BY <1>1, <2>1, RequestType, CalendarAssumption DEF AmendOK, checkAmendSeam, Day
    <3> QED  BY <1>4, <1>7, <2>4, <3>1 DEF validPeriod
  <2> QED  BY <1>2, <1>4, <1>7, <2>2, <2>3, <2>4, <2>5
<1>8. CASE k.kind = "boundary"
  <2> DEFINE x == rows[k.id]
             y == rows[k.later]
  <2>1. /\ BoundaryOK(x, y, k) /\ y \in Row
        /\ rows' = [rows EXCEPT ![k.id] = MovedEarlier(x, k), ![k.later] = MovedLater(y, k)]
    BY <1>1, <1>8, CommittedTimeline
  <2>2. rows'[i] = rows[i] \/ rows'[i] = MovedEarlier(x, k) \/ rows'[i] = MovedLater(y, k)
    BY <1>1, <2>1
  <2>3. validPeriod(MovedEarlier(x, k)) /\ validPeriod(MovedLater(y, k)) /\ y.terms \in Payable[k.at]
    BY <2>1 DEF BoundaryOK
  <2>4. MovedEarlier(x, k).terms = x.terms /\ MovedEarlier(x, k).from = x.from
    BY <1>4, <1>8 DEF MovedEarlier, Row
  <2>5. MovedLater(y, k).terms = y.terms /\ MovedLater(y, k).from = k.at
    BY <2>1 DEF MovedLater, Row
  <2> QED  BY <1>2, <1>4, <1>8, <2>2, <2>3, <2>4, <2>5
<1> QED  BY <1>1, <1>3, <1>5, <1>6, <1>7, <1>8 DEF Accepted

\* Validity and pay of the committed rows survive every step.
LEMMA ValidStep ==
    ASSUME IInv, RowsValid, PayPlanCovers, [Next]_vars
    PROVE  RowsValid' /\ PayPlanCovers'
<1>1. CASE rows' = rows
  BY <1>1 DEF RowsValid, PayPlanCovers
<1>2. ASSUME NEW r \in Reqs, pc[r] = "commit", resp'[r] = "ok" PROVE RowsValid' /\ PayPlanCovers'
  BY <1>2, CommittedRowValid DEF RowsValid, PayPlanCovers, Commits
<1>3. ASSUME NEW r \in Reqs, rows' = [rows EXCEPT ![q[r].id] = Gone] PROVE RowsValid' /\ PayPlanCovers'
  BY <1>3 DEF RowsValid, PayPlanCovers, Live, IInv, TypeOK
<1> QED  BY <1>1, <1>2, <1>3, RowsStep DEF vars

\* Every committed contract ends after it starts, and its pay can be computed on its first day.
LEMMA ValidAlways == Spec => [](RowsValid /\ PayPlanCovers)
<1>1. Init => RowsValid /\ PayPlanCovers
  BY RecordedAssumption DEF Init, RowsValid, PayPlanCovers
<1> QED  BY <1>1, InductiveInvariant, ValidStep, PTL DEF Spec

\* The pay plan has an entry for every contract's terms on the day it starts, whichever of
\* start and terms changed last (validatePayPlanGradeStepCovers).
THEOREM PayIsCovered == Spec => []PayPlanCovers
BY ValidAlways, PTL

---------------------------------------------------------------------------
(* Seams. *)

Covered(R, d) == \E i \in Ids : Live(R[i]) /\ IsActiveOn(R[i], d)

\* An amendment splits the row's days between the predecessor and the successor.
LEMMA AmendCovers ==
    ASSUME NEW k \in Requests, NEW x \in Row, AmendOK(x, k), k.to = Unset, NEW d \in 1..Forever
    PROVE  IsActiveOn(x, d) <=> IsActiveOn(Closed(x, k), d) \/ IsActiveOn(Successor(x, k), d)
<1>1. /\ k.at \in Nat /\ x.from \in Nat /\ x.to \in Nat /\ d \in Nat
      /\ k.at > x.from /\ x.to >= k.at
  BY RequestType, RowType, CalendarAssumption DEF AmendOK, checkAmendSeam, Day, Forever
<1>2. Closed(x, k).from = x.from /\ Closed(x, k).to = k.at - 1
  BY DEF Closed, Row
<1>3. Successor(x, k).from = k.at /\ Successor(x, k).to = x.to
  BY DEF Successor, Opt
<1> QED  BY <1>1, <1>2, <1>3 DEF IsActiveOn

\* A boundary move hands days from one of two adjacent rows to the other.
LEMMA BoundaryCovers ==
    ASSUME NEW k \in Requests, NEW x \in Row, NEW y \in Row, BoundaryOK(x, y, k),
           validPeriod(y), NEW d \in 1..Forever
    PROVE  IsActiveOn(x, d) \/ IsActiveOn(y, d)
           <=> IsActiveOn(MovedEarlier(x, k), d) \/ IsActiveOn(MovedLater(y, k), d)
<1>1. /\ k.at \in Nat /\ x.from \in Nat /\ x.to \in Nat /\ y.from \in Nat /\ y.to \in Nat /\ d \in Nat
      /\ x.from < y.from /\ x.to + 1 = y.from /\ k.at > x.from /\ k.at <= y.to /\ y.from <= y.to
  BY RequestType, RowType, CalendarAssumption DEF BoundaryOK, checkAdjacent, validPeriod, Day, Forever
<1>2. MovedEarlier(x, k).from = x.from /\ MovedEarlier(x, k).to = k.at - 1
  BY DEF MovedEarlier, Row
<1>3. MovedLater(y, k).from = k.at /\ MovedLater(y, k).to = y.to
  BY DEF MovedLater, Row
<1> QED  BY <1>1, <1>2, <1>3 DEF IsActiveOn

\* No day gains or loses its contract by such a commit.
LEMMA SeamStep ==
    ASSUME IInv, RowsValid, [Next]_vars, NEW r \in Reqs, Commits(r),
           q[r].kind = "boundary" \/ (q[r].kind = "amend" /\ q[r].to = Unset)
    PROVE  CoveredDays(rows') = CoveredDays(rows)
<1> DEFINE k == q[r]
           x == rows[k.id]
<1>1. /\ pc[r] = "commit" /\ rows' = View(r) /\ k \in Requests /\ k.id \in Ids /\ k.later \in Ids
      /\ rows \in [Ids -> Slot] /\ k.kind # "create"
  BY CommitPublishes
<1>2. x \in Row /\ Live(x)
  BY <1>1, AddressedRow, RowsAreLive
<1> SUFFICES ASSUME NEW d \in 1..Forever PROVE Covered(rows', d) <=> Covered(rows, d)
  BY DEF CoveredDays, Covered
<1>3. CASE k.kind = "amend"
  <2>1. /\ AmendOK(x, k)
        /\ \E n \in Ids : /\ rows[n] = NoRow
                         /\ rows' = [rows EXCEPT ![k.id] = Closed(x, k), ![n] = Successor(x, k)]
    BY <1>1, <1>3, CommittedTimeline
  <2>2. PICK n \in Ids : /\ rows[n] = NoRow
                         /\ rows' = [rows EXCEPT ![k.id] = Closed(x, k), ![n] = Successor(x, k)]
    BY <2>1
  <2>3. /\ n # k.id /\ ~Live(rows[n])
        /\ rows'[k.id] = Closed(x, k) /\ rows'[n] = Successor(x, k)
        /\ \A i \in Ids \ {k.id, n} : rows'[i] = rows[i]
    BY <1>1, <1>2, <2>2, RowsAreLive DEF Live
  <2>4. Live(Closed(x, k)) /\ Live(Successor(x, k))
    BY <1>1, <1>2, <2>1, AmendedType, RowsAreLive
  <2>5. IsActiveOn(x, d) <=> IsActiveOn(Closed(x, k), d) \/ IsActiveOn(Successor(x, k), d)
    BY <1>1, <1>2, <1>3, <2>1, AmendCovers
  <2>6. Covered(rows, d) <=>
          IsActiveOn(x, d) \/ \E i \in Ids \ {k.id, n} : Live(rows[i]) /\ IsActiveOn(rows[i], d)
    BY <1>1, <1>2, <2>3 DEF Covered
  <2>7. Covered(rows', d) <=>
          \/ IsActiveOn(Closed(x, k), d) \/ IsActiveOn(Successor(x, k), d)
          \/ \E i \in Ids \ {k.id, n} : Live(rows[i]) /\ IsActiveOn(rows[i], d)
    BY <1>1, <2>3, <2>4 DEF Covered
  <2> QED  BY <2>5, <2>6, <2>7
<1>4. CASE k.kind = "boundary"
  <2> DEFINE y == rows[k.later]
  <2>1. /\ k.id # k.later /\ BoundaryOK(x, y, k) /\ rows[k.later] = b[r] /\ b[r] \in Row
        /\ rows' = [rows EXCEPT ![k.id] = MovedEarlier(x, k), ![k.later] = MovedLater(y, k)]
    BY <1>1, <1>4, CommittedTimeline
  <2>2. y \in Row /\ Live(y) /\ validPeriod(y)
    BY <1>1, <2>1, RowsAreLive DEF RowsValid
  <2>3. /\ rows'[k.id] = MovedEarlier(x, k) /\ rows'[k.later] = MovedLater(y, k)
        /\ \A i \in Ids \ {k.id, k.later} : rows'[i] = rows[i]
    BY <1>1, <2>1
  <2>4. Live(MovedEarlier(x, k)) /\ Live(MovedLater(y, k))
    BY <1>1, <1>2, <2>1, <2>2, MovedType, RowsAreLive
  <2>5. IsActiveOn(x, d) \/ IsActiveOn(y, d)
        <=> IsActiveOn(MovedEarlier(x, k), d) \/ IsActiveOn(MovedLater(y, k), d)
    BY <1>1, <1>2, <2>1, <2>2, BoundaryCovers
  <2>6. Covered(rows, d) <=>
          \/ IsActiveOn(x, d) \/ IsActiveOn(y, d)
          \/ \E i \in Ids \ {k.id, k.later} : Live(rows[i]) /\ IsActiveOn(rows[i], d)
    BY <1>1, <1>2, <2>2 DEF Covered
  <2>7. Covered(rows', d) <=>
          \/ IsActiveOn(MovedEarlier(x, k), d) \/ IsActiveOn(MovedLater(y, k), d)
          \/ \E i \in Ids \ {k.id, k.later} : Live(rows[i]) /\ IsActiveOn(rows[i], d)
    BY <1>1, <2>3, <2>4 DEF Covered
  <2> QED  BY <2>5, <2>6, <2>7
<1> QED  BY <1>1, <1>3, <1>4

\* Moving a seam, or amending without an end date, neither opens a gap nor covers a day
\* that had no contract (AmendContract, MoveContractBoundary).
THEOREM SeamsHold == Spec => SeamKeepsCoverage
<1>1. IInv /\ RowsValid /\ [Next]_vars =>
        [\A r \in Reqs :
           Commits(r) /\ (q[r].kind = "boundary" \/ (q[r].kind = "amend" /\ q[r].to = Unset))
              => CoveredDays(rows') = CoveredDays(rows)]_vars
  BY SeamStep
<1> QED  BY <1>1, InductiveInvariant, ValidAlways, PTL DEF Spec, SeamKeepsCoverage
=============================================================================

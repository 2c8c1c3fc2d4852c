--------------------------- MODULE SectionsProofs ---------------------------
(***************************************************************************)
(* Theorems about Sections, for every set of sections, names and requests. *)
(***************************************************************************)
EXTENDS Sections, TLAPS

Codes == {"none", "ok", "notFound", "badRequest", "conflict", "error"}

Types ==
    /\ sec \in [Ids -> Slot]
    /\ assigned \in [Ids -> SUBSET Owners]
    /\ pc \in [Reqs -> {"idle", "done", "checkName", "insert", "save", "lock", "clear", "set",
                        "commit", "checkChildren", "checkEmployees", "delete", "assign"}]
    /\ q \in [Reqs -> Request \cup {NoRequest}]
    /\ old \in [Reqs -> Slot]
    /\ seen \in [Reqs -> SUBSET Ids]
    /\ pend \in [Reqs -> [Ids -> Slot]]
    /\ resp \in [Reqs -> Codes]

\* A request's locals are those its next statement needs.
Accepted(r) ==
    /\ pc[r] # "idle" => q[r] \in Requests
    /\ pc[r] = "insert" => q[r].kind = "create"
    /\ pc[r] = "checkName" /\ q[r].kind # "create" => old[r] \in Section
    /\ pc[r] = "save" => old[r] \in Section
    /\ pc[r] # "done" => resp[r] = "none"

\* Only a promotion between its statements has rows written but not committed;
\* they differ from the committed ones in the default flag alone, and before
\* COMMIT the promoted section is the only default the transaction sees.
Writes(r) ==
    /\ \A i \in Ids : pend[r][i] # NoSection =>
         /\ pc[r] \in {"set", "commit"} /\ Live(sec[i])
         /\ \E d \in BOOLEAN : pend[r][i] = [sec[i] EXCEPT !.isDefault = d]
    /\ pc[r] = "commit" =>
         /\ DefaultIn(pend[r][q[r].id])
         /\ \A j \in Ids : DefaultIn(View(r)[j]) => j = q[r].id

\* The advisory lock has one holder.
OneHolder == \A r, s \in Reqs : Promoting(r) /\ Promoting(s) => r = s

IInv ==
    /\ Types /\ OneHolder /\ AtMostOneDefault /\ NamesUnique
    /\ \A r \in Reqs : Accepted(r) /\ Writes(r)

---------------------------------------------------------------------------
(* What every step keeps of the requests that do not take it. *)

\* A step of r moves r alone.
Moves(r) ==
    \A s \in Reqs \ {r} :
        /\ pc'[s] = pc[s] /\ q'[s] = q[s] /\ old'[s] = old[s]
        /\ pend'[s] = pend[s] /\ resp'[s] = resp[s]

\* A step of r changes no row that another transaction has written, and makes no
\* section the default while another one is about to commit.
Respects(r) ==
    \A i \in Ids :
        /\ sec'[i] # sec[i] => \A s \in Reqs \ {r} : pend[s][i] = NoSection
        /\ DefaultIn(sec'[i]) => DefaultIn(sec[i]) \/ \A s \in Reqs \ {r} : pc[s] # "commit"

\* Rows a request has written exist only between the updates of a promotion.
LEMMA NoWrites ==
    ASSUME IInv, NEW r \in Reqs, pc[r] \notin {"set", "commit"}
    PROVE  /\ \A i \in Ids : pend[r][i] = NoSection
           /\ \A i \in Ids : View(r)[i] = sec[i]
BY DEF IInv, Writes, View

\* A section in a slot is a section.
LEMMA LiveIsSection == ASSUME NEW x \in Slot, Live(x) PROVE x \in Section
BY DEF Live, Slot

\* With the acting request's own facts, a step that moves it alone and respects the
\* others' rows keeps the invariant.
LEMMA StepOK ==
    ASSUME IInv, NEW r \in Reqs, Moves(r), Respects(r), Types',
           Promoting(r)' => Promoting(r) \/ \A s \in Reqs \ {r} : ~Promoting(s),
           AtMostOneDefault', NamesUnique', Accepted(r)', Writes(r)'
    PROVE  IInv'
<1>1. OneHolder'
  BY DEF IInv, OneHolder, Promoting, Moves
<1>2. ASSUME NEW s \in Reqs \ {r} PROVE Accepted(s)' /\ Writes(s)'
  <2>1. /\ pc'[s] = pc[s] /\ q'[s] = q[s] /\ old'[s] = old[s]
        /\ pend'[s] = pend[s] /\ resp'[s] = resp[s]
    BY <1>2 DEF Moves
  <2>2. Accepted(s)'
    BY <2>1 DEF IInv, Accepted
  <2>3. ASSUME NEW i \in Ids, pend'[s][i] # NoSection
        PROVE  /\ pc'[s] \in {"set", "commit"} /\ Live(sec'[i])
               /\ \E d \in BOOLEAN : pend'[s][i] = [sec'[i] EXCEPT !.isDefault = d]
    <3>1. sec'[i] = sec[i]
      BY <1>2, <2>1, <2>3 DEF Respects
    <3>2. /\ pc[s] \in {"set", "commit"} /\ Live(sec[i])
          /\ \E d \in BOOLEAN : pend[s][i] = [sec[i] EXCEPT !.isDefault = d]
      BY <2>1, <2>3 DEF IInv, Writes
    <3> QED  BY <2>1, <3>1, <3>2
  <2>4. ASSUME pc'[s] = "commit"
        PROVE  /\ DefaultIn(pend'[s][q'[s].id])
               /\ \A j \in Ids : DefaultIn(View(s)'[j]) => j = q'[s].id
    <3>1. /\ DefaultIn(pend[s][q[s].id])
          /\ \A j \in Ids : DefaultIn(View(s)[j]) => j = q[s].id
      BY <1>2, <2>1, <2>4 DEF IInv, Writes
    <3>2. ASSUME NEW j \in Ids, DefaultIn(View(s)'[j]) PROVE DefaultIn(View(s)[j])
      <4>1. View(s)[j] = IF pend[s][j] # NoSection THEN pend[s][j] ELSE sec[j]
        BY DEF View
      <4>3. View(s)'[j] = IF pend'[s][j] # NoSection THEN pend'[s][j] ELSE sec'[j]
        BY DEF View
      <4>2. DefaultIn(sec'[j]) => DefaultIn(sec[j])
        BY <1>2, <2>1, <2>4 DEF Respects
      <4> QED  BY <2>1, <3>2, <4>1, <4>3, <4>2
    <3> QED  BY <2>1, <3>1, <3>2
  <2> QED  BY <2>2, <2>3, <2>4 DEF Writes
<1> QED  BY <1>1, <1>2 DEF IInv

\* A step that leaves the committed sections alone.
LEMMA SecKept ==
    ASSUME IInv, NEW r \in Reqs, Moves(r), sec' = sec, Types',
           Promoting(r)' => Promoting(r) \/ \A s \in Reqs \ {r} : ~Promoting(s),
           Accepted(r)', Writes(r)'
    PROVE  IInv'
<1>1. Respects(r)
  BY DEF Respects
<1>2. AtMostOneDefault' /\ NamesUnique'
  BY DEF IInv, AtMostOneDefault, NamesUnique
<1> QED  BY <1>1, <1>2, StepOK

\* Answering releases everything the request has written.
LEMMA AnswerFacts ==
    ASSUME IInv, NEW r \in Reqs, NEW code \in Codes, Answer(r, code)
    PROVE  /\ pc' = [pc EXCEPT ![r] = "done"] /\ pc'[r] = "done"
           /\ \A s \in Reqs \ {r} :
                pc'[s] = pc[s] /\ pend'[s] = pend[s] /\ resp'[s] = resp[s]
           /\ pend' \in [Reqs -> [Ids -> Slot]] /\ resp' \in [Reqs -> Codes]
           /\ Writes(r)' /\ ~Promoting(r)'
<1>1. /\ pc'[r] = "done" /\ pend'[r] = [i \in Ids |-> NoSection]
      /\ \A s \in Reqs \ {r} :
           pc'[s] = pc[s] /\ pend'[s] = pend[s] /\ resp'[s] = resp[s]
      /\ resp' \in [Reqs -> Codes]
  BY DEF Answer, IInv, Types
<1>2. pend' \in [Reqs -> [Ids -> Slot]]
  BY DEF Answer, IInv, Types, Slot
<1>3. Writes(r)' /\ ~Promoting(r)'
  BY <1>1 DEF Writes, Promoting
<1> QED  BY <1>1, <1>2, <1>3 DEF Answer

\* Refusing a request changes nothing that is committed.
LEMMA RejectOK ==
    ASSUME IInv, NEW r \in Reqs, NEW code \in Codes, Reject(r, code),
           q' \in [Reqs -> Request \cup {NoRequest}], old' = old, seen' = seen,
           \A s \in Reqs \ {r} : q'[s] = q[s], q'[r] \in Requests
    PROVE  IInv'
<1>1. /\ pc' = [pc EXCEPT ![r] = "done"] /\ pc'[r] = "done"
      /\ \A s \in Reqs \ {r} :
           pc'[s] = pc[s] /\ pend'[s] = pend[s] /\ resp'[s] = resp[s]
      /\ pend' \in [Reqs -> [Ids -> Slot]] /\ resp' \in [Reqs -> Codes] /\ Writes(r)' /\ ~Promoting(r)'
      /\ sec' = sec /\ assigned' = assigned
  BY AnswerFacts DEF Reject
<1>2. Types'
  BY <1>1 DEF IInv, Types
<1>3. Moves(r)
  BY <1>1 DEF Moves
<1>4. Accepted(r)'
  BY <1>1 DEF Accepted
<1> QED  BY <1>1, <1>2, <1>3, <1>4, SecKept

\* A request goes on to its next statement.
LEMMA ContinueOK ==
    ASSUME IInv, NEW r \in Reqs,
           NEW s \in {"checkName", "insert", "save", "lock", "clear", "checkChildren",
                      "checkEmployees", "delete", "assign"},
           pc[r] \notin {"set", "commit", "done"}, Continue(r, s),
           s = "clear" => \A p \in Reqs : ~Promoting(p),
           q' \in [Reqs -> Request \cup {NoRequest}], old' \in [Reqs -> Slot],
           seen' \in [Reqs -> SUBSET Ids],
           \A p \in Reqs \ {r} : q'[p] = q[p] /\ old'[p] = old[p],
           q'[r] \in Requests, s = "insert" => q'[r].kind = "create",
           (s = "checkName" /\ q'[r].kind # "create") \/ s = "save" => old'[r] \in Section
    PROVE  IInv'
<1>1. /\ pc' = [pc EXCEPT ![r] = s] /\ sec' = sec /\ assigned' = assigned /\ pend' = pend
      /\ pc'[r] = s /\ \A p \in Reqs \ {r} : pc'[p] = pc[p]
      /\ resp' = resp /\ (pc[r] # "done" => resp[r] = "none")
  BY DEF Continue, Goto, IInv, Types, Accepted
<1>2. Types'
  BY <1>1 DEF IInv, Types
<1>3. Moves(r)
  BY <1>1 DEF Moves
<1>4. Accepted(r)'
  BY <1>1 DEF Accepted
<1>5. Writes(r)'
  BY <1>1, NoWrites DEF Writes
<1>6. Promoting(r)' => Promoting(r) \/ \A p \in Reqs \ {r} : ~Promoting(p)
  BY <1>1 DEF Promoting
<1> QED  BY <1>1, <1>2, <1>3, <1>4, <1>5, <1>6, SecKept

---------------------------------------------------------------------------
(* The steps of a request that change no section. *)

\* The first statement of a request of either kind.
LEMMA SendOK == ASSUME IInv, NEW r \in Reqs, Send(r) PROVE IInv'
<1>1. PICK k \in Requests :
        /\ q' = [q EXCEPT ![r] = k]
        /\ Create(r, k) \/ Rename(r, k) \/ PromoteToDefault(r, k) \/ Delete(r, k) \/ Assign(r, k)
  BY DEF Send
<1>2. /\ pc[r] = "idle" /\ seen' = seen /\ seen \in [Reqs -> SUBSET Ids]
      /\ k \in Request /\ k.id \in Ids /\ sec[k.id] \in Slot
  BY RequestAssumption DEF Send, IInv, Types, Request
<1>3. /\ q' \in [Reqs -> Request \cup {NoRequest}] /\ q'[r] = k /\ q'[r] \in Requests
      /\ \A s \in Reqs \ {r} : q'[s] = q[s]
  BY <1>1, <1>2 DEF IInv, Types
<1>4. old \in [Reqs -> Slot]
  BY DEF IInv, Types
<1>5. ASSUME NEW code \in Codes, Reject(r, code), old' = old PROVE IInv'
  BY <1>2, <1>3, <1>5, RejectOK
<1>6. ASSUME NEW s \in {"lock", "checkChildren", "assign"}, Continue(r, s), old' = old
      PROVE  IInv'
  BY <1>2, <1>3, <1>4, <1>6, ContinueOK
<1>7. CASE Create(r, k)
  <2>1. k.kind = "create" /\ Continue(r, "checkName") /\ old' = old
    BY <1>7 DEF Create
  <2> QED  BY <1>2, <1>3, <1>4, <2>1, ContinueOK
<1>8. CASE Rename(r, k)
  <2>1. CASE Live(sec[k.id])
    <3>1. old' = [old EXCEPT ![r] = sec[k.id]] /\ sec[k.id] \in Section
      BY <1>2, <1>8, <2>1, LiveIsSection DEF Rename
    <3>2. old' \in [Reqs -> Slot] /\ old'[r] \in Section /\ \A p \in Reqs \ {r} : old'[p] = old[p]
      BY <1>4, <3>1 DEF Slot
    <3>3. PICK s \in {"save", "checkName"} : Continue(r, s)
      BY <1>8, <2>1 DEF Rename
    <3> QED  BY <1>2, <1>3, <3>2, <3>3, ContinueOK
  <2>2. CASE ~Live(sec[k.id])
    BY <1>5, <1>8, <2>2 DEF Rename, Codes
  <2> QED  BY <2>1, <2>2
<1>9. CASE PromoteToDefault(r, k)
  BY <1>5, <1>6, <1>9 DEF PromoteToDefault, Codes
<1>10. CASE Delete(r, k)
  BY <1>5, <1>6, <1>10 DEF Delete, Codes
<1>11. CASE Assign(r, k)
  BY <1>5, <1>6, <1>11 DEF Assign, Codes
<1> QED  BY <1>1, <1>7, <1>8, <1>9, <1>10, <1>11

\* What holds of the request bodies in flight.
LEMMA InFlight ==
    ASSUME IInv, NEW r \in Reqs, pc[r] # "idle"
    PROVE  /\ q[r] \in Requests /\ q[r].id \in Ids /\ q[r].name \in Names \cup {NoName}
           /\ q[r].kind = "create" => q[r].name \in Names
BY RequestAssumption DEF IInv, Accepted, Request

\* A statement that refuses its request.
LEMMA RefuseOK ==
    ASSUME IInv, NEW r \in Reqs, pc[r] # "idle", NEW code \in Codes, Reject(r, code),
           UNCHANGED <<q, old, seen>>
    PROVE  IInv'
<1>1. q[r] \in Requests /\ q' = q /\ q \in [Reqs -> Request \cup {NoRequest}]
  BY InFlight DEF IInv, Types
<1> QED  BY <1>1, RejectOK

\* The lookup of a name decides nothing that the index does not decide again.
LEMMA CheckNameOK ==
    ASSUME IInv, NEW r \in Reqs, CheckName(r), UNCHANGED <<q, old, seen>> PROVE IInv'
<1>1. pc[r] = "checkName"
  BY DEF CheckName
<1>2. CASE \E code \in Codes : Reject(r, code)
  BY <1>1, <1>2, RefuseOK
<1>3. CASE Continue(r, IF q[r].kind = "create" THEN "insert" ELSE "save")
  <2>1. /\ q' = q /\ old' = old /\ seen' = seen /\ q[r] \in Requests
        /\ q \in [Reqs -> Request \cup {NoRequest}] /\ old \in [Reqs -> Slot]
        /\ seen \in [Reqs -> SUBSET Ids]
        /\ q[r].kind # "create" => old[r] \in Section
    BY <1>1, InFlight DEF IInv, Types, Accepted
  <2>2. CASE q[r].kind = "create"
    <3>1. Continue(r, "insert")
      BY <1>3, <2>2
    <3> QED  BY <1>1, <2>1, <2>2, <3>1, ContinueOK
  <2>3. CASE q[r].kind # "create"
    <3>1. Continue(r, "save")
      BY <1>3, <2>3
    <3> QED  BY <1>1, <2>1, <2>3, <3>1, ContinueOK
  <2> QED  BY <2>2, <2>3
<1> QED  BY <1>2, <1>3 DEF CheckName, Codes

\* Only one promotion gets past the advisory lock.
LEMMA BeginClearOK ==
    ASSUME IInv, NEW r \in Reqs, BeginClear(r), UNCHANGED <<q, old>> PROVE IInv'
<1>1. /\ pc[r] = "lock" /\ Continue(r, "clear") /\ \A s \in Reqs : ~Promoting(s)
      /\ seen' \in [Reqs -> SUBSET Ids]
  BY DEF BeginClear, IInv, Types
<1>2. /\ q' = q /\ old' = old /\ q[r] \in Requests
      /\ q \in [Reqs -> Request \cup {NoRequest}] /\ old \in [Reqs -> Slot]
  BY <1>1, InFlight DEF IInv, Types
<1> QED  BY <1>1, <1>2, ContinueOK

\* The checks before a delete only read.
LEMMA CheckAssignedOK ==
    ASSUME IInv, NEW r \in Reqs, CheckAssigned(r), UNCHANGED <<q, old, seen>> PROVE IInv'
<1>1. pc[r] \in {"checkChildren", "checkEmployees"}
  BY DEF CheckAssigned
<1>2. CASE \E code \in Codes : Reject(r, code)
  BY <1>1, <1>2, RefuseOK
<1>3. CASE \E s \in {"checkEmployees", "delete"} : Continue(r, s)
  <2>1. /\ q' = q /\ old' = old /\ seen' = seen /\ q[r] \in Requests
        /\ q \in [Reqs -> Request \cup {NoRequest}] /\ old \in [Reqs -> Slot]
        /\ seen \in [Reqs -> SUBSET Ids]
    BY <1>1, InFlight DEF IInv, Types
  <2>2. PICK s \in {"checkEmployees", "delete"} : Continue(r, s)
    BY <1>3
  <2> QED  BY <1>1, <2>1, <2>2, ContinueOK
<1> QED  BY <1>2, <1>3 DEF CheckAssigned, Codes

\* Contracts come and go without touching a section.
LEMMA InsertContractOK ==
    ASSUME IInv, NEW r \in Reqs, InsertContract(r), UNCHANGED <<q, old, seen>> PROVE IInv'
<1>1. /\ pc' = [pc EXCEPT ![r] = "done"] /\ pc'[r] = "done"
      /\ \A s \in Reqs \ {r} :
           pc'[s] = pc[s] /\ pend'[s] = pend[s] /\ resp'[s] = resp[s]
      /\ pend' \in [Reqs -> [Ids -> Slot]] /\ resp' \in [Reqs -> Codes] /\ Writes(r)' /\ ~Promoting(r)'
      /\ sec' = sec /\ pc[r] = "assign"
  BY AnswerFacts DEF InsertContract, Codes
<1>2. q[r] \in Requests /\ q[r].owner \in Owners
  BY <1>1, InFlight, RequestAssumption DEF Request
<1>3. assigned' \in [Ids -> SUBSET Owners]
  BY <1>2 DEF InsertContract, IInv, Types
<1>4. Types'
  BY <1>1, <1>3 DEF IInv, Types
<1>5. Moves(r) /\ Accepted(r)'
  BY <1>1, <1>2 DEF Moves, Accepted
<1> QED  BY <1>1, <1>4, <1>5, SecKept

---------------------------------------------------------------------------
(* The steps that write sections. *)

\* Setting the default flag of a section leaves the rest of it.
LEMMA Flagged ==
    ASSUME NEW x \in Section, NEW d \in BOOLEAN
    PROVE  LET y == [x EXCEPT !.isDefault = d]
           IN  y \in Section /\ y.name = x.name /\ y.live = x.live /\ y.isDefault = d
BY DEF Section

\* A row a promotion has written differs from the committed one in the flag alone.
LEMMA Written ==
    ASSUME IInv, NEW r \in Reqs, NEW i \in Ids, pend[r][i] # NoSection
    PROVE  /\ pc[r] \in {"set", "commit"} /\ Live(sec[i]) /\ sec[i] \in Section
           /\ pend[r][i] \in Section /\ Live(pend[r][i]) /\ pend[r][i].name = sec[i].name
<1>1. /\ pc[r] \in {"set", "commit"} /\ Live(sec[i])
      /\ \E d \in BOOLEAN : pend[r][i] = [sec[i] EXCEPT !.isDefault = d]
  BY DEF IInv, Writes
<1>2. sec[i] \in Section
  BY <1>1, LiveIsSection DEF IInv, Types
<1>3. PICK d \in BOOLEAN : pend[r][i] = [sec[i] EXCEPT !.isDefault = d]
  BY <1>1
<1> QED  BY <1>1, <1>2, <1>3, Flagged, SentinelAssumption DEF Live

\* A single statement that commits x in slot i at once.
LEMMA WriteOK ==
    ASSUME IInv, NEW r \in Reqs, NEW i \in Ids, NEW x \in Section, Answer(r, "ok"),
           pc[r] \notin {"idle", "set", "commit"}, Unlocked(r, i),
           sec' = [sec EXCEPT ![i] = x], UNCHANGED <<assigned, q, old, seen>>,
           x.live => ~NameTaken(i, x.name),
           x.live /\ x.isDefault =>
             ~DefaultTaken(r, i) /\ (DefaultIn(sec[i]) \/ ~DefaultPending(r, i))
    PROVE  IInv'
<1>1. /\ pc' = [pc EXCEPT ![r] = "done"] /\ pc'[r] = "done"
      /\ \A s \in Reqs \ {r} :
           pc'[s] = pc[s] /\ pend'[s] = pend[s] /\ resp'[s] = resp[s]
      /\ pend' \in [Reqs -> [Ids -> Slot]] /\ resp' \in [Reqs -> Codes] /\ Writes(r)' /\ ~Promoting(r)'
  BY AnswerFacts DEF Codes
<1>2. /\ sec' \in [Ids -> Slot] /\ sec'[i] = x /\ x # NoSection
      /\ \A j \in Ids \ {i} : sec'[j] = sec[j]
  BY SentinelAssumption DEF IInv, Types, Slot
<1>3. Types'
  BY <1>1, <1>2 DEF IInv, Types
<1>4. Moves(r) /\ Accepted(r)'
  BY <1>1, InFlight DEF Moves, Accepted
<1>5. \A j \in Ids : View(r)[j] = sec[j]
  BY NoWrites
<1>6. AtMostOneDefault'
  BY <1>2, <1>5 DEF IInv, AtMostOneDefault, DefaultIn, Live, DefaultTaken
<1>7. NamesUnique'
  BY <1>2 DEF IInv, NamesUnique, NameTaken, Live
<1>8. Respects(r)
  <2>1. \A j \in Ids : sec'[j] # sec[j] => \A s \in Reqs \ {r} : pend[s][j] = NoSection
    BY <1>2 DEF Unlocked
  <2>2. ASSUME DefaultIn(x), ~DefaultIn(sec[i]), NEW s \in Reqs \ {r}
        PROVE  pc[s] # "commit"
    <3>1. SUFFICES ASSUME pc[s] = "commit" PROVE FALSE
      OBVIOUS
    <3>2. DefaultIn(pend[s][q[s].id]) /\ q[s].id \in Ids
      BY <2>2, <3>1, InFlight DEF IInv, Writes
    <3>3. pend[s][q[s].id] # NoSection /\ q[s].id # i
      BY <2>2, <3>2 DEF DefaultIn, Live, Unlocked
    <3>4. DefaultPending(r, i)
      BY <2>2, <3>2, <3>3 DEF DefaultPending
    <3> QED  BY <2>2, <3>4 DEF DefaultIn, Live
  <2>3. \A j \in Ids :
           DefaultIn(sec'[j]) => DefaultIn(sec[j]) \/ \A s \in Reqs \ {r} : pc[s] # "commit"
    BY <1>2, <2>2
  <2> QED  BY <2>1, <2>3 DEF Respects
<1> QED  BY <1>1, <1>3, <1>4, <1>6, <1>7, <1>8, StepOK

\* An INSERT takes a fresh id and is never the default.
LEMMA InsertSectionOK ==
    ASSUME IInv, NEW r \in Reqs, InsertSection(r), UNCHANGED <<q, old, seen>> PROVE IInv'
<1>1. pc[r] = "insert" /\ q[r].name \in Names
  BY InFlight DEF InsertSection, IInv, Accepted
<1>2. CASE Reject(r, "conflict")
  BY <1>1, <1>2, RefuseOK DEF Codes
<1>3. ASSUME NEW i \in Ids, sec[i] = NoSection, ~NameTaken(i, q[r].name), Answer(r, "ok"),
             sec' = [sec EXCEPT ![i] =
                       [name |-> q[r].name, isDefault |-> FALSE, live |-> TRUE]],
             assigned' = assigned
      PROVE  IInv'
  <2> DEFINE x == [name |-> q[r].name, isDefault |-> FALSE, live |-> TRUE]
  <2>1. x \in Section /\ x.name = q[r].name /\ ~x.isDefault
    BY <1>1 DEF Section
  <2>2. Unlocked(r, i)
    BY <1>3, Written DEF Unlocked, Live
  <2> HIDE DEF x
  <2>3. sec' = [sec EXCEPT ![i] = x]
    BY <1>3 DEF x
  <2> QED  BY <1>1, <1>3, <2>1, <2>2, <2>3, WriteOK
<1> QED  BY <1>2, <1>3 DEF InsertSection

\* Save writes the section as loaded, and both indexes are checked again.
LEMMA SaveSectionOK ==
    ASSUME IInv, NEW r \in Reqs, SaveSection(r), UNCHANGED <<q, old, seen>> PROVE IInv'
<1>1. pc[r] = "save" /\ q[r].id \in Ids /\ old[r] \in Section /\ Unlocked(r, q[r].id)
  BY InFlight DEF SaveSection, IInv, Accepted
<1>2. Saved(r) \in Section
  BY <1>1, InFlight DEF Saved, Section
<1>3. CASE Reject(r, "conflict")
  BY <1>1, <1>3, RefuseOK DEF Codes
<1>4. CASE /\ sec' = [sec EXCEPT ![q[r].id] = Saved(r)] /\ Answer(r, "ok") /\ assigned' = assigned
           /\ ~NameTaken(q[r].id, Saved(r).name)
           /\ Saved(r).isDefault => ~DefaultTaken(r, q[r].id) /\ ~DefaultPending(r, q[r].id)
  BY <1>1, <1>2, <1>4, WriteOK
<1> QED  BY <1>3, <1>4 DEF SaveSection

\* A soft delete looks at nothing and takes a name and a default away.
LEMMA DeleteSectionOK ==
    ASSUME IInv, NEW r \in Reqs, DeleteSection(r), UNCHANGED <<q, old, seen>> PROVE IInv'
<1>1. /\ pc[r] = "delete" /\ q[r].id \in Ids /\ Unlocked(r, q[r].id)
      /\ Answer(r, "ok") /\ assigned' = assigned
  BY InFlight DEF DeleteSection
<1>2. CASE Live(sec[q[r].id])
  <2> DEFINE x == [sec[q[r].id] EXCEPT !.live = FALSE]
  <2>1. sec[q[r].id] \in Section
    BY <1>1, <1>2, LiveIsSection DEF IInv, Types
  <2>2. x \in Section /\ ~x.live
    BY <2>1 DEF Section
  <2>3. sec' = [sec EXCEPT ![q[r].id] = x]
    BY <1>2 DEF DeleteSection
  <2> HIDE DEF x
  <2> QED  BY <1>1, <2>2, <2>3, WriteOK
<1>3. CASE ~Live(sec[q[r].id])
  <2>1. sec' = sec
    BY <1>3 DEF DeleteSection
  <2>2. Reject(r, "ok")
    BY <1>1, <2>1 DEF Reject
  <2> QED  BY <1>1, <2>2, RefuseOK DEF Codes
<1> QED  BY <1>2, <1>3

---------------------------------------------------------------------------
(* The statements of a promotion. *)

\* The clearing UPDATE writes only rows that are the default.
LEMMA ClearDefaultOK ==
    ASSUME IInv, NEW r \in Reqs, ClearDefault(r), UNCHANGED <<q, old, seen>> PROVE IInv'
<1>1. /\ pc[r] = "clear" /\ pc' = [pc EXCEPT ![r] = "set"] /\ pc'[r] = "set"
      /\ UNCHANGED <<sec, assigned, resp>> /\ resp[r] = "none"
      /\ \A s \in Reqs \ {r} : pc'[s] = pc[s] /\ pend'[s] = pend[s]
      /\ pend'[r] = [i \in Ids |-> IF i \in seen[r] /\ DefaultIn(sec[i])
                                   THEN [sec[i] EXCEPT !.isDefault = FALSE] ELSE NoSection]
  BY DEF ClearDefault, Goto, IInv, Types, Accepted
<1>2. ASSUME NEW i \in Ids, DefaultIn(sec[i])
      PROVE  Live(sec[i]) /\ [sec[i] EXCEPT !.isDefault = FALSE] \in Slot
  BY <1>2, LiveIsSection, Flagged DEF DefaultIn, Slot, IInv, Types
<1>3. pend'[r] \in [Ids -> Slot]
  BY <1>1, <1>2 DEF Slot
<1>4. pend' \in [Reqs -> [Ids -> Slot]]
  BY <1>1, <1>3 DEF ClearDefault, IInv, Types
<1>5. Types'
  BY <1>1, <1>4 DEF IInv, Types
<1>6. Moves(r)
  BY <1>1 DEF Moves
<1>7. Accepted(r)'
  BY <1>1, InFlight DEF Accepted
<1>8. Writes(r)'
  <2>1. ASSUME NEW i \in Ids, pend'[r][i] # NoSection
        PROVE  Live(sec[i]) /\ \E d \in BOOLEAN : pend'[r][i] = [sec[i] EXCEPT !.isDefault = d]
    <3>1. DefaultIn(sec[i]) /\ pend'[r][i] = [sec[i] EXCEPT !.isDefault = FALSE]
      BY <1>1, <2>1
    <3> QED  BY <3>1, <1>2
  <2> QED  BY <1>1, <2>1 DEF Writes
<1> QED  BY <1>1, <1>5, <1>6, <1>7, <1>8, SecKept DEF Promoting

\* The second UPDATE finds no other default in what its transaction sees.
LEMMA SetDefaultOK ==
    ASSUME IInv, NEW r \in Reqs, SetDefault(r), UNCHANGED <<q, old, seen>> PROVE IInv'
<1> DEFINE i == q[r].id
           x == [sec[i] EXCEPT !.isDefault = TRUE]
<1>1. pc[r] = "set" /\ i \in Ids /\ resp[r] = "none"
  BY InFlight DEF SetDefault, IInv, Accepted
<1>2. CASE Reject(r, "error")
  BY <1>1, <1>2, RefuseOK DEF Codes
<1>3. CASE /\ Live(sec[i]) /\ ~DefaultTaken(r, i) /\ Goto(r, "commit")
           /\ pend' = [pend EXCEPT ![r][i] = x] /\ UNCHANGED <<sec, assigned>>
  <2>1. x \in Slot /\ DefaultIn(x)
    <3>1. sec[i] \in Section /\ sec[i].live
      BY <1>1, <1>3, LiveIsSection DEF Live, IInv, Types
    <3>2. x \in Section /\ x.isDefault /\ x.live
      BY <3>1, Flagged
    <3> QED  BY <3>2, SentinelAssumption DEF DefaultIn, Live, Slot
  <2>2. /\ pc' = [pc EXCEPT ![r] = "commit"] /\ pc'[r] = "commit" /\ resp' = resp
        /\ \A s \in Reqs \ {r} : pc'[s] = pc[s] /\ pend'[s] = pend[s]
        /\ pend'[r][i] = x /\ \A j \in Ids \ {i} : pend'[r][j] = pend[r][j]
    BY <1>1, <1>3 DEF Goto, IInv, Types
  <2>3. pend' \in [Reqs -> [Ids -> Slot]]
    BY <1>1, <1>3, <2>1 DEF IInv, Types
  <2>4. Types'
    BY <1>3, <2>2, <2>3 DEF IInv, Types
  <2>5. Moves(r)
    BY <2>2 DEF Moves
  <2>6. Accepted(r)'
    BY <1>1, <2>2, InFlight DEF Accepted
  <2>7. ASSUME NEW j \in Ids, pend'[r][j] # NoSection
        PROVE  Live(sec'[j]) /\ \E d \in BOOLEAN : pend'[r][j] = [sec'[j] EXCEPT !.isDefault = d]
    <3>1. CASE j = i
      BY <1>3, <2>2, <3>1
    <3>2. CASE j # i
      <4>1. pend[r][j] # NoSection /\ pend'[r][j] = pend[r][j] /\ sec' = sec
        BY <1>3, <2>2, <2>7, <3>2
      <4>2. Live(sec[j]) /\ \E d \in BOOLEAN : pend[r][j] = [sec[j] EXCEPT !.isDefault = d]
        BY <4>1 DEF IInv, Writes
      <4> QED  BY <4>1, <4>2
    <3> QED  BY <3>1, <3>2
  <2>8. ASSUME NEW j \in Ids, DefaultIn(View(r)'[j]) PROVE j = i
    <3>1. SUFFICES ASSUME j # i PROVE FALSE
      OBVIOUS
    <3>2. View(r)[j] = IF pend[r][j] # NoSection THEN pend[r][j] ELSE sec[j]
      BY DEF View
    <3>3. View(r)'[j] = IF pend'[r][j] # NoSection THEN pend'[r][j] ELSE sec'[j]
      BY DEF View
    <3>4. View(r)'[j] = View(r)[j]
      BY <1>3, <2>2, <3>1, <3>2, <3>3
    <3> QED  BY <1>3, <2>8, <3>1, <3>4 DEF DefaultTaken
  <2>9. Writes(r)'
    BY <2>1, <2>2, <2>7, <2>8 DEF Writes
  <2> QED  BY <1>1, <1>3, <2>4, <2>5, <2>6, <2>9, SecKept DEF Promoting
<1> QED  BY <1>2, <1>3 DEF SetDefault

\* COMMIT makes the promoted section the only default, and touches no name.
LEMMA CommitPromotionOK ==
    ASSUME IInv, NEW r \in Reqs, CommitPromotion(r), UNCHANGED <<q, old, seen>> PROVE IInv'
<1>1. /\ pc[r] = "commit" /\ sec' = View(r) /\ assigned' = assigned /\ Answer(r, "ok")
      /\ q[r] \in Requests
  BY InFlight DEF CommitPromotion
<1>2. /\ pc' = [pc EXCEPT ![r] = "done"] /\ pc'[r] = "done"
      /\ \A s \in Reqs \ {r} :
           pc'[s] = pc[s] /\ pend'[s] = pend[s] /\ resp'[s] = resp[s]
      /\ pend' \in [Reqs -> [Ids -> Slot]] /\ resp' \in [Reqs -> Codes] /\ Writes(r)' /\ ~Promoting(r)'
  BY <1>1, AnswerFacts DEF Codes
<1>3. /\ sec' \in [Ids -> Slot]
      /\ \A i \in Ids : sec'[i] = IF pend[r][i] # NoSection THEN pend[r][i] ELSE sec[i]
  BY <1>1 DEF View, IInv, Types
<1>4. Types'
  BY <1>1, <1>2, <1>3 DEF IInv, Types
<1>5. Moves(r) /\ Accepted(r)'
  BY <1>1, <1>2 DEF Moves, Accepted
<1>6. \A i \in Ids : DefaultIn(sec'[i]) => i = q[r].id
  BY <1>1 DEF IInv, Writes
<1>7. \A i \in Ids : Live(sec'[i]) => Live(sec[i]) /\ sec'[i].name = sec[i].name
  BY <1>3, Written
<1>8. AtMostOneDefault' /\ NamesUnique'
  BY <1>6, <1>7 DEF IInv, AtMostOneDefault, NamesUnique
<1>9. \A s \in Reqs \ {r} : pc[s] \notin {"set", "commit"}
  BY <1>1 DEF IInv, OneHolder, Promoting
<1>10. Respects(r)
  BY <1>9, NoWrites DEF Respects
<1> QED  BY <1>2, <1>4, <1>5, <1>8, <1>10, StepOK

\* A request that Postgres aborts leaves nothing behind.
LEMMA DeadlockVictimOK ==
    ASSUME IInv, NEW r \in Reqs, DeadlockVictim(r), UNCHANGED <<q, old, seen>> PROVE IInv'
<1>1. pc[r] # "idle" /\ Reject(r, "error")
  BY DEF DeadlockVictim
<1> QED  BY <1>1, RefuseOK DEF Codes

---------------------------------------------------------------------------
(* The whole. *)

\* An organization starts from a table its indexes allow, with no request under way.
LEMMA InitOK == Init => IInv
<1> SUFFICES ASSUME Init PROVE IInv
  OBVIOUS
<1>1. Types
  BY OrganizationsAssumption DEF Init, Types, Slot, Codes
<1>2. AtMostOneDefault /\ NamesUnique
  BY OrganizationsAssumption DEF Init, AtMostOneDefault, NamesUnique
<1>3. OneHolder /\ \A r \in Reqs : Accepted(r) /\ Writes(r)
  BY DEF Init, OneHolder, Promoting, Accepted, Writes
<1> QED  BY <1>1, <1>2, <1>3 DEF IInv

\* A step of one request keeps the invariant.
LEMMA ServeOK == ASSUME IInv, NEW r \in Reqs, Serve(r) PROVE IInv'
BY BeginClearOK, CheckNameOK, InsertSectionOK, SaveSectionOK, ClearDefaultOK, SetDefaultOK,
   CommitPromotionOK, DeadlockVictimOK, CheckAssignedOK, DeleteSectionOK, InsertContractOK
   DEF Serve

\* Every step keeps the invariant.
LEMMA NextOK == IInv /\ [Next]_vars => IInv'
<1> SUFFICES ASSUME IInv, [Next]_vars PROVE IInv'
  OBVIOUS
<1>1. ASSUME NEW r \in Reqs, Send(r) \/ Serve(r) PROVE IInv'
  BY <1>1, SendOK, ServeOK
<1>2. CASE UNCHANGED <<sec, pc, q, old, seen, pend, resp>> /\ assigned' \in [Ids -> SUBSET Owners]
  <2>1. Types'
    BY <1>2 DEF IInv, Types
  <2>2. OneHolder' /\ AtMostOneDefault' /\ NamesUnique'
    BY <1>2 DEF IInv, OneHolder, Promoting, AtMostOneDefault, NamesUnique
  <2>3. ASSUME NEW r \in Reqs PROVE Accepted(r)' /\ Writes(r)'
    BY <1>2 DEF IInv, Accepted, Writes, View
  <2> QED  BY <2>1, <2>2, <2>3 DEF IInv
<1>3. CASE ContractsEnd
  <2>1. assigned' \in [Ids -> SUBSET Owners]
    BY <1>3 DEF ContractsEnd, IInv, Types
  <2> QED  BY <1>2, <1>3, <2>1 DEF ContractsEnd
<1>4. CASE Finished \/ UNCHANGED vars
  BY <1>2, <1>4 DEF Finished, vars, IInv, Types
<1> QED  BY <1>1, <1>3, <1>4 DEF Next

\* What every reachable state of the section table and of its requests satisfies.
THEOREM InductiveInvariant == Spec => []IInv
BY InitOK, NextOK, PTL DEF Spec

\* Tables and locals keep their types, and only a promotion holds rows, which have
\* not changed under it.
THEOREM TypeCorrect == Spec => []TypeOK
<1>1. IInv => TypeOK
  BY DEF IInv, Types, Writes, TypeOK
<1> QED  BY <1>1, InductiveInvariant, PTL

\* At most one live section is the default, whatever renames write back.
THEOREM OneDefault == Spec => []AtMostOneDefault
BY InductiveInvariant, PTL DEF IInv

\* No two live sections have names that are equal up to case.
THEOREM UniqueNames == Spec => []NamesUnique
BY InductiveInvariant, PTL DEF IInv

\* A statement of one request answers no other.
LEMMA AnswersItself ==
    ASSUME NEW s \in Reqs, NEW r \in Reqs \ {s}, Send(s) \/ Serve(s)
    PROVE  resp'[r] = resp[r]
<1>1. ASSUME NEW code, Answer(s, code) PROVE resp'[r] = resp[r]
  BY <1>1 DEF Answer
<1>2. ASSUME NEW label, Goto(s, label) PROVE resp'[r] = resp[r]
  BY <1>2 DEF Goto
<1>3. CASE Send(s)
  BY <1>1, <1>2, <1>3 DEF Send, Create, Rename, PromoteToDefault, Delete, Assign, Reject, Continue
<1>4. CASE BeginClear(s) \/ CheckName(s) \/ CheckAssigned(s)
  BY <1>1, <1>2, <1>4 DEF BeginClear, CheckName, CheckAssigned, Reject, Continue
<1>5. CASE InsertSection(s) \/ SaveSection(s) \/ DeleteSection(s) \/ InsertContract(s)
  BY <1>1, <1>5 DEF InsertSection, SaveSection, DeleteSection, InsertContract, Reject
<1>6. CASE ClearDefault(s) \/ SetDefault(s)
  BY <1>1, <1>2, <1>6 DEF ClearDefault, SetDefault, Reject
<1>7. CASE CommitPromotion(s) \/ DeadlockVictim(s)
  BY <1>1, <1>7 DEF CommitPromotion, DeadlockVictim, Reject
<1> QED  BY <1>3, <1>4, <1>5, <1>6, <1>7 DEF Serve

\* A request at its COMMIT can do nothing else.
LEMMA CommitsNext ==
    ASSUME IInv, NEW r \in Reqs, pc[r] = "commit", Send(r) \/ Serve(r)
    PROVE  CommitPromotion(r)
<1>1. ~Send(r)
  BY DEF Send
<1>2. ~BeginClear(r) /\ ~CheckName(r) /\ ~InsertSection(r) /\ ~SaveSection(r) /\ ~ClearDefault(r)
  BY DEF BeginClear, CheckName, InsertSection, SaveSection, ClearDefault
<1>3. ~SetDefault(r) /\ ~DeadlockVictim(r) /\ ~CheckAssigned(r) /\ ~DeleteSection(r) /\ ~InsertContract(r)
  BY DEF SetDefault, DeadlockVictim, CheckAssigned, DeleteSection, InsertContract
<1> QED  BY <1>1, <1>2, <1>3 DEF Serve

\* An acknowledged promotion has made its section the only default at its commit.
THEOREM PromotionSticks == Spec => PromoteTakesEffect
<1>1. ASSUME IInv, [Next]_vars, NEW r \in Reqs, pc[r] = "commit", resp'[r] = "ok",
             NEW i \in Ids
      PROVE  DefaultIn(sec'[i]) <=> i = q[r].id
  <2>1. resp[r] = "none"
    BY <1>1 DEF IInv, Accepted
  <2>2. CommitPromotion(r)
    <3>1. CASE \E s \in Reqs : Send(s) \/ Serve(s)
      <4>1. PICK s \in Reqs : Send(s) \/ Serve(s)
        BY <3>1
      <4>2. s = r
        BY <1>1, <2>1, <4>1, AnswersItself
      <4> QED  BY <1>1, <4>1, <4>2, CommitsNext
    <3>2. CASE ContractsEnd \/ Finished \/ UNCHANGED vars
      BY <1>1, <2>1, <3>2 DEF ContractsEnd, Finished, vars
    <3> QED  BY <1>1, <3>1, <3>2 DEF Next
  <2>3. /\ sec' = View(r) /\ DefaultIn(pend[r][q[r].id]) /\ q[r].id \in Ids
        /\ DefaultIn(View(r)[i]) => i = q[r].id
    BY <1>1, <2>2, InFlight DEF CommitPromotion, IInv, Writes
  <2>4. pend[r][q[r].id] # NoSection
    BY <2>3 DEF DefaultIn, Live
  <2>5. View(r)[q[r].id] = pend[r][q[r].id]
    BY <2>3, <2>4 DEF View
  <2> QED  BY <2>3, <2>5
<1>2. IInv /\ [Next]_vars =>
        [\A r \in Reqs : pc[r] = "commit" /\ resp'[r] = "ok" =>
           \A i \in Ids : DefaultIn(sec'[i]) <=> i = q[r].id]_vars
  BY <1>1
<1> QED  BY <1>2, InductiveInvariant, PTL DEF Spec, PromoteTakesEffect

---------------------------------------------------------------------------
(* What promotions promise: they do not make each other fail, and an organization keeps
   its default unless a rename or a delete races with one. *)

Sent(r) == q[r] # NoRequest

Disturbed == \E s \in Reqs : Sent(s) /\ q[s].kind \in {"rename", "delete"}
Promoted == \E s \in Reqs : Sent(s) /\ q[s].kind = "promote"

\* The statements of each kind of request.
Kinds(r) ==
    /\ pc[r] = "idle" <=> q[r] = NoRequest
    /\ pc[r] = "insert" => q[r].kind = "create"
    /\ pc[r] = "checkName" => q[r].kind \in {"create", "rename"}
    /\ pc[r] = "save" => q[r].kind = "rename"
    /\ pc[r] \in {"lock", "clear", "set", "commit"} => q[r].kind = "promote"
    /\ pc[r] \in {"checkChildren", "checkEmployees", "delete"} => q[r].kind = "delete"

\* Without renames and deletes a promotion finds its section, clears every default there
\* is, and sees none before it sets its own: it does not fail.
Succeeding(r) ==
    /\ pc[r] \in {"lock", "clear", "set"} => Live(sec[q[r].id])
    /\ pc[r] = "clear" => \A i \in Ids : DefaultIn(sec[i]) => i \in seen[r]
    /\ pc[r] = "set" => \A i \in Ids : ~DefaultIn(View(r)[i])
    /\ pc[r] = "done" /\ q[r].kind = "promote" => resp[r] # "error"

\* Without promotions no flag changes: what a rename has loaded is still so, and what a
\* delete has checked is still no default.
Flags(r) ==
    /\ pc[r] \in {"checkName", "save"} /\ q[r].kind = "rename" =>
         /\ sec[q[r].id] # NoSection
         /\ old[r].live /\ old[r].isDefault = sec[q[r].id].isDefault
    /\ pc[r] \in {"checkChildren", "checkEmployees", "delete"} =>
         sec[q[r].id] # NoSection /\ ~sec[q[r].id].isDefault

HasDefault == \E i \in Ids : DefaultIn(sec[i])

AnsweredChange == \E s \in Reqs : Sent(s) /\ q[s].kind \in {"rename", "delete"} /\ resp[s] = "ok"

JInv ==
    /\ \A r \in Reqs : Kinds(r)
    /\ ~Disturbed => \A r \in Reqs : Succeeding(r)
    /\ ~Promoted => \A r \in Reqs : Flags(r)
    /\ HasDefault \/ (AnsweredChange /\ Promoted)

---------------------------------------------------------------------------
(* What a step may do. *)

\* A step of s moves s alone.
LEMMA StepMoves ==
    ASSUME IInv, NEW s \in Reqs, Send(s) \/ Serve(s)
    PROVE  Moves(s) /\ \A r \in Reqs \ {s} : seen'[r] = seen[r]
<1>1. ASSUME NEW code, Answer(s, code)
      PROVE  \A r \in Reqs \ {s} : pc'[r] = pc[r] /\ pend'[r] = pend[r] /\ resp'[r] = resp[r]
  BY <1>1 DEF Answer
<1>2. ASSUME NEW label, Goto(s, label)
      PROVE  \A r \in Reqs \ {s} : pc'[r] = pc[r] /\ resp'[r] = resp[r]
  BY <1>2 DEF Goto
<1>3. ASSUME NEW code, Reject(s, code)
      PROVE  \A r \in Reqs \ {s} : pc'[r] = pc[r] /\ pend'[r] = pend[r] /\ resp'[r] = resp[r]
  BY <1>1, <1>3 DEF Reject
<1>4. ASSUME NEW label, Continue(s, label)
      PROVE  \A r \in Reqs \ {s} : pc'[r] = pc[r] /\ pend'[r] = pend[r] /\ resp'[r] = resp[r]
  BY <1>2, <1>4 DEF Continue
<1>5. CASE Send(s)
  <2>1. PICK k \in Requests :
          /\ q' = [q EXCEPT ![s] = k]
          /\ Create(s, k) \/ Rename(s, k) \/ PromoteToDefault(s, k) \/ Delete(s, k) \/ Assign(s, k)
    BY <1>5 DEF Send
  <2>2. \A r \in Reqs \ {s} : q'[r] = q[r] /\ seen'[r] = seen[r]
    BY <1>5, <2>1 DEF Send, IInv, Types
  <2>3. \A r \in Reqs \ {s} : old'[r] = old[r]
    BY <2>1 DEF Create, Rename, PromoteToDefault, Delete, Assign, IInv, Types
  <2>4. \/ \E code : Reject(s, code)
        \/ \E label : Continue(s, label)
    BY <2>1 DEF Create, Rename, PromoteToDefault, Delete, Assign
  <2> QED  BY <1>3, <1>4, <2>2, <2>3, <2>4 DEF Moves
<1>6. CASE BeginClear(s) /\ UNCHANGED <<q, old>>
  BY <1>4, <1>6 DEF BeginClear, Moves, IInv, Types
<1>7. CASE (CheckName(s) \/ CheckAssigned(s)) /\ UNCHANGED <<q, old, seen>>
  BY <1>3, <1>4, <1>7 DEF CheckName, CheckAssigned, Moves
<1>8. CASE (InsertSection(s) \/ SaveSection(s) \/ DeleteSection(s) \/ InsertContract(s)) /\ UNCHANGED <<q, old, seen>>
  BY <1>1, <1>3, <1>8 DEF InsertSection, SaveSection, DeleteSection, InsertContract, Moves
<1>9. CASE ClearDefault(s) /\ UNCHANGED <<q, old, seen>>
  BY <1>2, <1>9 DEF ClearDefault, Moves, IInv, Types
<1>10. CASE SetDefault(s) /\ UNCHANGED <<q, old, seen>>
  BY <1>2, <1>3, <1>10 DEF SetDefault, Moves, IInv, Types
<1>11. CASE (CommitPromotion(s) \/ DeadlockVictim(s)) /\ UNCHANGED <<q, old, seen>>
  BY <1>1, <1>3, <1>11 DEF CommitPromotion, DeadlockVictim, Moves
<1> QED  BY <1>5, <1>6, <1>7, <1>8, <1>9, <1>10, <1>11 DEF Serve

\* What a step makes of the sections.
SecStep(s) ==
    \/ sec' = sec
    \/ /\ pc[s] = "insert"
       /\ \E i \in Ids : /\ sec[i] = NoSection
                         /\ sec' = [sec EXCEPT ![i] =
                                      [name |-> q[s].name, isDefault |-> FALSE, live |-> TRUE]]
    \/ /\ pc[s] = "save" /\ resp'[s] = "ok" /\ sec' = [sec EXCEPT ![q[s].id] = Saved(s)]
    \/ /\ pc[s] = "delete" /\ resp'[s] = "ok" /\ sec' = [sec EXCEPT ![q[s].id].live = FALSE]
    \/ CommitPromotion(s)

\* The steps of a section's requests, each of one of the forms of SecStep.
LEMMA SecSteps ==
    ASSUME IInv, NEW s \in Reqs, Send(s) \/ Serve(s)
    PROVE  SecStep(s)
<1>1. CASE Send(s)
  BY <1>1 DEF Send, Create, Rename, PromoteToDefault, Delete, Assign, Reject, Continue, SecStep
<1>2. CASE InsertSection(s)
  BY <1>2 DEF InsertSection, Reject, SecStep
<1>3. ASSUME Answer(s, "ok") PROVE resp'[s] = "ok"
  BY <1>3 DEF Answer, IInv, Types
<1>4. CASE SaveSection(s) \/ DeleteSection(s)
  BY <1>3, <1>4 DEF SaveSection, DeleteSection, Reject, SecStep
<1>5. CASE BeginClear(s) \/ CheckName(s) \/ CheckAssigned(s) \/ ClearDefault(s) \/ SetDefault(s)
           \/ DeadlockVictim(s) \/ InsertContract(s)
  BY <1>5 DEF BeginClear, CheckName, CheckAssigned, ClearDefault, SetDefault, DeadlockVictim,
              InsertContract, Reject, Continue, SecStep
<1>6. CASE CommitPromotion(s)
  BY <1>6 DEF SecStep
<1> QED  BY <1>1, <1>2, <1>4, <1>5, <1>6 DEF Serve

\* An answered request takes no step, and keeps its body and its answer.
LEMMA AnsweredStays ==
    ASSUME IInv, NEW s \in Reqs, Send(s) \/ Serve(s), NEW r \in Reqs, pc[r] = "done"
    PROVE  r # s /\ pc'[r] = "done" /\ q'[r] = q[r] /\ resp'[r] = resp[r]
<1>1. pc[s] # "done"
  BY DEF Send, Serve, BeginClear, CheckName, InsertSection, SaveSection, ClearDefault, SetDefault,
         CommitPromotion, DeadlockVictim, CheckAssigned, DeleteSection, InsertContract
<1> QED  BY <1>1, StepMoves DEF Moves

\* The statement a served request goes on to.
LEMMA ServeMoves ==
    ASSUME IInv, NEW s \in Reqs, Serve(s)
    PROVE  /\ q' = q /\ old' = old /\ pc[s] \notin {"idle", "done"}
           /\ \/ pc'[s] = "done"
              \/ pc[s] = "checkName" /\ q[s].kind = "create" /\ pc'[s] = "insert"
              \/ pc[s] = "checkName" /\ q[s].kind # "create" /\ pc'[s] = "save"
              \/ pc[s] = "lock" /\ pc'[s] = "clear" /\ BeginClear(s)
              \/ pc[s] = "clear" /\ pc'[s] = "set" /\ ClearDefault(s)
              \/ pc[s] = "set" /\ pc'[s] = "commit" /\ sec' = sec
              \/ pc[s] = "checkChildren" /\ pc'[s] = "checkEmployees"
              \/ pc[s] = "checkEmployees" /\ pc'[s] = "delete"
<1>1. ASSUME NEW code, Reject(s, code) \/ Answer(s, code) PROVE pc'[s] = "done"
  BY <1>1 DEF Reject, Answer, IInv, Types
<1>2. ASSUME NEW label, Goto(s, label) \/ Continue(s, label) PROVE pc'[s] = label
  BY <1>2 DEF Continue, Goto, IInv, Types
<1>3. CASE BeginClear(s) /\ UNCHANGED <<q, old>>
  BY <1>2, <1>3 DEF BeginClear
<1>4. CASE CheckName(s) /\ UNCHANGED <<q, old, seen>>
  BY <1>1, <1>2, <1>4 DEF CheckName
<1>5. CASE CheckAssigned(s) /\ UNCHANGED <<q, old, seen>>
  BY <1>1, <1>2, <1>5 DEF CheckAssigned
<1>6. CASE /\ \/ InsertSection(s) \/ SaveSection(s) \/ DeleteSection(s) \/ InsertContract(s)
              \/ CommitPromotion(s)
           /\ UNCHANGED <<q, old, seen>>
  BY <1>1, <1>6 DEF InsertSection, SaveSection, DeleteSection, InsertContract, CommitPromotion
<1>7. CASE ClearDefault(s) /\ UNCHANGED <<q, old, seen>>
  BY <1>2, <1>7 DEF ClearDefault
<1>8. CASE SetDefault(s) /\ UNCHANGED <<q, old, seen>>
  BY <1>1, <1>2, <1>8 DEF SetDefault
<1>9. CASE DeadlockVictim(s) /\ UNCHANGED <<q, old, seen>>
  BY <1>1, <1>9 DEF DeadlockVictim
<1> QED  BY <1>3, <1>4, <1>5, <1>6, <1>7, <1>8, <1>9 DEF Serve

\* The first statement of a request, by its kind.
LEMMA SendMoves ==
    ASSUME IInv, NEW s \in Reqs, Send(s)
    PROVE  /\ pc[s] = "idle" /\ sec' = sec
           /\ q'[s] \in Requests /\ q'[s] # NoRequest /\ q'[s].id \in Ids
           /\ \/ pc'[s] = "done" /\ resp'[s] # "error"
              \/ q'[s].kind = "create" /\ pc'[s] = "checkName"
              \/ /\ q'[s].kind = "rename" /\ pc'[s] \in {"checkName", "save"}
                 /\ Live(sec[q'[s].id]) /\ old'[s] = sec[q'[s].id]
              \/ q'[s].kind = "promote" /\ pc'[s] = "lock" /\ Live(sec[q'[s].id])
              \/ /\ q'[s].kind = "delete" /\ pc'[s] = "checkChildren"
                 /\ Live(sec[q'[s].id]) /\ ~sec[q'[s].id].isDefault
              \/ q'[s].kind = "assign" /\ pc'[s] = "assign"
<1>1. PICK k \in Requests :
        /\ q' = [q EXCEPT ![s] = k]
        /\ Create(s, k) \/ Rename(s, k) \/ PromoteToDefault(s, k) \/ Delete(s, k) \/ Assign(s, k)
  BY DEF Send
<1>2. /\ pc[s] = "idle" /\ q'[s] = k /\ k \in Request /\ k # NoRequest /\ k.id \in Ids
  BY <1>1, RequestAssumption, SentinelAssumption DEF Send, IInv, Types, Request
<1>3. ASSUME NEW code, Reject(s, code) PROVE pc'[s] = "done" /\ sec' = sec /\ resp'[s] = code
  BY <1>3 DEF Reject, Answer, IInv, Types
<1>4. ASSUME NEW label, Continue(s, label) PROVE pc'[s] = label /\ sec' = sec
  BY <1>4 DEF Continue, Goto, IInv, Types
<1>5. CASE Create(s, k)
  BY <1>2, <1>4, <1>5 DEF Create
<1>6. CASE Rename(s, k)
  <2>1. CASE ~Live(sec[k.id])
    BY <1>2, <1>3, <1>6, <2>1 DEF Rename
  <2>2. CASE Live(sec[k.id])
    <3>1. old'[s] = sec[k.id]
      BY <1>6, <2>2 DEF Rename, IInv, Types
    <3>2. PICK label \in {"save", "checkName"} : Continue(s, label)
      BY <1>6, <2>2 DEF Rename
    <3> QED  BY <1>2, <1>4, <1>6, <2>2, <3>1, <3>2 DEF Rename
  <2> QED  BY <2>1, <2>2
<1>7. CASE PromoteToDefault(s, k)
  BY <1>2, <1>3, <1>4, <1>7 DEF PromoteToDefault
<1>8. CASE Delete(s, k)
  BY <1>2, <1>3, <1>4, <1>8 DEF Delete
<1>9. CASE Assign(s, k)
  BY <1>2, <1>3, <1>4, <1>9 DEF Assign
<1> QED  BY <1>1, <1>5, <1>6, <1>7, <1>8, <1>9

\* Statements stay with their kind of request.
LEMMA KindsStep ==
    ASSUME IInv, \A r \in Reqs : Kinds(r), NEW s \in Reqs, Send(s) \/ Serve(s)
    PROVE  \A r \in Reqs : Kinds(r)'
<1>1. ASSUME NEW r \in Reqs \ {s} PROVE Kinds(r)'
  BY StepMoves DEF Moves, Kinds
<1>2. Kinds(s)
  OBVIOUS
<1>3. ASSUME Send(s) PROVE Kinds(s)'
  <2>1. q'[s] # NoRequest
    BY <1>3, SendMoves
  <2>2. \/ pc'[s] = "done"
        \/ q'[s].kind = "create" /\ pc'[s] = "checkName"
        \/ q'[s].kind = "rename" /\ pc'[s] \in {"checkName", "save"}
        \/ q'[s].kind = "promote" /\ pc'[s] = "lock"
        \/ q'[s].kind = "delete" /\ pc'[s] = "checkChildren"
        \/ q'[s].kind = "assign" /\ pc'[s] = "assign"
    BY <1>3, SendMoves
  <2> QED  BY <2>1, <2>2 DEF Kinds
<1>4. ASSUME Serve(s) PROVE Kinds(s)'
  <2>1. q'[s] = q[s] /\ pc[s] # "idle"
    BY <1>4, ServeMoves
  <2>2. \/ pc'[s] = "done"
        \/ pc[s] = "checkName" /\ q[s].kind = "create" /\ pc'[s] = "insert"
        \/ pc[s] = "checkName" /\ q[s].kind # "create" /\ pc'[s] = "save"
        \/ pc[s] \in {"lock", "clear", "set"} /\ pc'[s] \in {"clear", "set", "commit"}
        \/ pc[s] \in {"checkChildren", "checkEmployees"} /\ pc'[s] \in {"checkEmployees", "delete"}
    BY <1>4, ServeMoves
  <2> QED  BY <1>2, <2>1, <2>2 DEF Kinds
<1> QED  BY <1>1, <1>3, <1>4

\* No request is forgotten.
LEMMA SentStays ==
    ASSUME IInv, \A r \in Reqs : Kinds(r), NEW s \in Reqs, Send(s) \/ Serve(s)
    PROVE  /\ \A r \in Reqs : Sent(r) => q'[r] = q[r]
           /\ Disturbed => Disturbed'
           /\ Promoted => Promoted'
<1>1. ASSUME NEW r \in Reqs, Sent(r) PROVE q'[r] = q[r]
  <2>1. CASE r # s
    BY <2>1, StepMoves DEF Moves
  <2>2. CASE r = s
    BY <1>1, <2>2, SendMoves, ServeMoves DEF Kinds, Sent
  <2> QED  BY <2>1, <2>2
<1> QED  BY <1>1 DEF Disturbed, Promoted, Sent

---------------------------------------------------------------------------
(* Without renames and deletes. *)

\* Only a commit changes a row there is; an insert adds one that is no default.
LEMMA CalmSections ==
    ASSUME IInv, \A r \in Reqs : Kinds(r), NEW s \in Reqs, Send(s) \/ Serve(s), ~Disturbed'
    PROVE  \/ CommitPromotion(s)
           \/ \A i \in Ids : \/ sec'[i] = sec[i]
                             \/ sec[i] = NoSection /\ ~DefaultIn(sec'[i])
<1>1. pc[s] \notin {"save", "delete"}
  BY SentStays DEF Kinds, Disturbed, Sent
<1>2. ASSUME NEW j \in Ids, sec[j] = NoSection,
             sec' = [sec EXCEPT ![j] = [name |-> q[s].name, isDefault |-> FALSE, live |-> TRUE]]
      PROVE  \A i \in Ids : sec'[i] = sec[i] \/ (sec[i] = NoSection /\ ~DefaultIn(sec'[i]))
  BY <1>2 DEF DefaultIn, IInv, Types
<1> QED  BY <1>1, <1>2, SecSteps DEF SecStep

\* A section that is live stays so, and one that is no default stays so except at a commit.
LEMMA CalmLive ==
    ASSUME IInv, \A r \in Reqs : Kinds(r), NEW s \in Reqs, Send(s) \/ Serve(s), ~Disturbed',
           NEW i \in Ids
    PROVE  /\ Live(sec[i]) => Live(sec'[i])
           /\ ~CommitPromotion(s) /\ DefaultIn(sec'[i]) => sec'[i] = sec[i]
<1>1. CASE CommitPromotion(s)
  <2>1. sec'[i] = IF pend[s][i] # NoSection THEN pend[s][i] ELSE sec[i]
    BY <1>1 DEF CommitPromotion, View
  <2> QED  BY <1>1, <2>1, Written
<1>2. CASE ~CommitPromotion(s)
  BY <1>2, CalmSections DEF Live
<1> QED  BY <1>1, <1>2

\* The statements that answer with an error.
LEMMA Errors ==
    ASSUME IInv, NEW s \in Reqs, Serve(s), resp'[s] = "error"
    PROVE  \/ DeadlockVictim(s)
           \/ pc[s] = "set" /\ (~Live(sec[q[s].id]) \/ DefaultTaken(s, q[s].id))
<1>1. ASSUME NEW code, Reject(s, code) \/ Answer(s, code) PROVE resp'[s] = code
  BY <1>1 DEF Reject, Answer, IInv, Types
<1>2. ASSUME NEW label, Goto(s, label) \/ Continue(s, label) PROVE resp'[s] = "none"
  BY <1>2, ServeMoves DEF Continue, Goto, IInv, Accepted
<1>3. ~BeginClear(s) /\ ~CheckName(s) /\ ~ClearDefault(s) /\ ~CheckAssigned(s)
  BY <1>1, <1>2 DEF BeginClear, CheckName, ClearDefault, CheckAssigned
<1>4. ~InsertSection(s) /\ ~SaveSection(s) /\ ~DeleteSection(s) /\ ~InsertContract(s)
      /\ ~CommitPromotion(s)
  BY <1>1 DEF InsertSection, SaveSection, DeleteSection, InsertContract, CommitPromotion
<1>5. CASE SetDefault(s)
  BY <1>2, <1>5 DEF SetDefault
<1> QED  BY <1>3, <1>4, <1>5 DEF Serve

\* A statement that takes no part in a promotion does not disturb it.
LEMMA OthersSucceed ==
    ASSUME IInv, \A r \in Reqs : Kinds(r), NEW s \in Reqs, Send(s) \/ Serve(s), ~Disturbed',
           NEW r \in Reqs \ {s}, Succeeding(r)
    PROVE  Succeeding(r)'
<1>1. /\ pc'[r] = pc[r] /\ q'[r] = q[r] /\ pend'[r] = pend[r] /\ resp'[r] = resp[r]
      /\ seen'[r] = seen[r]
  BY StepMoves DEF Moves
<1>2. ASSUME pc[r] \in {"clear", "set"} PROVE ~CommitPromotion(s)
  BY <1>2 DEF CommitPromotion, IInv, OneHolder, Promoting
<1>3. pc[r] \in {"lock", "clear", "set"} => Live(sec'[q[r].id])
  BY InFlight, CalmLive DEF Succeeding
<1>4. pc[r] = "clear" => \A i \in Ids : DefaultIn(sec'[i]) => i \in seen[r]
  BY <1>2, CalmLive DEF Succeeding
<1>5. ASSUME pc[r] = "set", NEW i \in Ids PROVE ~DefaultIn(View(r)'[i])
  <2>1. View(r)[i] = IF pend[r][i] # NoSection THEN pend[r][i] ELSE sec[i]
    BY DEF View
  <2>2. View(r)'[i] = IF pend'[r][i] # NoSection THEN pend'[r][i] ELSE sec'[i]
    BY DEF View
  <2>3. DefaultIn(sec'[i]) => sec'[i] = sec[i]
    BY <1>2, <1>5, CalmLive
  <2>4. ~DefaultIn(View(r)[i])
    BY <1>5 DEF Succeeding
  <2> QED  BY <1>1, <2>1, <2>2, <2>3, <2>4
<1>6. pc[r] = "done" /\ q[r].kind = "promote" => resp[r] # "error"
  BY DEF Succeeding
<1> QED  BY <1>1, <1>3, <1>4, <1>5, <1>6 DEF Succeeding

\* A promotion's own statements do not fail either.
LEMMA ServedSucceed ==
    ASSUME IInv, \A r \in Reqs : Kinds(r), NEW s \in Reqs, Serve(s), ~Disturbed', Succeeding(s)
    PROVE  Succeeding(s)'
<1>1. q' = q /\ pc[s] \notin {"idle", "done"} /\ q[s].id \in Ids
  BY ServeMoves, InFlight
<1>2. Live(sec[q[s].id]) => Live(sec'[q[s].id])
  BY <1>1, CalmLive
<1>3. ASSUME resp'[s] = "error" PROVE FALSE
  <2>1. ~DeadlockVictim(s)
    BY SentStays DEF DeadlockVictim, Kinds, Disturbed, Sent
  <2>2. pc[s] = "set" /\ (~Live(sec[q[s].id]) \/ DefaultTaken(s, q[s].id))
    BY <1>3, <2>1, Errors
  <2> QED  BY <2>2 DEF Succeeding, DefaultTaken
<1>4. CASE pc'[s] \notin {"lock", "clear", "set"}
  BY <1>3, <1>4 DEF Succeeding
<1>5. CASE pc[s] = "lock" /\ pc'[s] = "clear" /\ BeginClear(s)
  <2>1. sec' = sec /\ seen'[s] = {i \in Ids : DefaultIn(sec[i])}
    BY <1>5 DEF BeginClear, Continue, IInv, Types
  <2> QED  BY <1>1, <1>2, <1>5, <2>1 DEF Succeeding
<1>6. CASE pc[s] = "clear" /\ pc'[s] = "set" /\ ClearDefault(s)
  <2>1. ASSUME NEW i \in Ids PROVE ~DefaultIn(View(s)'[i])
    <3>1. /\ sec' = sec
          /\ pend'[s][i] = IF i \in seen[s] /\ DefaultIn(sec[i])
                           THEN [sec[i] EXCEPT !.isDefault = FALSE] ELSE NoSection
      BY <1>6 DEF ClearDefault, IInv, Types
    <3>2. View(s)'[i] = IF pend'[s][i] # NoSection THEN pend'[s][i] ELSE sec'[i]
      BY DEF View
    <3>3. CASE DefaultIn(sec[i])
      <4>1. i \in seen[s] /\ sec[i] \in Section
        BY <1>6, <3>3, LiveIsSection DEF Succeeding, DefaultIn, IInv, Types
      <4>2. pend'[s][i] \in Section /\ ~pend'[s][i].isDefault
        BY <3>1, <3>3, <4>1, Flagged
      <4> QED  BY <3>2, <4>2, SentinelAssumption DEF DefaultIn
    <3>4. CASE ~DefaultIn(sec[i])
      BY <3>1, <3>2, <3>4
    <3> QED  BY <3>3, <3>4
  <2> QED  BY <1>1, <1>2, <1>6, <2>1 DEF Succeeding
<1> QED  BY <1>4, <1>5, <1>6, ServeMoves

\* Every promotion goes on succeeding.
LEMMA SucceedingStep ==
    ASSUME IInv, JInv, NEW s \in Reqs, Send(s) \/ Serve(s), ~Disturbed'
    PROVE  \A r \in Reqs : Succeeding(r)'
<1>1. (\A r \in Reqs : Kinds(r)) /\ ~Disturbed
  BY SentStays DEF JInv
<1>2. \A r \in Reqs : Succeeding(r)
  BY <1>1 DEF JInv
<1>3. ASSUME NEW r \in Reqs \ {s} PROVE Succeeding(r)'
  BY <1>1, <1>2, OthersSucceed
<1>4. ASSUME Serve(s) PROVE Succeeding(s)'
  BY <1>1, <1>2, <1>4, ServedSucceed
<1>5. ASSUME Send(s) PROVE Succeeding(s)'
  <2>1. sec' = sec /\ \/ pc'[s] = "done" /\ resp'[s] # "error"
                      \/ pc'[s] \notin {"done", "lock", "clear", "set"}
                      \/ pc'[s] = "lock" /\ Live(sec[q'[s].id])
    BY <1>5, SendMoves
  <2> QED  BY <2>1 DEF Succeeding
<1> QED  BY <1>3, <1>4, <1>5

---------------------------------------------------------------------------
(* Without promotions. *)

\* What a rename writes is the section as loaded, under another name.
LEMMA SavedFlag ==
    ASSUME IInv, NEW s \in Reqs, pc[s] = "save"
    PROVE  Saved(s) \in Section /\ Saved(s).isDefault = old[s].isDefault /\ Saved(s).live = old[s].live
<1>1. old[s] \in Section /\ q[s].name \in Names \cup {NoName}
  BY InFlight DEF IInv, Accepted
<1> QED  BY <1>1 DEF Saved, Section

\* No row loses or gains the flag, and a default is not deleted.
LEMMA CalmFlags ==
    ASSUME IInv, JInv, NEW s \in Reqs, Send(s) \/ Serve(s), ~Promoted', NEW i \in Ids,
           sec[i] # NoSection
    PROVE  /\ sec'[i] # NoSection /\ sec'[i].isDefault = sec[i].isDefault
           /\ DefaultIn(sec[i]) => DefaultIn(sec'[i])
<1>1. ~Promoted /\ Kinds(s) /\ Flags(s) /\ sec \in [Ids -> Slot]
  BY SentStays DEF JInv, IInv, Types
<1>2. ~CommitPromotion(s)
  BY <1>1 DEF CommitPromotion, Kinds, Promoted, Sent
<1>3. CASE pc[s] = "save" /\ sec' = [sec EXCEPT ![q[s].id] = Saved(s)]
  <2>1. CASE q[s].id = i
    <3>1. sec'[i] = Saved(s) /\ Saved(s) \in Section /\ old[s].live /\ old[s].isDefault = sec[i].isDefault
      BY <1>1, <1>3, <2>1, SavedFlag DEF Flags, Kinds
    <3> QED  BY <1>3, <3>1, SavedFlag, SentinelAssumption DEF DefaultIn, Live
  <2>2. CASE q[s].id # i
    BY <1>1, <1>3, <2>2
  <2> QED  BY <2>1, <2>2
<1>4. CASE pc[s] = "delete" /\ sec' = [sec EXCEPT ![q[s].id].live = FALSE]
  <2>1. CASE q[s].id = i
    <3>1. sec[i] \in Section /\ ~sec[i].isDefault
      BY <1>1, <1>4, <2>1 DEF Flags, Slot
    <3>2. sec'[i] = [sec[i] EXCEPT !.live = FALSE]
      BY <1>1, <1>4, <2>1
    <3>3. sec'[i] \in Section /\ sec'[i].isDefault = sec[i].isDefault
      BY <3>1, <3>2 DEF Section
    <3> QED  BY <3>1, <3>3, SentinelAssumption DEF DefaultIn
  <2>2. CASE q[s].id # i
    BY <1>1, <1>4, <2>2
  <2> QED  BY <2>1, <2>2
<1>5. CASE \E j \in Ids : /\ sec[j] = NoSection
                          /\ sec' = [sec EXCEPT ![j] =
                                       [name |-> q[s].name, isDefault |-> FALSE, live |-> TRUE]]
  BY <1>1, <1>5
<1> QED  BY <1>2, <1>3, <1>4, <1>5, SecSteps DEF SecStep

\* What renames have loaded and deletes have checked goes on being so.
LEMMA FlagsStep ==
    ASSUME IInv, JInv, NEW s \in Reqs, Send(s) \/ Serve(s), ~Promoted'
    PROVE  \A r \in Reqs : Flags(r)'
<1>1. ~Promoted /\ (\A r \in Reqs : Kinds(r)) /\ \A r \in Reqs : Flags(r)
  BY SentStays DEF JInv
<1>2. ASSUME NEW r \in Reqs \ {s} PROVE Flags(r)'
  <2>1. pc'[r] = pc[r] /\ q'[r] = q[r] /\ old'[r] = old[r]
    BY StepMoves DEF Moves
  <2>2. ASSUME pc[r] # "idle", sec[q[r].id] # NoSection
        PROVE  sec'[q[r].id] # NoSection /\ sec'[q[r].id].isDefault = sec[q[r].id].isDefault
    BY <2>2, InFlight, CalmFlags
  <2> QED  BY <1>1, <2>1, <2>2 DEF Flags
<1>3. ASSUME Send(s) PROVE Flags(s)'
  <2>1. /\ sec' = sec
        /\ \/ pc'[s] = "done"
           \/ q'[s].kind = "create" /\ pc'[s] = "checkName"
           \/ /\ q'[s].kind = "rename" /\ pc'[s] \in {"checkName", "save"}
              /\ Live(sec[q'[s].id]) /\ old'[s] = sec[q'[s].id]
           \/ pc'[s] = "lock"
           \/ pc'[s] = "checkChildren" /\ Live(sec[q'[s].id]) /\ ~sec[q'[s].id].isDefault
           \/ pc'[s] = "assign"
    BY <1>3, SendMoves
  <2> QED  BY <2>1 DEF Flags, Live
<1>4. ASSUME Serve(s) PROVE Flags(s)'
  <2>1. q' = q /\ old' = old /\ pc[s] # "idle"
    BY <1>4, ServeMoves
  <2>2. ASSUME sec[q[s].id] # NoSection
        PROVE  sec'[q[s].id] # NoSection /\ sec'[q[s].id].isDefault = sec[q[s].id].isDefault
    BY <2>1, <2>2, InFlight, CalmFlags
  <2>3. \/ pc'[s] \notin {"checkName", "save", "checkChildren", "checkEmployees", "delete"}
        \/ pc[s] = "checkName" /\ q[s].kind # "create" /\ pc'[s] = "save"
        \/ pc[s] \in {"checkChildren", "checkEmployees"} /\ pc'[s] \in {"checkEmployees", "delete"}
    BY <1>4, ServeMoves
  <2>4. Flags(s) /\ Kinds(s)
    BY <1>1
  <2> QED  BY <2>1, <2>2, <2>3, <2>4 DEF Flags, Kinds
<1> QED  BY <1>2, <1>3, <1>4

---------------------------------------------------------------------------
(* The whole. *)

\* An answered rename or delete and a promotion are not taken back.
LEMMA ChangeStays ==
    ASSUME IInv, JInv, NEW s \in Reqs, Send(s) \/ Serve(s), AnsweredChange
    PROVE  AnsweredChange'
<1>1. PICK r \in Reqs : Sent(r) /\ q[r].kind \in {"rename", "delete"} /\ resp[r] = "ok"
  BY DEF AnsweredChange
<1>2. pc[r] = "done"
  BY <1>1 DEF IInv, Accepted
<1>3. q'[r] = q[r] /\ resp'[r] = resp[r]
  BY <1>2, AnsweredStays
<1> QED  BY <1>1, <1>3 DEF AnsweredChange, Sent

\* The default is lost only to a rename or a delete, and only beside a promotion.
LEMMA DefaultStep ==
    ASSUME IInv, JInv, NEW s \in Reqs, Send(s) \/ Serve(s)
    PROVE  HasDefault' \/ (AnsweredChange' /\ Promoted')
<1>1. CASE AnsweredChange /\ Promoted
  BY <1>1, ChangeStays, SentStays DEF JInv
<1>2. CASE HasDefault
  <2>1. PICK i \in Ids : DefaultIn(sec[i])
    BY <1>2 DEF HasDefault
  <2>2. sec[i] # NoSection /\ sec \in [Ids -> Slot]
    BY <2>1 DEF DefaultIn, Live, IInv, Types
  <2>3. CASE ~Promoted'
    BY <2>1, <2>2, <2>3, CalmFlags DEF HasDefault
  <2>4. CASE Promoted' /\ pc[s] \in {"save", "delete"} /\ resp'[s] = "ok"
    <3>1. Kinds(s) /\ Sent(s)
      BY <2>4 DEF JInv, Kinds, Sent
    <3>2. q'[s] = q[s] /\ q[s].kind \in {"rename", "delete"}
      BY <2>4, <3>1, SentStays DEF JInv, Kinds
    <3>3. AnsweredChange'
      BY <2>4, <3>1, <3>2 DEF AnsweredChange, Sent
    <3> QED  BY <2>4, <3>3
  <2>5. CASE CommitPromotion(s)
    <3>1. /\ DefaultIn(pend[s][q[s].id]) /\ q[s].id \in Ids
          /\ sec'[q[s].id] = IF pend[s][q[s].id] # NoSection THEN pend[s][q[s].id] ELSE sec[q[s].id]
      BY <2>5, InFlight DEF CommitPromotion, View, IInv, Writes
    <3> QED  BY <3>1 DEF HasDefault, DefaultIn, Live
  <2>6. CASE \E j \in Ids : /\ sec[j] = NoSection
                            /\ sec' = [sec EXCEPT ![j] =
                                         [name |-> q[s].name, isDefault |-> FALSE, live |-> TRUE]]
    BY <2>1, <2>2, <2>6 DEF HasDefault
  <2> QED  BY <1>2, <2>3, <2>4, <2>5, <2>6, SecSteps DEF SecStep, HasDefault
<1> QED  BY <1>1, <1>2 DEF JInv

\* An organization starts with a default and with no request under way.
LEMMA StartsWithDefault == Init => JInv
<1> SUFFICES ASSUME Init PROVE JInv
  OBVIOUS
<1>1. HasDefault
  BY DefaultAssumption DEF Init, HasDefault
<1>2. \A r \in Reqs : Kinds(r) /\ Succeeding(r) /\ Flags(r)
  BY DEF Init, Kinds, Succeeding, Flags
<1> QED  BY <1>1, <1>2 DEF JInv

\* Every step keeps the promises.
LEMMA PromisesKept == IInv /\ JInv /\ [Next]_vars => JInv'
<1> SUFFICES ASSUME IInv, JInv, [Next]_vars PROVE JInv'
  OBVIOUS
<1>1. ASSUME NEW s \in Reqs, Send(s) \/ Serve(s) PROVE JInv'
  <2>1. \A r \in Reqs : Kinds(r)'
    BY <1>1, KindsStep DEF JInv
  <2>2. ~Disturbed' => \A r \in Reqs : Succeeding(r)'
    BY <1>1, SucceedingStep
  <2>3. ~Promoted' => \A r \in Reqs : Flags(r)'
    BY <1>1, FlagsStep
  <2>4. HasDefault' \/ (AnsweredChange' /\ Promoted')
    BY <1>1, DefaultStep
  <2> QED  BY <2>1, <2>2, <2>3, <2>4 DEF JInv
<1>2. CASE UNCHANGED <<sec, pc, q, old, seen, pend, resp>>
  <2>1. ASSUME NEW r \in Reqs
        PROVE  (Kinds(r) => Kinds(r)') /\ (Succeeding(r) => Succeeding(r)') /\ (Flags(r) => Flags(r)')
    BY <1>2 DEF Kinds, Succeeding, Flags, View
  <2>2. Disturbed' = Disturbed /\ Promoted' = Promoted /\ HasDefault' = HasDefault
        /\ AnsweredChange' = AnsweredChange
    BY <1>2 DEF Disturbed, Promoted, HasDefault, AnsweredChange, Sent
  <2> QED  BY <2>1, <2>2 DEF JInv
<1> QED  BY <1>1, <1>2 DEF Next, ContractsEnd, Finished, vars

\* What every reachable state satisfies besides IInv.
LEMMA PromisesInvariant == Spec => []JInv
BY StartsWithDefault, PromisesKept, InductiveInvariant, PTL DEF Spec

\* Concurrent promotions do not make each other fail: an error needs a rename or a delete
\* beside it, which the advisory lock does not keep out.
THEOREM PromotionsDoNotCollide == Spec => []PromotesDoNotCollide
<1>1. JInv => PromotesDoNotCollide
  BY DEF JInv, PromotesDoNotCollide, Disturbed, Succeeding, Sent
<1> QED  BY <1>1, PromisesInvariant, PTL

\* Promotions, creates and assignments never leave an organization without its default
\* section; a promotion and an acknowledged rename or delete may.
THEOREM DefaultKept == Spec => []DefaultSurvives
<1>1. JInv => DefaultSurvives
  BY DEF JInv, DefaultSurvives, HasDefault, AnsweredChange, Promoted, Sent
<1> QED  BY <1>1, PromisesInvariant, PTL
=============================================================================

------------------------------ MODULE Contracts ------------------------------
(***************************************************************************)
(* Concurrent contract writes on one owner's timeline, statement by        *)
(* statement.  Each request is one HTTP call: it loads the contract and    *)
(* checks the request outside any transaction, then runs its statements in *)
(* a READ COMMITTED transaction.  A statement sees what is committed when  *)
(* it starts plus its own transaction's writes; an UPDATE or DELETE waits  *)
(* for another transaction's lock on the row; the deferred exclusion       *)
(* constraint is checked at COMMIT.                                        *)
(***************************************************************************)
EXTENDS ContractOps

CONSTANTS Reqs,         \* in-flight HTTP requests
          NoRequest

VARIABLES
    rows,       \* committed contracts: id -> Slot
    nextId,     \* the id sequence; a rollback does not give ids back
    pc,         \* per request: the statement it runs next
    q,          \* per request: the request body
    a,          \* per request: the addressed contract as loaded
    b,          \* per request: the later contract of a boundary move as loaded
    pend,       \* per request: rows its open transaction has written
    resp        \* per request: the answer, once done

vars == <<rows, nextId, pc, q, a, b, pend, resp>>

ASSUME NoRequestAssumption == NoRequest \notin Request

Statements == {"loadLater", "check", "checkLater", "update", "updateLater",
               "insert", "delete", "commit"}
Answers == {"none", "ok", "notFound", "badRequest", "preconditionFailed",
            "versionConflict", "overlap"}
NoWrites == [i \in Ids |-> NoRow]

\* The statement that follows a successful one, per intent.
After == [create   |-> [check |-> "insert", insert |-> "commit"],
          correct  |-> [check |-> "update", update |-> "commit"],
          end      |-> [check |-> "update", update |-> "commit"],
          amend    |-> [update |-> "check", check |-> "insert", insert |-> "commit"],
          boundary |-> [update |-> "updateLater", updateLater |-> "check",
                        check |-> "checkLater", checkLater |-> "commit"]]

\* The transaction goes on with the next statement.
Advance(r) ==
    /\ pc' = [pc EXCEPT ![r] = After[q[r].kind][pc[r]]]
    /\ UNCHANGED <<q, a, b, resp>>

\* Mutant: a refused transaction is left open, with its locks.
LeakingAnswer(r, code) ==
    /\ pc' = [pc EXCEPT ![r] = "done"]
    /\ resp' = [resp EXCEPT ![r] = code]
    /\ pend' = IF code = "ok" THEN [pend EXCEPT ![r] = NoWrites] ELSE pend
    /\ q' = [q EXCEPT ![r] = NoRequest]
    /\ a' = [a EXCEPT ![r] = NoRow]
    /\ b' = [b EXCEPT ![r] = NoRow]

\* The request is answered: its locals are gone, and an open transaction has
\* been committed or rolled back.
Answer(r, code) ==
    /\ pc' = [pc EXCEPT ![r] = "done"]
    /\ resp' = [resp EXCEPT ![r] = code]
    /\ pend' = [pend EXCEPT ![r] = NoWrites]
    /\ q' = [q EXCEPT ![r] = NoRequest]
    /\ a' = [a EXCEPT ![r] = NoRow]
    /\ b' = [b EXCEPT ![r] = NoRow]

---------------------------------------------------------------------------
(* Outside the transaction: load, compare the version, validate. *)

\* Request k with the loaded row x goes on at statement s.
Begin(r, k, x, s) ==
    /\ pc' = [pc EXCEPT ![r] = s]
    /\ q' = [q EXCEPT ![r] = k]
    /\ a' = [a EXCEPT ![r] = x]
    /\ UNCHANGED <<b, pend, resp>>

\* loadChildContract / loadEmployeeContract, checkVersion and the validation of
\* the request against the loaded row, up to the start of the transaction.
LoadThen(r, k, ok, s) ==
    LET x == rows[k.id]
        verdict == IF ~Live(x) THEN "notFound"
                   ELSE IF ~checkVersion(k.exp, x.ver) THEN "preconditionFailed"
                   ELSE IF ~ok THEN "badRequest" ELSE "ok"
    IN  /\ pc[r] = "idle"
        /\ IF verdict = "ok" THEN Begin(r, k, x, s) ELSE Answer(r, verdict)
        /\ UNCHANGED <<rows, nextId>>

CreateContract(r, k) ==
    /\ k.kind = "create" /\ pc[r] = "idle"
    /\ IF CreateOK(k) THEN Begin(r, k, NoRow, "check") ELSE Answer(r, "badRequest")
    /\ UNCHANGED <<rows, nextId>>

CorrectContract(r, k) ==
    k.kind = "correct" /\ LoadThen(r, k, CorrectOK(rows[k.id], k), "check")

EndContract(r, k) ==
    k.kind = "end" /\ LoadThen(r, k, EndOK(rows[k.id], k), "check")

AmendContract(r, k) ==
    k.kind = "amend" /\ LoadThen(r, k, AmendOK(rows[k.id], k), "update")

DeleteContract(r, k) ==
    k.kind = "delete" /\ LoadThen(r, k, TRUE, "delete")

\* A boundary move loads its two contracts in two queries and compares both
\* versions after the second.
MoveContractBoundary(r, k) ==
    /\ k.kind = "boundary" /\ pc[r] = "idle"
    /\ IF k.id = k.later THEN Answer(r, "badRequest")
       ELSE IF ~Live(rows[k.id]) THEN Answer(r, "notFound")
       ELSE Begin(r, k, rows[k.id], "loadLater")
    /\ UNCHANGED <<rows, nextId>>

LoadLater(r) ==
    LET k == q[r]
        y == rows[k.later]
        verdict == IF ~Live(y) THEN "notFound"
                   ELSE IF k.exp # a[r].ver \/ k.laterExp # y.ver THEN "preconditionFailed"
                   ELSE IF ~BoundaryOK(a[r], y, k) THEN "badRequest" ELSE "ok"
    IN  /\ pc[r] = "loadLater"
        /\ IF verdict = "ok"
           THEN /\ pc' = [pc EXCEPT ![r] = "update"]
                /\ b' = [b EXCEPT ![r] = y]
                /\ UNCHANGED <<q, a, pend, resp>>
           ELSE Answer(r, verdict)
        /\ UNCHANGED <<rows, nextId>>

---------------------------------------------------------------------------
(* Inside the transaction. *)

\* What request r's statements see: committed rows under its own writes.
View(r) == [i \in Ids |-> IF Live(pend[r][i]) THEN pend[r][i] ELSE rows[i]]

\* Mutant: updates take no row lock.
NeverLocked(r, i) == TRUE

\* No other open transaction holds the lock on row i.
Unlocked(r, i) == \A s \in Reqs \ {r} : pend[s][i] = NoRow

\* The rows the request writes: its addressed row, and the row it inserts.
NewAddressed(r) ==
    CASE q[r].kind = "correct"  -> Corrected(a[r], q[r])
      [] q[r].kind = "end"      -> Ended(a[r], q[r])
      [] q[r].kind = "amend"    -> Closed(a[r], q[r])
      [] q[r].kind = "boundary" -> MovedEarlier(a[r], q[r])

NewInserted(r) ==
    IF q[r].kind = "create" THEN Created(q[r]) ELSE Successor(a[r], q[r])

\* ValidateNoOverlap: counts the owner's visible rows, the excluded one aside,
\* that overlap the period x.
ValidateNoOverlap(r, x, excluded) ==
    /\ IF \E i \in Ids \ excluded : Live(View(r)[i]) /\ Overlaps(View(r)[i], x)
       THEN Answer(r, "overlap")
       ELSE Advance(r) /\ UNCHANGED pend
    /\ UNCHANGED <<rows, nextId>>

Check(r) ==
    /\ pc[r] = "check"
    /\ IF q[r].kind \in {"create", "amend"}
       THEN ValidateNoOverlap(r, NewInserted(r), {})
       ELSE ValidateNoOverlap(r, NewAddressed(r), {q[r].id})

CheckLater(r) ==
    /\ pc[r] = "checkLater"
    /\ ValidateNoOverlap(r, MovedLater(b[r], q[r]), {q[r].later})

\* Mutant: UPDATE ... WHERE id = i, without the version.
UnguardedUpdate(r, i, loaded, x) ==
    /\ Unlocked(r, i)
    /\ IF Live(rows[i])
       THEN Advance(r) /\ pend' = [pend EXCEPT ![r][i] = x]
       ELSE Answer(r, "versionConflict")
    /\ UNCHANGED <<rows, nextId>>

\* UPDATE ... WHERE id = i AND version = the version loaded: waits for the row
\* lock, then re-evaluates its condition on the row as committed.
UpdateRow(r, i, loaded, x) ==
    /\ Unlocked(r, i)
    /\ IF Live(rows[i]) /\ rows[i].ver = loaded.ver
       THEN Advance(r) /\ pend' = [pend EXCEPT ![r][i] = x]
       ELSE Answer(r, "versionConflict")
    /\ UNCHANGED <<rows, nextId>>

UpdateContract(r) ==
    pc[r] = "update" /\ UpdateRow(r, q[r].id, a[r], NewAddressed(r))

UpdateLater(r) ==
    pc[r] = "updateLater" /\ UpdateRow(r, q[r].later, b[r], MovedLater(b[r], q[r]))

\* Mutant: the INSERT runs on the pool instead of the transaction.
AutocommittedInsert(r) ==
    /\ pc[r] = "insert" /\ nextId <= MaxId
    /\ rows' = [rows EXCEPT ![nextId] = NewInserted(r)]
    /\ nextId' = nextId + 1
    /\ Advance(r)
    /\ UNCHANGED pend

InsertContract(r) ==
    /\ pc[r] = "insert" /\ nextId <= MaxId
    /\ pend' = [pend EXCEPT ![r][nextId] = NewInserted(r)]
    /\ nextId' = nextId + 1
    /\ Advance(r)
    /\ UNCHANGED rows

\* Mutant: no exclusion constraint, only the check inside the transaction.
NeverExcluded(r) == FALSE

\* The exclusion constraint on (owner, daterange(from, to + 1)), checked for
\* the rows the transaction wrote.
Excluded(r) ==
    \E i, j \in Ids : /\ i # j /\ Live(pend[r][i])
                      /\ Live(View(r)[j]) /\ Overlaps(pend[r][i], View(r)[j])

Commit(r) ==
    /\ pc[r] = "commit"
    /\ IF Excluded(r)
       THEN Answer(r, "overlap") /\ UNCHANGED rows
       ELSE Answer(r, "ok") /\ rows' = View(r)
    /\ UNCHANGED nextId

\* Two transactions whose uncommitted rows overlap wait for each other at
\* COMMIT; Postgres aborts one of them with 40P01.
DeadlockVictim(r) ==
    /\ pc[r] = "commit"
    /\ \E s \in Reqs \ {r} :
         /\ pc[s] = "commit"
         /\ \E i, j \in Ids : Live(pend[r][i]) /\ Live(pend[s][j])
                              /\ Overlaps(pend[r][i], pend[s][j])
    /\ Answer(r, "overlap")
    /\ UNCHANGED <<rows, nextId>>

\* Mutant: DELETE ... WHERE id, without the version.
UnguardedDelete(r) ==
    /\ pc[r] = "delete" /\ Unlocked(r, q[r].id)
    /\ rows' = [rows EXCEPT ![q[r].id] = Gone] /\ Answer(r, "ok")
    /\ UNCHANGED nextId

\* DELETE ... WHERE id [AND version], a transaction of its own.  Zero rows are a
\* lost race if the client stated a version, and success otherwise.
DeleteRow(r) ==
    LET i == q[r].id
        e == q[r].exp
    IN  /\ pc[r] = "delete" /\ Unlocked(r, i)
        /\ IF Live(rows[i]) /\ checkVersion(e, rows[i].ver)
           THEN rows' = [rows EXCEPT ![i] = Gone] /\ Answer(r, "ok")
           ELSE Answer(r, IF e = AnyVersion THEN "ok" ELSE "preconditionFailed") /\ UNCHANGED rows
        /\ UNCHANGED nextId

---------------------------------------------------------------------------

Init ==
    /\ rows \in Timelines
    /\ nextId \in 1..(MaxId + 1)
    /\ \A i \in Ids : rows[i] = NoRow <=> i >= nextId
    /\ pc = [r \in Reqs |-> "idle"]
    /\ q = [r \in Reqs |-> NoRequest]
    /\ a = [r \in Reqs |-> NoRow]
    /\ b = [r \in Reqs |-> NoRow]
    /\ pend = [r \in Reqs |-> NoWrites]
    /\ resp = [r \in Reqs |-> "none"]

\* A client sends a request.
Send(r) == \E k \in Requests :
    \/ CreateContract(r, k) \/ CorrectContract(r, k) \/ EndContract(r, k)
    \/ AmendContract(r, k) \/ MoveContractBoundary(r, k) \/ DeleteContract(r, k)

\* The server takes the request one statement further.
Serve(r) ==
    \/ LoadLater(r) \/ Check(r) \/ CheckLater(r)
    \/ UpdateContract(r) \/ UpdateLater(r) \/ InsertContract(r)
    \/ Commit(r) \/ DeadlockVictim(r) \/ DeleteRow(r)

Finished == (\A r \in Reqs : pc[r] = "done") /\ UNCHANGED vars

Next == (\E r \in Reqs : Send(r) \/ Serve(r)) \/ Finished

Spec == Init /\ [][Next]_vars

\* The server keeps executing every request it has accepted.
FairSpec == Spec /\ \A r \in Reqs : WF_vars(Serve(r))

---------------------------------------------------------------------------
(* Properties. *)

\* The types of the committed rows and of every request's locals: a statement
\* is only ever reached by an intent that has it.
TypeOK ==
    /\ rows \in [Ids -> Slot]
    /\ nextId \in 1..(MaxId + 1)
    /\ pc \in [Reqs -> Statements \cup {"idle", "done"}]
    /\ q \in [Reqs -> Request \cup {NoRequest}]
    /\ a \in [Reqs -> Slot]
    /\ b \in [Reqs -> Slot]
    /\ pend \in [Reqs -> [Ids -> Row \cup {NoRow}]]
    /\ resp \in [Reqs -> Answers]

\* At every moment no two committed contracts of the owner share a day, although
\* every writer validated against a snapshot that others have since changed.
NoOverlap == NoOverlapIn(rows)

\* Request r's transaction commits in this step.
Commits(r) == pc[r] = "commit" /\ resp'[r] = "ok"

\* The version column's promise: a committed update replaces exactly the row
\* its request loaded before the transaction began, whole row for whole row,
\* and moves the version one on.  Nothing another request committed in between
\* is overwritten.
NoLostUpdate ==
    [][\A i \in Ids : Live(rows[i]) /\ Live(rows'[i]) /\ rows'[i] # rows[i] =>
         /\ rows'[i].ver = rows[i].ver + 1
         /\ \E r \in Reqs : /\ Commits(r)
                            /\ \/ q[r].id = i /\ a[r] = rows[i]
                               \/ q[r].later = i /\ b[r] = rows[i]]_vars

\* If-Match: a write or delete that states a version takes effect only on a row
\* that still has that version at the moment it takes effect.
IfMatchHonoured ==
    [][\A r \in Reqs :
         pc[r] \in {"commit", "delete"} /\ resp'[r] = "ok" /\ q[r].kind # "create" =>
            /\ q[r].exp # AnyVersion => Live(rows[q[r].id]) /\ rows[q[r].id].ver = q[r].exp
            /\ q[r].kind = "boundary" =>
                 Live(rows[q[r].later]) /\ rows[q[r].later].ver = q[r].laterExp]_vars

\* A field the request omits keeps the value it has at commit, not the value it
\* had when the request loaded the row, although the UPDATE writes every column.
OmittedFieldsKept ==
    [][\A r \in Reqs : Commits(r) /\ q[r].kind # "create" =>
         LET k == q[r]
             old == rows[k.id]
             new == rows'[k.id]
         IN  /\ k.kind # "correct" => new.terms = old.terms /\ new.from = old.from
             /\ k.kind \in {"end", "boundary"} => new.props = old.props
             /\ k.kind = "correct" =>
                  /\ k.terms = Unset => new.terms = old.terms
                  /\ k.from = Unset => new.from = old.from
                  /\ k.to = Unset => new.to = old.to
                  /\ k.from = Unset /\ k.props = Unset => new.props = old.props]_vars

\* The pay plan has an entry for every contract's terms on the day it starts: the
\* five writes that change one or the other, in any order, never leave a contract
\* whose pay cannot be computed from its first day.
PayPlanCovers == \A i \in Ids : Live(rows[i]) => rows[i].terms \in Payable[rows[i].from]

\* Moving a seam, or amending without naming an end date, neither opens a gap nor
\* covers a day that had no contract: both rows change together or not at all.
SeamKeepsCoverage ==
    [][\A r \in Reqs :
         Commits(r) /\ (q[r].kind = "boundary" \/ (q[r].kind = "amend" /\ q[r].to = Unset))
            => CoveredDays(rows') = CoveredDays(rows)]_vars

\* An accepted request runs the statements of its own intent, and what it was
\* accepted for still holds of the rows it loaded.
Accepted(r) ==
    /\ q[r] \in Requests
    /\ \/ /\ q[r].kind = "create" /\ pc[r] \in {"check", "insert", "commit"}
          /\ CreateOK(q[r])
       \/ /\ q[r].kind = "correct" /\ pc[r] \in {"check", "update", "commit"}
          /\ a[r] \in Row /\ checkVersion(q[r].exp, a[r].ver) /\ CorrectOK(a[r], q[r])
       \/ /\ q[r].kind = "end" /\ pc[r] \in {"check", "update", "commit"}
          /\ a[r] \in Row /\ checkVersion(q[r].exp, a[r].ver) /\ EndOK(a[r], q[r])
       \/ /\ q[r].kind = "amend" /\ pc[r] \in {"update", "check", "insert", "commit"}
          /\ a[r] \in Row /\ checkVersion(q[r].exp, a[r].ver) /\ AmendOK(a[r], q[r])
       \/ /\ q[r].kind = "boundary" /\ pc[r] = "loadLater"
          /\ a[r] \in Row /\ q[r].id # q[r].later
       \/ /\ q[r].kind = "boundary"
          /\ pc[r] \in {"update", "updateLater", "check", "checkLater", "commit"}
          /\ a[r] \in Row /\ b[r] \in Row /\ q[r].id # q[r].later
          /\ q[r].exp = a[r].ver /\ q[r].laterExp = b[r].ver
          /\ BoundaryOK(a[r], b[r], q[r])
       \/ /\ q[r].kind = "delete" /\ pc[r] = "delete" /\ a[r] \in Row

\* The row that was loaded as x is either as it was, or newer, or gone.
Since(x, i) == rows[i] = x \/ rows[i] = Gone \/ (rows[i] \in Row /\ rows[i].ver > x.ver)

UpdatesAddressed(r) ==
    \/ q[r].kind \in {"correct", "end"} /\ pc[r] = "commit"
    \/ q[r].kind = "amend" /\ pc[r] \in {"check", "insert", "commit"}
    \/ q[r].kind = "boundary" /\ pc[r] \in {"updateLater", "check", "checkLater", "commit"}

UpdatesLater(r) == q[r].kind = "boundary" /\ pc[r] \in {"check", "checkLater", "commit"}

Inserts(r) == q[r].kind \in {"create", "amend"} /\ pc[r] = "commit"

\* Row by row, what an open transaction has written so far: an update of a row
\* that is still exactly the one it loaded, or an insert under an unused id.
Writes(r) ==
    /\ \A i \in Ids : pend[r][i] # NoRow =>
         \/ UpdatesAddressed(r) /\ i = q[r].id
         \/ UpdatesLater(r) /\ i = q[r].later
         \/ Inserts(r) /\ rows[i] = NoRow
    /\ UpdatesAddressed(r) =>
         pend[r][q[r].id] = NewAddressed(r) /\ rows[q[r].id] = a[r]
    /\ UpdatesLater(r) =>
         pend[r][q[r].later] = MovedLater(b[r], q[r]) /\ rows[q[r].later] = b[r]
    /\ Inserts(r) =>
         \E n \in Ids : /\ n < nextId /\ rows[n] = NoRow /\ pend[r][n] = NewInserted(r)
                        /\ \A i \in Ids \ {n} :
                             pend[r][i] # NoRow => UpdatesAddressed(r) /\ i = q[r].id

\* Row locks and versions do what the guarded UPDATE relies on: from the moment a
\* transaction writes a row until it ends, that row is still the one the request
\* validated against, whoever else is writing, and no two transactions share one.
LocksHold ==
    /\ \A r \in Reqs :
         /\ pc[r] \in Statements => Accepted(r) /\ Writes(r)
         /\ pc[r] # "done" => resp[r] = "none"
         /\ pc[r] \notin Statements => pend[r] = NoWrites /\ a[r] = NoRow /\ b[r] = NoRow
         /\ a[r] \in Row => Since(a[r], q[r].id)
         /\ b[r] \in Row => Since(b[r], q[r].later)
    /\ \A r, s \in Reqs : \A i \in Ids :
         pend[r][i] # NoRow /\ pend[s][i] # NoRow => r = s
    /\ \A i \in Ids : i >= nextId =>
         rows[i] = NoRow /\ \A r \in Reqs : pend[r][i] = NoRow

\* Concurrent writes are serialisable in commit order: every committed
\* transaction is one atomic write of the abstract timeline, on the rows as they
\* are when it commits, and every refused or rolled back request leaves no trace.
T == INSTANCE Timeline WITH rows <- rows
RefinesTimeline == T!Spec

\* Every request the server accepts is answered: lock waits between single
\* updates, amendments and boundary moves never form a cycle that lasts.
EveryRequestAnswered == \A r \in Reqs : (pc[r] \in Statements) ~> (pc[r] = "done")

\* An amendment closes its predecessor and leaves the rest of it on record: the
\* changes, properties included, are carried by the successor.
AmendKeepsPredecessor ==
    [][\A r \in Reqs : Commits(r) /\ q[r].kind = "amend" =>
         rows'[q[r].id].props = rows[q[r].id].props]_vars
=============================================================================

------------------------------- MODULE Periods -------------------------------
(***************************************************************************)
(* One budget item, pay plan or government funding, with the periods it    *)
(* owns and what hangs on a period, under concurrent requests, statement   *)
(* by statement at READ COMMITTED.  The three services run the same steps  *)
(* and differ in three ways:                                               *)
(*   budget   the periods are the item's entries; an exclusion constraint  *)
(*            backs the overlap check; nothing hangs on a period           *)
(*   payplan  details are the entries of a period, unique per grade and    *)
(*            step; the whole plan can be replaced by an import            *)
(*   funding  details are the properties of a period; the dates of a       *)
(*            period are not compared with each other; loading a period    *)
(*            loads its properties, and saving it saves them               *)
(* The instance is one name of one organization (for a funding: one state) *)
(* and the name stays, so at most one owner exists at a time.              *)
(***************************************************************************)
EXTENDS Integers, Sequences

CONSTANTS
    MaxDay,      \* last day of the calendar that requests can name
    MaxId,       \* ids the sequences hand out: 1..MaxId
    Meanings,    \* what a budget item's amounts mean: category and per_child
    Keys,        \* grade and step of an entry; key and value of a property
    Schedules,   \* schedules to start from
    Requests,    \* service -> the requests clients may send
    Reqs,        \* in-flight requests
    NoRow, NoOwner, NoRequest, NoKey,
    NoMeaning    \* the body leaves category and per_child alone

Day == 1..MaxDay
Forever == MaxDay + 1                   \* to_date IS NULL
Until == 1..Forever
Absent == 0                             \* funding update: no "from" in the body
Ids == 1..MaxId
Kinds == {"budget", "payplan", "funding"}

Owner == [id : Ids, meaning : Meanings]
Period == [from : Day, to : Until]
Detail == [period : Ids, key : Keys]
Line == [from : Day, to : Until, key : Keys \cup {NoKey}]   \* a period of an imported file

PeriodOps == {"createPeriod", "updatePeriod", "deletePeriod"}
DetailOps == {"createDetail", "updateDetail", "deleteDetail"}
Request == [kind : {"createOwner", "updateOwner", "deleteOwner", "import"} \cup PeriodOps \cup DetailOps,
            id : Ids,                          \* the period or detail addressed
            from : Day \cup {Absent}, to : Until,
            meaning : Meanings \cup {NoMeaning}, key : Keys, file : Seq(Line)]

\* The routes that exist, and the required fields of their bodies.
ASSUME RequestAssumption ==
    /\ Requests \in [Kinds -> SUBSET Request]
    /\ \A v \in Kinds : \A k \in Requests[v] :
         /\ k.kind = "import" => v = "payplan"
         /\ k.kind \in DetailOps => v # "budget"
         /\ k.kind \in {"createPeriod", "updatePeriod"} /\ k.from = Absent =>
              v = "funding" /\ k.kind = "updatePeriod"
         /\ k.kind \in {"createOwner", "import"} => k.meaning # NoMeaning
         /\ k.kind = "updateOwner" /\ v # "budget" => k.meaning = NoMeaning
ASSUME SizeAssumption == MaxDay \in Nat /\ MaxId \in Nat
ASSUME SentinelAssumption ==
    /\ NoRow \notin Period /\ NoRow \notin Detail /\ NoOwner \notin Owner
    /\ NoKey \notin Keys /\ NoMeaning \notin Meanings

VARIABLES
    kind,        \* which of the three services
    referenced,  \* an employee contract refers to the pay plan
    owner, rows, details,   \* the committed tables
    next,        \* the next id; a rollback does not rewind it
    pc, q,       \* per request: its next statement; its body
    oid,         \* the owner's id as the client names it, Absent if there is none
    old,         \* update: the row as loaded
    kids,        \* funding update: the properties loaded; import: the entries deleted
    seen,        \* the periods its last check, count or DELETE found
    cleared,     \* import: the periods it has deleted, locked until it ends
    resp

tables == <<owner, rows, details, next>>
locals == <<q, oid, old, kids, seen>>
vars == <<kind, referenced, owner, rows, details, next, pc, q, oid, old, kids, seen, cleared, resp>>

Present(t) == {i \in Ids : t[i] # NoRow}

OwnerIs(r) == owner # NoOwner /\ owner.id = oid[r]

\* The periods a statement of r finds by the owner's id.
Found(r) == [i \in Ids |-> IF OwnerIs(r) THEN rows[i] ELSE NoRow]
Mine(r) == Present(Found(r))

\* Mutant: a period ends on the day before its last.
ExclusiveOverlaps(a, b) == a.from < b.to /\ b.from < a.to

\* Both ends are inclusive.
Overlaps(a, b) == a.from <= b.to /\ b.from <= a.to

Active(p, d) == p.from <= d /\ d <= p.to

\* No day has two periods in force.
OnePerDay(t) ==
    \A d \in Day : \A i, j \in Present(t) : Active(t[i], d) /\ Active(t[j], d) => i = j

\* The overlap check: another period of the owner shares a day with p.
OverlapSeen(r, p) ==
    \E i \in Mine(r) :
        ~(q[r].kind = "updatePeriod" /\ i = q[r].id) /\ Overlaps(p, rows[i])

\* Periods have an owner, details a period, and budget entries their constraint.
ASSUME ScheduleAssumption ==
    \A s \in Schedules :
        /\ s.kind \in Kinds /\ s.referenced \in BOOLEAN
        /\ s.owner \in Owner \cup {NoOwner} /\ s.next \in 1..(MaxId + 1)
        /\ s.rows \in [Ids -> Period \cup {NoRow}] /\ s.details \in [Ids -> Detail \cup {NoRow}]
        /\ s.owner = NoOwner => Present(s.rows) = {}
        /\ \A d \in Present(s.details) : s.rows[s.details[d].period] # NoRow
        /\ s.kind = "budget" => OnePerDay(s.rows)

\* Mutant: there is no exclusion constraint.
NoExclusion(i, p) == FALSE

\* budget_item_entries_no_overlap.
Excluded(i, p) == kind = "budget" /\ \E j \in Present(rows) \ {i} : Overlaps(p, rows[j])

\* Rows another transaction has deleted but not committed are locked.
RowFree(r, i) == \A s \in Reqs \ {r} : i \notin cleared[s]
DetailFree(r, d) ==
    \A s \in Reqs \ {r} : pc[s] \in {"clear", "install"} => kids[s][d] = NoRow
OwnerFree(r) == \A s \in Reqs \ {r} : pc[s] # "cascade"

\* Mutant: a refused import leaves its transaction open.
LeakingAnswer(r, code) ==
    /\ pc' = [pc EXCEPT ![r] = "done"] /\ resp' = [resp EXCEPT ![r] = code]
    /\ cleared' = IF code = "ok" THEN [cleared EXCEPT ![r] = {}] ELSE cleared

\* The answer ends the request's transaction, if it has one.
Answer(r, code) ==
    /\ pc' = [pc EXCEPT ![r] = "done"] /\ resp' = [resp EXCEPT ![r] = code]
    /\ cleared' = [cleared EXCEPT ![r] = {}]

Reject(r, code) == Answer(r, code) /\ UNCHANGED tables
Continue(r, s) == pc' = [pc EXCEPT ![r] = s] /\ UNCHANGED <<tables, cleared, resp>>

---------------------------------------------------------------------------
(* The reads before the first write or check; they lock nothing.  They     *)
(* follow each other from owner to period to detail, and a row that goes   *)
(* away in between takes its children along, so they are one step.         *)

OwnerPhase(k) ==
    CASE k.kind = "createOwner" -> "insertOwner"
      [] k.kind = "updateOwner" -> IF k.meaning \in {NoMeaning, owner.meaning} THEN "saveOwner" ELSE "count"
      [] k.kind = "deleteOwner" -> "lockOwner"
      [] k.kind = "import" -> IF owner = NoOwner THEN "install" ELSE "beginClear"

\* A funding is deleted without being looked up; an import looks for the name.
SendOwner(r, k) ==
    /\ k.kind \notin PeriodOps \cup DetailOps
    /\ IF owner = NoOwner /\ (k.kind = "updateOwner" \/ (k.kind = "deleteOwner" /\ kind # "funding"))
       THEN Reject(r, "notFound") /\ UNCHANGED old
       ELSE /\ Continue(r, OwnerPhase(k))
            /\ old' = [old EXCEPT ![r] = IF k.kind = "updateOwner" THEN owner ELSE NoRow]
    /\ UNCHANGED kids

\* Funding periods may be reversed: neither handler nor service compares the dates.
DatesOK(k) == kind = "funding" \/ k.from <= k.to

DetailsOf(S) ==
    [d \in Ids |-> IF details[d] # NoRow /\ details[d].period \in S THEN details[d] ELSE NoRow]

SendPeriod(r, k) ==
    /\ k.kind \in PeriodOps
    /\ IF owner = NoOwner \/ (k.kind # "createPeriod" /\ rows[k.id] = NoRow)
       THEN Reject(r, "notFound") /\ UNCHANGED <<old, kids>>
       ELSE /\ IF k.kind # "deletePeriod" /\ ~DatesOK(k) THEN Reject(r, "badRequest")
               ELSE Continue(r, CASE k.kind # "deletePeriod" -> "check"
                                  [] kind = "payplan" -> "deleteEntries"
                                  [] OTHER -> "deletePeriod")
            /\ IF k.kind = "updatePeriod"
               THEN /\ old' = [old EXCEPT ![r] = rows[k.id]]
                    /\ kids' = [kids EXCEPT ![r] = DetailsOf(IF kind = "funding" THEN {k.id} ELSE {})]
               ELSE UNCHANGED <<old, kids>>

SendDetail(r, k) ==
    /\ k.kind \in DetailOps /\ UNCHANGED kids
    /\ LET table == IF k.kind = "createDetail" THEN rows ELSE details
       IN  IF table[k.id] = NoRow THEN Reject(r, "notFound") /\ UNCHANGED old
           ELSE /\ Continue(r, CASE k.kind = "createDetail" -> "insertDetail"
                                 [] k.kind = "updateDetail" -> "saveDetail"
                                 [] k.kind = "deleteDetail" -> "deleteDetail")
                /\ old' = [old EXCEPT ![r] = table[k.id]]

Send(r) ==
    /\ pc[r] = "idle"
    /\ \E k \in Requests[kind] :
         /\ q' = [q EXCEPT ![r] = k]
         /\ oid' = [oid EXCEPT ![r] = IF owner = NoOwner THEN Absent ELSE owner.id]
         /\ SendOwner(r, k) \/ SendPeriod(r, k) \/ SendDetail(r, k)
    /\ UNCHANGED seen

---------------------------------------------------------------------------
(* Writes to the owner. *)

\* Create; a budget item may come with its first entry, in the same transaction.
\* The entry's dates are checked after the item is inserted, and undo it.
InsertOwner(r) ==
    /\ pc[r] = "insertOwner" /\ OwnerFree(r)
    /\ LET k == q[r]
           entry == kind = "budget" /\ k.from # Absent
       IN  IF owner # NoOwner THEN Reject(r, "conflict")
           ELSE IF entry /\ ~DatesOK(k) THEN Reject(r, "badRequest")
           ELSE /\ next \in Ids /\ next' = next + 1
                /\ owner' = [id |-> next, meaning |-> k.meaning]
                /\ rows' = IF entry THEN [rows EXCEPT ![next] = [from |-> k.from, to |-> k.to]] ELSE rows
                /\ Answer(r, "ok") /\ UNCHANGED details

\* Mutant: the guard looks at the category alone, and this is per_child.
UncountedChange(r) == pc[r] = "count" /\ Continue(r, "saveOwner") /\ seen' = [seen EXCEPT ![r] = Found(r)]

\* CountEntries, because category or per_child would change.
CountEntries(r) ==
    /\ pc[r] = "count" /\ seen' = [seen EXCEPT ![r] = Found(r)]
    /\ IF Mine(r) # {} THEN Reject(r, "badRequest") ELSE Continue(r, "saveOwner")

\* Save writes the owner as loaded, and inserts it again if it was deleted; if the
\* name was taken meanwhile, the unique index refuses.
SaveOwner(r) ==
    /\ pc[r] = "saveOwner" /\ OwnerFree(r)
    /\ IF owner # NoOwner /\ ~OwnerIs(r)
       THEN Reject(r, IF kind = "funding" THEN "error" ELSE "conflict")
       ELSE /\ owner' = [old[r] EXCEPT !.meaning = IF q[r].meaning = NoMeaning THEN @ ELSE q[r].meaning]
            /\ Answer(r, "ok") /\ UNCHANGED <<rows, details, next>>

\* DELETE of the owner's row; contracts may forbid it.
LockOwner(r) ==
    /\ pc[r] = "lockOwner" /\ OwnerFree(r)
    /\ IF ~OwnerIs(r) THEN Reject(r, "ok")
       ELSE IF referenced THEN Reject(r, "conflict")
       ELSE Continue(r, "cascade")

\* The same statement's ON DELETE CASCADE, which waits for every row; and COMMIT.
Cascade(r) ==
    /\ pc[r] = "cascade" /\ \A i \in Ids : RowFree(r, i) /\ DetailFree(r, i)
    /\ owner' = NoOwner
    /\ rows' = [i \in Ids |-> NoRow] /\ details' = [i \in Ids |-> NoRow]
    /\ Answer(r, "ok") /\ UNCHANGED next

---------------------------------------------------------------------------
(* Periods and what hangs on them. *)

\* Mutant: an omitted date overwrites the loaded one.
Overwritten(r) == [from |-> q[r].from, to |-> q[r].to]

\* A funding update may omit "from"; an omitted "to" means an open end.
Written(r) ==
    [from |-> IF q[r].from = Absent THEN old[r].from ELSE q[r].from, to |-> q[r].to]

\* The first statement of the transaction reads the owner's periods.
Check(r) ==
    /\ pc[r] = "check" /\ seen' = [seen EXCEPT ![r] = Found(r)]
    /\ IF OverlapSeen(r, Written(r))
       THEN Reject(r, IF kind = "budget" THEN "conflict" ELSE "badRequest")
       ELSE Continue(r, IF q[r].kind = "createPeriod" THEN "insertPeriod" ELSE "savePeriod")

\* The second statement, and COMMIT.  A constraint that refuses is answered 500.
InsertPeriod(r) ==
    /\ pc[r] = "insertPeriod" /\ OwnerFree(r)
    /\ IF ~OwnerIs(r) \/ Excluded(next, Written(r)) THEN Reject(r, "error")
       ELSE /\ next \in Ids /\ next' = next + 1
            /\ rows' = [rows EXCEPT ![next] = Written(r)]
            /\ Answer(r, "ok") /\ UNCHANGED <<owner, details>>

\* gorm's Save updates the row and then inserts the properties it was loaded with
\* where they are gone; if there is no row to update it inserts one, unless the
\* properties came first and have no parent.
SavePeriod(r) ==
    LET i == q[r].id
        gone == rows[i] = NoRow
    IN  /\ pc[r] = "savePeriod" /\ RowFree(r, i) /\ (gone => OwnerFree(r))
        /\ IF \/ gone /\ (~OwnerIs(r) \/ Present(kids[r]) # {})
              \/ Excluded(i, Written(r))
           THEN Reject(r, "error")
           ELSE /\ rows' = [rows EXCEPT ![i] = Written(r)]
                /\ details' = [d \in Ids |-> IF details[d] = NoRow THEN kids[r][d] ELSE details[d]]
                /\ Answer(r, "ok") /\ UNCHANGED <<owner, next>>

WithoutDetailsOf(S) ==
    [d \in Ids |-> IF details[d] # NoRow /\ details[d].period \in S THEN NoRow ELSE details[d]]

\* A DELETE of all that hangs on period p waits for the rows it finds.
DetailsFree(r, p) == RowFree(r, p) /\ \A d \in Present(DetailsOf({p})) : DetailFree(r, d)

\* The pay plan store deletes the entries first, in a transaction of their own.
DeleteEntries(r) ==
    /\ pc[r] = "deleteEntries" /\ DetailsFree(r, q[r].id)
    /\ details' = WithoutDetailsOf({q[r].id})
    /\ pc' = [pc EXCEPT ![r] = "deletePeriod"] /\ UNCHANGED <<owner, rows, next, cleared, resp>>

\* Mutant: the foreign key of the details does not cascade.
DeleteWithoutCascade(r) ==
    /\ pc[r] = "deletePeriod" /\ DetailsFree(r, q[r].id)
    /\ rows' = [rows EXCEPT ![q[r].id] = NoRow]
    /\ Answer(r, "ok") /\ UNCHANGED <<owner, details, next>>

\* DELETE by id; the details still there cascade.
DeletePeriod(r) ==
    /\ pc[r] = "deletePeriod" /\ DetailsFree(r, q[r].id)
    /\ rows' = [rows EXCEPT ![q[r].id] = NoRow]
    /\ details' = WithoutDetailsOf({q[r].id})
    /\ Answer(r, "ok") /\ UNCHANGED <<owner, next>>

\* idx_pay_plan_entries_lookup: other entries of the period with its grade and step;
\* an entry whose deletion is not committed is waited for.
Entries(i, e) == {d \in Ids \ {i} : kind = "payplan" /\ details[d] = e}

InsertDetail(r) ==
    LET p == q[r].id
        e == [period |-> p, key |-> q[r].key]
    IN  /\ pc[r] = "insertDetail" /\ RowFree(r, p)
        /\ \A d \in Entries(next, e) : DetailFree(r, d)
        /\ IF rows[p] = NoRow THEN Reject(r, "error")
           ELSE IF Entries(next, e) # {} THEN Reject(r, "conflict")
           ELSE /\ next \in Ids /\ next' = next + 1
                /\ details' = [details EXCEPT ![next] = e]
                /\ Answer(r, "ok") /\ UNCHANGED <<owner, rows>>

\* Save again: a detail that is gone comes back, if its period is still there.
SaveDetail(r) ==
    LET e == [old[r] EXCEPT !.key = q[r].key]
    IN  /\ pc[r] = "saveDetail" /\ RowFree(r, e.period)
        /\ \A d \in Entries(q[r].id, e) \cup {q[r].id} : DetailFree(r, d)
        /\ IF rows[e.period] = NoRow THEN Reject(r, "error")
           ELSE IF Entries(q[r].id, e) # {} THEN Reject(r, "conflict")
           ELSE /\ details' = [details EXCEPT ![q[r].id] = e]
                /\ Answer(r, "ok") /\ UNCHANGED <<owner, rows, next>>

DeleteDetail(r) ==
    /\ pc[r] = "deleteDetail" /\ RowFree(r, old[r].period) /\ DetailFree(r, q[r].id)
    /\ details' = [details EXCEPT ![q[r].id] = NoRow]
    /\ Answer(r, "ok") /\ UNCHANGED <<owner, rows, next>>

---------------------------------------------------------------------------
(* Import of a pay plan: one transaction. *)

\* The entries are deleted first, which waits for an import that has deleted some;
\* then the DELETE of the periods takes its snapshot.
BeginClear(r) ==
    LET entries == DetailsOf(Mine(r))
    IN  /\ pc[r] = "beginClear" /\ \A d \in Present(entries) : DetailFree(r, d)
        /\ kids' = [kids EXCEPT ![r] = entries]
        /\ seen' = [seen EXCEPT ![r] = Found(r)] /\ Continue(r, "clear")

\* It waits for the rows it saw, and deletes those still there.
Clear(r) ==
    LET S == Present(seen[r]) \cap Mine(r)
    IN  /\ pc[r] = "clear" /\ \A i \in Present(seen[r]) : RowFree(r, i)
        /\ cleared' = [cleared EXCEPT ![r] = S]
        /\ seen' = [seen EXCEPT ![r] = [i \in Ids |-> IF i \in S THEN rows[i] ELSE NoRow]]
        /\ pc' = [pc EXCEPT ![r] = "install"] /\ UNCHANGED <<tables, resp>>

FileOK(f) ==
    /\ \A i \in DOMAIN f : f[i].from <= f[i].to
    /\ \A i, j \in DOMAIN f : Overlaps(f[i], f[j]) => i = j

\* Validation, the inserts with their foreign keys, the final read, and COMMIT.
Install(r) ==
    LET f == q[r].file
        new == oid[r] = Absent
        base == IF new THEN next + 1 ELSE next
        line(i) == f[i - base + 1]
        added == base .. (base + Len(f) - 1)
    IN  /\ pc[r] = "install" /\ (new \/ (f # <<>> /\ FileOK(f)) => OwnerFree(r))
        /\ IF new /\ owner # NoOwner THEN Reject(r, "error")
           ELSE IF ~FileOK(f) THEN Reject(r, "badRequest")
           ELSE IF ~new /\ ~OwnerIs(r) THEN Reject(r, IF f = <<>> THEN "notFound" ELSE "error")
           ELSE /\ next \in Ids /\ added \subseteq Ids /\ next' = base + Len(f)
                /\ owner' = IF new THEN [id |-> next, meaning |-> q[r].meaning] ELSE owner
                /\ rows' = [i \in Ids |-> IF i \in added THEN [from |-> line(i).from, to |-> line(i).to]
                                          ELSE IF i \in cleared[r] THEN NoRow ELSE rows[i]]
                /\ details' = [i \in Ids |-> IF i \in added /\ line(i).key # NoKey
                                             THEN [period |-> i, key |-> line(i).key]
                                             ELSE IF kids[r][i] # NoRow THEN NoRow
                                             ELSE WithoutDetailsOf(cleared[r])[i]]
                /\ Answer(r, "ok")

\* An import waits for the owner's row and the DELETE of that owner for the rows
\* the import has deleted, or their entries: Postgres aborts one of the two.
DeadlockVictim(r) ==
    /\ \E s, d \in Reqs :
         /\ pc[s] = "install" /\ cleared[s] \cup Present(kids[s]) # {}
         /\ q[s].file # <<>> /\ FileOK(q[s].file)
         /\ pc[d] = "cascade" /\ r \in {s, d}
    /\ Reject(r, "error")

---------------------------------------------------------------------------

Init ==
    /\ \E s \in Schedules :
         /\ kind = s.kind /\ referenced = s.referenced
         /\ owner = s.owner /\ rows = s.rows /\ details = s.details /\ next = s.next
    /\ pc = [r \in Reqs |-> "idle"] /\ q = [r \in Reqs |-> NoRequest]
    /\ oid = [r \in Reqs |-> Absent]
    /\ old = [r \in Reqs |-> NoRow]
    /\ kids = [r \in Reqs |-> [i \in Ids |-> NoRow]]
    /\ seen = [r \in Reqs |-> [i \in Ids |-> NoRow]]
    /\ cleared = [r \in Reqs |-> {}]
    /\ resp = [r \in Reqs |-> "none"]

WriteOwner(r) == InsertOwner(r) \/ SaveOwner(r) \/ LockOwner(r) \/ Cascade(r)
WritePeriod(r) == InsertPeriod(r) \/ SavePeriod(r) \/ DeleteEntries(r) \/ DeletePeriod(r)
WriteDetail(r) == InsertDetail(r) \/ SaveDetail(r) \/ DeleteDetail(r)

Serve(r) ==
    \/ (CountEntries(r) \/ Check(r) \/ Clear(r)) /\ UNCHANGED <<q, oid, old, kids>>
    \/ BeginClear(r) /\ UNCHANGED <<q, oid, old>>
    \/ /\ \/ WriteOwner(r) \/ WritePeriod(r) \/ WriteDetail(r)
          \/ Install(r) \/ DeadlockVictim(r)
       /\ UNCHANGED locals

\* The client goes away or the request's deadline passes between two statements.
Interrupted(r) == pc[r] \notin {"idle", "done"} /\ Reject(r, "error") /\ UNCHANGED locals

Finished == (\A r \in Reqs : pc[r] = "done") /\ UNCHANGED vars

Next ==
    \/ /\ \E r \in Reqs : Send(r) \/ Serve(r) \/ Interrupted(r)
       /\ UNCHANGED <<kind, referenced>>
    \/ Finished

Spec == Init /\ [][Next]_vars

\* The server keeps executing every request it has accepted.
FairSpec == Spec /\ \A r \in Reqs : WF_vars(Serve(r) /\ UNCHANGED <<kind, referenced>>)

---------------------------------------------------------------------------
(* Properties. *)

\* The types of the tables and of every request's locals.
TypeOK ==
    /\ kind \in Kinds /\ referenced \in BOOLEAN
    /\ owner \in Owner \cup {NoOwner} /\ next \in 1..(MaxId + 1)
    /\ rows \in [Ids -> Period \cup {NoRow}] /\ details \in [Ids -> Detail \cup {NoRow}]
    /\ oid \in [Reqs -> Ids \cup {Absent}]
    /\ seen \in [Reqs -> [Ids -> Period \cup {NoRow}]]
    /\ kids \in [Reqs -> [Ids -> Detail \cup {NoRow}]]
    /\ cleared \in [Reqs -> SUBSET Ids]

\* A budget item never has two amounts on one day: entries that pass the overlap
\* check together are stopped by the constraint, also where Save brings one back.
BudgetOnePerDay == kind = "budget" => OnePerDay(rows)

\* A pay plan or a funding, with no constraint behind the check, comes to have two
\* periods on one day only through a request whose check is out of date when it
\* writes: no sequence of requests one after the other, imports included, does it.
AmbiguousOnlyByRace ==
    [][OnePerDay(rows) /\ ~OnePerDay(rows') =>
         \E r \in Reqs : resp'[r] # resp[r] /\ seen[r] # rows]_vars

\* What a budget item's amounts mean changes under existing entries only if the
\* item or its entries changed after the update had looked at them.
MeaningKept ==
    [][\A r \in Reqs :
         /\ pc[r] = "saveOwner" /\ resp'[r] = "ok" /\ kind = "budget"
         /\ owner # NoOwner /\ owner'.meaning # owner.meaning /\ Present(rows) # {}
         => old[r] # owner \/ seen[r] # rows]_vars

\* No period without its owner and no detail without its period, whatever deletes,
\* imports and saves that bring rows back do to each other.
NothingDangles ==
    /\ owner = NoOwner => Present(rows) = {}
    /\ \A d \in Present(details) : rows[details[d].period] # NoRow

\* Every accepted request is answered: waits for rows and owners end, and an
\* import and a delete of the same plan that wait for each other are separated.
EveryRequestAnswered == \A r \in Reqs : pc[r] \notin {"idle", "done"} ~> pc[r] = "done"
=============================================================================

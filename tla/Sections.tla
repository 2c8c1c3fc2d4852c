------------------------------- MODULE Sections -------------------------------
(***************************************************************************)
(* The sections of one organization under concurrent requests, statement   *)
(* by statement.  Create, rename and assign run single statements on the   *)
(* connection pool; promote and delete run theirs in a READ COMMITTED      *)
(* transaction.  The two unique indexes cover live rows only: one default  *)
(* per organization, one section per case-folded name.                     *)
(***************************************************************************)
CONSTANTS
    Ids,            \* section ids
    Names,          \* section names as stored
    Canon,          \* name -> lower(trim(name))
    Owners,         \* the two contract tables: "child", "employee"
    Organizations,  \* section tables an organization may start from
    Requests,       \* the requests clients may send
    Reqs,           \* in-flight requests
    NoSection, NoRequest, NoName

Section == [name : Names, isDefault : BOOLEAN, live : BOOLEAN]
Slot == Section \cup {NoSection}
Request == [kind : {"create", "rename", "promote", "delete", "assign"},
            id : Ids, name : Names \cup {NoName}, owner : Owners]

\* The create handler's binding refuses a body without a name.
ASSUME RequestAssumption ==
    /\ Requests \subseteq Request
    /\ \A k \in Requests : k.kind = "create" => k.name # NoName
ASSUME SentinelAssumption ==
    NoSection \notin Section /\ NoName \notin Names /\ NoRequest \notin Request

VARIABLES
    sec,        \* committed sections; a deleted one keeps its row, not live
    assigned,   \* section -> contract tables with a contract active today
    pc, q,      \* per request: its next statement; its body
    old,        \* rename: the section as loaded
    seen,       \* promote: the defaults its first UPDATE found
    pend,       \* promote: the rows it has written, locked until it ends
    resp

vars == <<sec, assigned, pc, q, old, seen, pend, resp>>

Live(x) == x # NoSection /\ x.live
DefaultIn(x) == Live(x) /\ x.isDefault

\* What both unique indexes guarantee of any table.
ASSUME OrganizationsAssumption ==
    \A S \in Organizations :
        /\ S \in [Ids -> Slot]
        /\ \A i, j \in Ids : DefaultIn(S[i]) /\ DefaultIn(S[j]) => i = j
        /\ \A i, j \in Ids :
             Live(S[i]) /\ Live(S[j]) /\ Canon[S[i].name] = Canon[S[j].name] => i = j

\* An organization is created together with its default section.
ASSUME DefaultAssumption == \A S \in Organizations : \E i \in Ids : DefaultIn(S[i])

\* What request r's statements see.
View(r) == [i \in Ids |-> IF pend[r][i] # NoSection THEN pend[r][i] ELSE sec[i]]

\* Mutant: statements take no row locks.
NeverLocked(r, i) == TRUE

Unlocked(r, i) == \A s \in Reqs \ {r} : pend[s][i] = NoSection

\* Mutants: a unique index is missing.
NoNameIndex(i, n) == FALSE
NoDefaultIndex(r, i) == FALSE

\* idx_section_org_name: another live section has the name, up to case.
NameTaken(i, n) == \E j \in Ids \ {i} : Live(sec[j]) /\ Canon[sec[j].name] = Canon[n]

\* idx_section_one_default_per_org: another live section is the default ...
DefaultTaken(r, i) == \E j \in Ids \ {i} : DefaultIn(View(r)[j])

\* ... or may be, depending on how a transaction in progress ends: wait for it.
DefaultPending(r, i) ==
    \E s \in Reqs \ {r} : \E j \in Ids \ {i} :
        pend[s][j] # NoSection /\ (DefaultIn(pend[s][j]) \/ DefaultIn(sec[j]))

Goto(r, s) == pc' = [pc EXCEPT ![r] = s] /\ UNCHANGED resp

\* Mutant: a failed promotion leaves its transaction open.
LeakingAnswer(r, code) ==
    /\ pc' = [pc EXCEPT ![r] = "done"] /\ resp' = [resp EXCEPT ![r] = code]
    /\ pend' = IF code = "error" THEN pend
               ELSE [pend EXCEPT ![r] = [i \in Ids |-> NoSection]]

\* The answer ends the request's transaction, if it has one.
Answer(r, code) ==
    /\ pc' = [pc EXCEPT ![r] = "done"] /\ resp' = [resp EXCEPT ![r] = code]
    /\ pend' = [pend EXCEPT ![r] = [i \in Ids |-> NoSection]]

Reject(r, code) == Answer(r, code) /\ UNCHANGED <<sec, assigned>>
Continue(r, s) == Goto(r, s) /\ UNCHANGED <<sec, assigned, pend>>

---------------------------------------------------------------------------
(* The first statement of each request: FindByID, where there is one. *)

Create(r, k) ==
    k.kind = "create" /\ Continue(r, "checkName") /\ UNCHANGED old

Rename(r, k) ==
    /\ k.kind = "rename"
    /\ IF Live(sec[k.id])
       THEN /\ Continue(r, IF k.name = NoName THEN "save" ELSE "checkName")
            /\ old' = [old EXCEPT ![r] = sec[k.id]]
       ELSE Reject(r, "notFound") /\ UNCHANGED old

PromoteToDefault(r, k) ==
    /\ k.kind = "promote" /\ UNCHANGED old
    /\ IF Live(sec[k.id]) THEN Continue(r, "lock") ELSE Reject(r, "notFound")

Delete(r, k) ==
    /\ k.kind = "delete" /\ UNCHANGED old
    /\ IF ~Live(sec[k.id]) THEN Reject(r, "notFound")
       ELSE IF sec[k.id].isDefault THEN Reject(r, "badRequest")
       ELSE Continue(r, "checkChildren")

\* validateSectionOrg, before a contract of the section is inserted.
Assign(r, k) ==
    /\ k.kind = "assign" /\ UNCHANGED old
    /\ IF Live(sec[k.id]) THEN Continue(r, "assign") ELSE Reject(r, "badRequest")

Send(r) ==
    /\ pc[r] = "idle"
    /\ \E k \in Requests :
         /\ q' = [q EXCEPT ![r] = k]
         /\ Create(r, k) \/ Rename(r, k) \/ PromoteToDefault(r, k) \/ Delete(r, k) \/ Assign(r, k)
    /\ UNCHANGED seen

---------------------------------------------------------------------------
(* The statements that follow. *)

\* FindByNameAndOrg compares the stored text; only the index folds case.
CheckName(r) ==
    /\ pc[r] = "checkName"
    /\ LET k == q[r]
           found == {i \in Ids : Live(sec[i]) /\ sec[i].name = k.name}
       IN  IF (IF k.kind = "create" THEN found ELSE found \ {k.id}) # {}
           THEN Reject(r, "conflict")
           ELSE Continue(r, IF k.kind = "create" THEN "insert" ELSE "save")

InsertSection(r) ==
    /\ pc[r] = "insert"
    /\ \E i \in Ids :
         /\ sec[i] = NoSection
         /\ IF NameTaken(i, q[r].name) THEN Reject(r, "conflict")
            ELSE /\ sec' = [sec EXCEPT ![i] =
                               [name |-> q[r].name, isDefault |-> FALSE, live |-> TRUE]]
                 /\ Answer(r, "ok") /\ UNCHANGED assigned

\* gorm's Save writes every column of the section as loaded, the default flag
\* included; when its UPDATE matches no live row it upserts, which clears
\* deleted_at again.
Saved(r) ==
    [old[r] EXCEPT !.name = IF q[r].name = NoName THEN @ ELSE q[r].name]

SaveSection(r) ==
    LET i == q[r].id
    IN  /\ pc[r] = "save" /\ Unlocked(r, i)
        /\ Saved(r).isDefault => ~DefaultPending(r, i)
        /\ IF NameTaken(i, Saved(r).name) \/ (Saved(r).isDefault /\ DefaultTaken(r, i))
           THEN Reject(r, "conflict")
           ELSE sec' = [sec EXCEPT ![i] = Saved(r)] /\ Answer(r, "ok") /\ UNCHANGED assigned

\* The phases in which a promotion holds the organization's advisory lock.
Promoting(r) == pc[r] \in {"clear", "set", "commit"}

\* Mutant: no advisory lock.
UnserializedClear(r) ==
    /\ pc[r] = "lock"
    /\ seen' = [seen EXCEPT ![r] = {i \in Ids : DefaultIn(sec[i])}]
    /\ Continue(r, "clear")

\* pg_advisory_xact_lock, held until the transaction ends; then the clearing
\* UPDATE takes its snapshot.
BeginClear(r) ==
    /\ pc[r] = "lock" /\ \A s \in Reqs : ~Promoting(s)
    /\ seen' = [seen EXCEPT ![r] = {i \in Ids : DefaultIn(sec[i])}]
    /\ Continue(r, "clear")

\* Mutant: the clearing UPDATE runs on the pool instead of the transaction.
AutocommittedClear(r) ==
    /\ pc[r] = "clear" /\ \A i \in seen[r] : Unlocked(r, i)
    /\ sec' = [i \in Ids |-> IF i \in seen[r] /\ DefaultIn(sec[i])
                              THEN [sec[i] EXCEPT !.isDefault = FALSE] ELSE sec[i]]
    /\ Goto(r, "set") /\ UNCHANGED <<assigned, pend>>

\* The clearing UPDATE waits for the locks on the rows it found, and skips those
\* that are not the default any more.
ClearDefault(r) ==
    /\ pc[r] = "clear" /\ \A i \in seen[r] : Unlocked(r, i)
    /\ pend' = [pend EXCEPT ![r] =
                  [i \in Ids |-> IF i \in seen[r] /\ DefaultIn(sec[i])
                                 THEN [sec[i] EXCEPT !.isDefault = FALSE] ELSE NoSection]]
    /\ Goto(r, "set") /\ UNCHANGED <<sec, assigned>>

\* Mutant: RowsAffected is not looked at.
UncheckedSet(r) ==
    LET i == q[r].id
    IN  /\ pc[r] = "set" /\ Unlocked(r, i) /\ ~DefaultPending(r, i)
        /\ IF DefaultTaken(r, i) THEN Reject(r, "error")
           ELSE /\ pend' = IF Live(sec[i])
                           THEN [pend EXCEPT ![r][i] = [sec[i] EXCEPT !.isDefault = TRUE]] ELSE pend
                /\ Goto(r, "commit") /\ UNCHANGED <<sec, assigned>>

\* Zero rows and a unique violation are both answered 500: the zero-row error is
\* gorm.ErrRecordNotFound, which classifyStoreError does not know.
SetDefault(r) ==
    LET i == q[r].id
    IN  /\ pc[r] = "set" /\ Unlocked(r, i) /\ ~DefaultPending(r, i)
        /\ IF ~Live(sec[i]) \/ DefaultTaken(r, i) THEN Reject(r, "error")
           ELSE /\ pend' = [pend EXCEPT ![r][i] = [sec[i] EXCEPT !.isDefault = TRUE]]
                /\ Goto(r, "commit") /\ UNCHANGED <<sec, assigned>>

CommitPromotion(r) ==
    /\ pc[r] = "commit" /\ sec' = View(r)
    /\ Answer(r, "ok") /\ UNCHANGED assigned

\* A Save holds its row while it waits for a promotion at the index, and the
\* promotion waits for that row: Postgres aborts one of the two.
DeadlockVictim(r) ==
    /\ \E s, p \in Reqs :
         /\ pc[s] = "save" /\ Saved(s).isDefault /\ DefaultPending(s, q[s].id)
         /\ Unlocked(s, q[s].id)
         /\ pc[p] = "set" /\ q[p].id = q[s].id
         /\ r \in {s, p}
    /\ Reject(r, "error")

\* HasActiveChildren, then HasActiveEmployees.
CheckAssigned(r) ==
    \/ /\ pc[r] = "checkChildren"
       /\ IF "child" \in assigned[q[r].id] THEN Reject(r, "badRequest")
          ELSE Continue(r, "checkEmployees")
    \/ /\ pc[r] = "checkEmployees"
       /\ IF "employee" \in assigned[q[r].id] THEN Reject(r, "badRequest")
          ELSE Continue(r, "delete")

\* UPDATE sections SET deleted_at WHERE id AND deleted_at IS NULL, and COMMIT;
\* it looks at neither the default flag nor the row count.
DeleteSection(r) ==
    LET i == q[r].id
    IN  /\ pc[r] = "delete" /\ Unlocked(r, i)
        /\ sec' = IF Live(sec[i]) THEN [sec EXCEPT ![i].live = FALSE] ELSE sec
        /\ Answer(r, "ok") /\ UNCHANGED assigned

\* The foreign key of the new contract is satisfied by a deleted row as well.
InsertContract(r) ==
    /\ pc[r] = "assign"
    /\ assigned' = [assigned EXCEPT ![q[r].id] = @ \cup {q[r].owner}]
    /\ Answer(r, "ok") /\ UNCHANGED sec

\* The last active contract of the section in one table ends or moves away.
ContractsEnd ==
    /\ \E i \in Ids, o \in Owners :
         o \in assigned[i] /\ assigned' = [assigned EXCEPT ![i] = @ \ {o}]
    /\ UNCHANGED <<sec, pc, q, old, seen, pend, resp>>

---------------------------------------------------------------------------

Init ==
    /\ sec \in Organizations
    /\ assigned = [i \in Ids |-> {}]
    /\ pc = [r \in Reqs |-> "idle"]
    /\ q = [r \in Reqs |-> NoRequest]
    /\ old = [r \in Reqs |-> NoSection]
    /\ seen = [r \in Reqs |-> {}]
    /\ pend = [r \in Reqs |-> [i \in Ids |-> NoSection]]
    /\ resp = [r \in Reqs |-> "none"]

Serve(r) ==
    \/ BeginClear(r) /\ UNCHANGED <<q, old>>
    \/ /\ \/ CheckName(r) \/ InsertSection(r) \/ SaveSection(r)
          \/ ClearDefault(r) \/ SetDefault(r) \/ CommitPromotion(r) \/ DeadlockVictim(r)
          \/ CheckAssigned(r) \/ DeleteSection(r) \/ InsertContract(r)
       /\ UNCHANGED <<q, old, seen>>

Finished == (\A r \in Reqs : pc[r] = "done") /\ UNCHANGED vars

Next == (\E r \in Reqs : Send(r) \/ Serve(r)) \/ ContractsEnd \/ Finished

Spec == Init /\ [][Next]_vars

\* The server keeps executing every request it has accepted.
FairSpec == Spec /\ \A r \in Reqs : WF_vars(Serve(r))

---------------------------------------------------------------------------
(* Properties. *)

\* The types of the tables and of every request's locals, and the locks: only a
\* promotion under way holds rows, and what it holds has not changed under it.
TypeOK ==
    /\ sec \in [Ids -> Slot]
    /\ assigned \in [Ids -> SUBSET Owners]
    /\ q \in [Reqs -> Request \cup {NoRequest}]
    /\ old \in [Reqs -> Slot]
    /\ seen \in [Reqs -> SUBSET Ids]
    /\ \A r \in Reqs : \A i \in Ids : pend[r][i] # NoSection =>
         /\ pc[r] \in {"set", "commit"} /\ Live(sec[i])
         /\ \E d \in BOOLEAN : pend[r][i] = [sec[i] EXCEPT !.isDefault = d]

\* At most one live section of the organization is the default, whatever renames
\* write back flags they loaded before a promotion.
AtMostOneDefault == \A i, j \in Ids : DefaultIn(sec[i]) /\ DefaultIn(sec[j]) => i = j

\* No two live sections have names equal up to case, though creates and renames
\* check for a duplicate in a statement of its own and compare the exact text.
NamesUnique ==
    \A i, j \in Ids :
        Live(sec[i]) /\ Live(sec[j]) /\ Canon[sec[i].name] = Canon[sec[j].name] => i = j

\* A promotion that is answered has made its section, and no other, the default;
\* no rename or delete can slip in between its two updates and its commit.
PromoteTakesEffect ==
    [][\A r \in Reqs : pc[r] = "commit" /\ resp'[r] = "ok" =>
         \A i \in Ids : DefaultIn(sec'[i]) <=> i = q[r].id]_vars

\* Concurrent promotions do not make each other fail: one fails only where a
\* rename or a delete is at work as well.
PromotesDoNotCollide ==
    \A r \in Reqs : pc[r] = "done" /\ q[r].kind = "promote" /\ resp[r] = "error" =>
        \E s \in Reqs : q[s] # NoRequest /\ q[s].kind \in {"rename", "delete"}

\* The organization keeps a default through any number of promotions, creates and
\* assignments, also those that fail half way: only a delete or a rename that
\* raced with a promotion can leave it without one.
DefaultSurvives ==
    (\A i \in Ids : ~DefaultIn(sec[i])) =>
        \E s, r \in Reqs : /\ q[s] # NoRequest /\ q[s].kind \in {"rename", "delete"} /\ resp[s] = "ok"
                           /\ q[r] # NoRequest /\ q[r].kind = "promote"

\* Every accepted request is answered: promotions queue on the advisory lock and
\* wait for rows and index entries, but never for good.
EveryRequestAnswered == \A r \in Reqs : pc[r] \notin {"idle", "done"} ~> pc[r] = "done"

\* The comment on DeleteByIDAndOrg: the transaction around check and delete keeps
\* a section that has become the default or got a contract from being deleted.
DeletesChecked ==
    [][\A i \in Ids : Live(sec[i]) /\ ~Live(sec'[i]) =>
         ~sec[i].isDefault /\ assigned[i] = {}]_vars
=============================================================================

--------------------------------- MODULE Trail ---------------------------------
(***************************************************************************)
(* The audit trail the HTTP handlers write.  A handler reads, calls its        *)
(* service, and then logs what it believes happened: from what it read before, *)
(* and from the answer of the service.  Requests overlap between any two       *)
(* steps, so what is logged and what was done can differ.                      *)
(*                                                                           *)
(* A row has one value that stands for its fields.  The service's write is one *)
(* step, or a load and a save where it saves the whole row it loaded; the       *)
(* statements inside it are the other modules' subject.                        *)
(***************************************************************************)
EXTENDS Requests, Programs, SequencesExt

CONSTANTS
    MaxRow,        \* bound on row ids
    PageSize,      \* rows of one page of an export
    DenialLimit,   \* entries about one user's denials in one window
    Missing,       \* no If-Match header
    Waived         \* If-Match: *

ASSUME TrailAssumption == MaxRow \in Nat /\ PageSize \in Nat \ {0} /\ DenialLimit \in Nat \ {0}
ASSUME TrailSentinels ==
    /\ NoRow \notin [under : 0..MaxRow, val : Nat, ver : Nat] \cup [emitted : Nat, suppressed : Nat]
    /\ {Missing, Waived} \cap Nat = {}

VARIABLES
    rows,       \* the records: their parent's row (0: none), their value, their version
    nextRow,    \* the next id of the database
    trail,      \* the entries, as they were logged
    done,       \* history: what the services changed
    todo,       \* the rest of each handler
    view,       \* what each handler holds
    throttle    \* one user's window of denials (NoRow: none)

trailVars == <<rows, nextRow, trail, done, todo, view, throttle>>

RowId == 1..MaxRow
Row == [under : 0..MaxRow, val : Nat, ver : Nat]
There(i) == rows[i] # NoRow

Under(S) == {j \in RowId : There(j) /\ rows[j].under \in S}
\* A row and the rows that ON DELETE CASCADE takes with it: there are three levels.
Below(i) == {i} \cup Under({i}) \cup Under(Under({i}))

Nothing == [before |-> NoRow, other |-> NoRow, loaded |-> NoRow, after |-> NoRow, id |-> 0,
            total |-> 0, offset |-> 0, file |-> <<>>, carried |-> 0]

Routes ==
    {PayPlanReads, PayPlanWrites, PayPlanPeriods, PayPlanEntries, PayPlanFiles,
     BudgetItems, BudgetItemWrites, BudgetItemEntries,
     FundingReads, FundingWrites, FundingPeriods, FundingProperties, FundingFile,
     Sections, Organizations, OrganizationWrites,
     ChildReads, ChildWrites, ChildContracts, ChildContractIntents, ChildContractMoves, ChildFiles,
     EmployeeReads, EmployeeWrites, EmployeeContracts, EmployeeContractIntents,
     EmployeeContractMoves, EmployeeFiles, Workbooks, AttendanceReads, AttendanceWrites,
     BillReads, BillWrites, BillReports, BillVouchers,
     UserReads, UserWrites, UserRemovals, Memberships, MembershipReads, Superadmins,
     Passwords, Statistics, Finances, Estimates, Promotions, AuditTrail, Denials}
Handlers ==
    [h \in UNION {DOMAIN t : t \in Routes} |-> (CHOOSE t \in Routes : h \in DOMAIN t)[h]]

\* The row and its sibling, the parent the path names, the value asked for, the
\* version stated, whether the user is known.
TrailRequests ==
    [kind : {"trail"}, handler : DOMAIN Handlers, id : RowId, other : RowId, under : 0..MaxRow,
     val : Nat, stated : Nat \cup {Waived, Missing}, known : BOOLEAN]

Entry(r, act, ids, old, new) == [by |-> r, act |-> act, ids |-> ids, old |-> old, new |-> new]
SmallerOf(a, b) == IF a < b THEN a ELSE b

---------------------------------------------------------------------------
(* Steps. *)

At(r, step) == pc[r] = "trail" /\ Head(todo[r]) = step

Proceed(r) ==
    /\ todo' = [todo EXCEPT ![r] = Tail(@)]
    /\ IF Len(todo[r]) = 1 THEN Answer(r, "ok") ELSE UNCHANGED <<pc, resp>>

Stop(r, code) == Answer(r, code) /\ UNCHANGED todo

\* An error before anything was changed.
Reject(r) == Stop(r, "refused") /\ UNCHANGED <<rows, nextRow, trail, done, view, throttle>>

Hold(r, field, x) == view' = [view EXCEPT ![r][field] = x]
Target(r) == rows[q[r].id]
Reached(r) == There(q[r].id) /\ Target(r).under = q[r].under

Skip(r) ==
    /\ At(r, "list")
    /\ Proceed(r) \/ Stop(r, "refused")
    /\ UNCHANGED <<rows, nextRow, trail, done, view, throttle>>

IfMatch(r) ==
    /\ At(r, "ifMatch")
    /\ IF q[r].stated = Missing THEN Stop(r, "refused") ELSE Proceed(r)
    /\ UNCHANGED <<rows, nextRow, trail, done, view, throttle>>

\* A row the handler needs: for the diff, the snapshot or the name in the entry.
Fetch(r) ==
    \/ /\ At(r, "fetch") /\ Reached(r)
       /\ Hold(r, "before", Target(r)) /\ Proceed(r)
       /\ UNCHANGED <<rows, nextRow, trail, done, throttle>>
    \/ At(r, "fetch") /\ Reject(r)

\* A row that only enriches the entry: an error is passed over.
Peek(r) ==
    /\ \/ At(r, "peek") /\ \E x \in {Target(r), NoRow} : Hold(r, "before", x)
       \/ At(r, "peekOther") /\ \E x \in {rows[q[r].other], NoRow} : Hold(r, "other", x)
    /\ Proceed(r)
    /\ UNCHANGED <<rows, nextRow, trail, done, throttle>>

---------------------------------------------------------------------------
(* The services. *)

Val(x) == IF x = NoRow THEN NoRow ELSE x.val
Change(r, i, old, new) ==
    [by |-> r, id |-> i, old |-> Val(old), new |-> Val(new),
     gone |-> IF new = NoRow THEN Below(i) ELSE {}]
FreshRow(r, under) == [under |-> under, val |-> q[r].val, ver |-> 1]
Parent(i) == i # 0 => There(i)

\* What If-Match stated, if it stated one.
Stated(r) == q[r].stated \notin {Waived, Missing}
\* Mutant: the version that was stated is required, and then not compared.
Unconditional(r) == TRUE
AsStated(r) == Stated(r) => Target(r).ver = q[r].stated

Write(r, new, changes) ==
    /\ rows' = new /\ done' = done \o changes /\ Proceed(r)
    /\ UNCHANGED <<trail, throttle>>

Insert(r) ==
    /\ At(r, "create") \/ (At(r, "assign") /\ ~Reached(r))
    /\ Parent(q[r].under) /\ nextRow \in RowId
    /\ LET x == FreshRow(r, q[r].under) IN Write(r, [rows EXCEPT ![nextRow] = x], <<Change(r, nextRow, NoRow, x)>>)
    /\ Hold(r, "id", nextRow) /\ nextRow' = nextRow + 1

\* A voucher that is the child's already is answered, and logged, as if it were new.
Assign(r) ==
    /\ At(r, "assign") /\ Reached(r)
    /\ Hold(r, "id", q[r].id) /\ Proceed(r)
    /\ UNCHANGED <<rows, nextRow, trail, done, throttle>>

Update(r) ==
    /\ At(r, "change")
    /\ Reached(r) /\ AsStated(r)
    /\ LET x == [Target(r) EXCEPT !.val = q[r].val, !.ver = @ + 1]
       IN  /\ Write(r, [rows EXCEPT ![q[r].id] = x], <<Change(r, q[r].id, Target(r), x)>>)
           /\ view' = [view EXCEPT ![r].after = x, ![r].id = q[r].id]
    /\ UNCHANGED nextRow

\* A contract is closed, and followed by a successor.
Amend(r) ==
    /\ At(r, "amend")
    /\ Reached(r) /\ AsStated(r) /\ nextRow \in RowId
    /\ LET closed == [Target(r) EXCEPT !.val = 0, !.ver = @ + 1]
           successor == FreshRow(r, q[r].under)
       IN  /\ Write(r, [rows EXCEPT ![q[r].id] = closed, ![nextRow] = successor],
                    <<Change(r, q[r].id, Target(r), closed), Change(r, nextRow, NoRow, successor)>>)
           /\ view' = [view EXCEPT ![r].after = closed, ![r].id = nextRow]
    /\ nextRow' = nextRow + 1

\* The boundary between two contracts: both change, or neither.
Move(r) ==
    /\ At(r, "move")
    /\ Reached(r) /\ There(q[r].other)
    /\ LET moved(x) == [x EXCEPT !.val = q[r].val, !.ver = @ + 1]
           a == Target(r)
           b == rows[q[r].other]
       IN  /\ Write(r, [rows EXCEPT ![q[r].id] = moved(a), ![q[r].other] = moved(b)],
                    <<Change(r, q[r].id, a, moved(a)), Change(r, q[r].other, b, moved(b))>>)
           /\ view' = [view EXCEPT ![r].after = moved(a), ![r].loaded = moved(b)]
    /\ UNCHANGED nextRow

LoadRow(r) ==
    /\ At(r, "load") /\ Reached(r)
    /\ Hold(r, "loaded", Target(r)) /\ Proceed(r)
    /\ UNCHANGED <<rows, nextRow, trail, done, throttle>>

\* Save writes every column of the loaded row; a row that has gone is inserted again.
SaveRow(r) ==
    /\ At(r, "save") /\ Parent(q[r].under)
    /\ LET x == [view[r].loaded EXCEPT !.val = q[r].val]
       IN  /\ Write(r, [rows EXCEPT ![q[r].id] = x], <<Change(r, q[r].id, Target(r), x)>>)
           /\ view' = [view EXCEPT ![r].after = x, ![r].id = q[r].id]
    /\ UNCHANGED nextRow

Check(r) ==
    /\ At(r, "check") /\ Reached(r) /\ Proceed(r)
    /\ UNCHANGED <<rows, nextRow, trail, done, view, throttle>>

Without(S) == [j \in RowId |-> IF j \in S THEN NoRow ELSE rows[j]]

Delete(r) ==
    /\ \/ At(r, "drop")
       \/ At(r, "remove") /\ Reached(r) /\ AsStated(r)
    /\ LET i == q[r].id
       IN  Write(r, IF There(i) THEN Without(Below(i)) ELSE rows,
                 IF There(i) THEN <<Change(r, i, Target(r), NoRow)>> ELSE <<>>)
    /\ UNCHANGED <<nextRow, view>>

\* An import in one transaction: what is found by its name keeps its row.  What hung
\* below it is deleted (and created anew), or, from a funding, some of its properties.
Import(r, gone) ==
    LET i == IF Reached(r) THEN q[r].id ELSE nextRow
        x == FreshRow(r, q[r].under)
        below == IF Reached(r) THEN gone ELSE {}
    IN  /\ i \in RowId /\ Parent(q[r].under)
        /\ Write(r, [Without(below) EXCEPT ![i] = x], <<[Change(r, i, rows[i], x) EXCEPT !.gone = below]>>)
        /\ Hold(r, "id", i) /\ nextRow' = nextRow + (IF Reached(r) THEN 0 ELSE 1)

Replace(r) == At(r, "replace") /\ Import(r, Below(q[r].id) \ {q[r].id})
Merge(r) == At(r, "merge") /\ \E gone \in SUBSET Under(Under({q[r].id})) : Import(r, gone)

\* The rules of a service, a lost race, or the database refuse what is asked.
Decline(r) ==
    /\ \E s \in {"create", "change", "amend", "move", "load", "save", "check", "drop",
                 "assign", "remove", "replace", "merge"} : At(r, s)
    /\ Reject(r)

\* What comes after the change is stored can still fail, and the answer is an error.
Follow(r) ==
    /\ At(r, "reread") \/ At(r, "revoke")
    /\ Proceed(r) \/ Stop(r, "failed")
    /\ UNCHANGED <<rows, nextRow, trail, done, view, throttle>>

\* An actor whose password is asked again: a wrong one is logged, and refused.
Password(r) ==
    /\ At(r, "password")
    /\ \/ (Proceed(r) \/ Stop(r, "refused")) /\ UNCHANGED trail
       \/ Stop(r, "refused") /\ trail' = Append(trail, Entry(r, "refusal", {q[r].id}, NoRow, NoRow))
    /\ UNCHANGED <<rows, nextRow, done, view, throttle>>

---------------------------------------------------------------------------
(* Entries: who, what, the rows named, and the values, where the entry has any. *)

Log(r, step, entries) ==
    /\ At(r, step)
    /\ trail' = trail \o entries /\ Proceed(r)
    /\ UNCHANGED <<rows, nextRow, done, view, throttle>>

\* A diff of two answers; without one, or when nothing differs, the entry has no values.
Diff(r, i, old, new) ==
    IF old = NoRow \/ old.val = new.val
    THEN Entry(r, "update", {i}, NoRow, NoRow)
    ELSE Entry(r, "update", {i}, old.val, new.val)

LogResourceCreate(r) ==
    Log(r, "logCreate", <<Entry(r, "create", {view[r].id}, NoRow, NoRow)>>)

LogResourceUpdateWithChanges(r) ==
    Log(r, "logChanges", <<Diff(r, q[r].id, view[r].before, view[r].after)>>)

LogResourceUpdate(r) ==
    Log(r, "logUpdate", <<Entry(r, "update", {q[r].id}, NoRow, NoRow)>>)

LogResourceDelete(r) ==
    Log(r, "logDelete", <<Entry(r, "delete", {q[r].id}, NoRow, NoRow)>>)

LogResourceDeleteWithSnapshot(r) ==
    Log(r, "logSnapshot", <<Entry(r, "delete", {q[r].id}, Val(view[r].before), NoRow)>>)

LogAmended(r) ==
    Log(r, "logAmended", <<Diff(r, q[r].id, view[r].before, view[r].after),
                           Entry(r, "create", {view[r].id}, NoRow, NoRow)>>)

LogMoved(r) ==
    Log(r, "logMoved", <<Diff(r, q[r].id, view[r].before, view[r].after),
                         Diff(r, q[r].other, view[r].other, view[r].loaded)>>)

\* One entry for each organization of the user, and one for the installation; only
\* the latter when the memberships cannot be read.
LogResourceUpdateAcrossOrgs(r) ==
    \E n \in 1..2 :
        Log(r, "logAcrossOrgs", [i \in 1..n |-> Diff(r, q[r].id, view[r].before, view[r].after)])

\* The old role is the one read before, the new one is the one asked for.
LogRoleChange(r) ==
    Log(r, "logRole", <<Entry(r, "update", {q[r].id}, Val(view[r].before), q[r].val)>>)

LogSuperAdminChange(r) ==
    Log(r, "logGranted", <<Entry(r, "update", {q[r].id}, NoRow, q[r].val)>>)

LogResourceImport(r) ==
    Log(r, "logImport", <<Entry(r, "import", {view[r].id}, NoRow, NoRow)>>)

LogDataExport(r) ==
    Log(r, "logExport", <<Entry(r, "export", ToSet(view[r].file), NoRow, NoRow)>>)

LogAccessDenied(r) ==
    Log(r, "logDenied", <<Entry(r, "denied", {}, NoRow, view[r].carried)>>)

---------------------------------------------------------------------------
(* An export reads page after page; each counts the rows and then reads the next. *)

Listed == {i \in RowId : There(i) /\ rows[i].under = 0}

\* ORDER BY names: rows of the same names come in any order.
Orders ==
    {s \in SetToSeqs(Listed) :
        \A i, j \in DOMAIN s : i < j => rows[s[i]].val <= rows[s[j]].val}

CountRows(r) ==
    /\ At(r, "count")
    /\ \/ Hold(r, "total", Cardinality(Listed)) /\ Proceed(r)
       \/ Stop(r, "refused") /\ UNCHANGED view
    /\ UNCHANGED <<rows, nextRow, trail, done, throttle>>

\* fetchAllChildren, fetchAllEmployees: until as many rows were read as were counted.
ReadPage(r) ==
    /\ At(r, "page")
    /\ \E s \in Orders :
         LET v == view[r]
             file == v.file \o SubSeq(s, v.offset + 1, SmallerOf(v.offset + PageSize, Len(s)))
         IN  /\ view' = [view EXCEPT ![r].file = file, ![r].offset = SmallerOf(@ + PageSize, MaxRow)]
             /\ IF Len(file) >= v.total
                THEN Proceed(r)
                ELSE todo' = [todo EXCEPT ![r] = <<"count">> \o @] /\ UNCHANGED <<pc, resp>>
    /\ UNCHANGED <<rows, nextRow, trail, done, throttle>>

---------------------------------------------------------------------------
(* 403 answers: so many entries about a user and a window, the others are counted. *)

\* denialThrottle.admit, after a sweep that may have forgotten the window; late: the
\* window has ended.
Admit(r) ==
    /\ At(r, "admit")
    /\ IF ~q[r].known
       THEN Proceed(r) /\ UNCHANGED <<view, throttle>>
       ELSE \E late, sweep \in BOOLEAN :
              LET forgotten == throttle = NoRow \/ (late /\ sweep /\ throttle.suppressed = 0)
                  t == IF forgotten THEN [emitted |-> 0, suppressed |-> 0]
                       ELSE [throttle EXCEPT !.emitted = IF late THEN 0 ELSE @]
              IN  IF t.emitted >= DenialLimit
                  THEN /\ throttle' = [t EXCEPT !.suppressed = @ + 1]
                       /\ Stop(r, "denied") /\ UNCHANGED view
                  ELSE /\ throttle' = [emitted |-> t.emitted + 1, suppressed |-> 0]
                       /\ Hold(r, "carried", t.suppressed) /\ Proceed(r)
    /\ UNCHANGED <<rows, nextRow, trail, done>>

---------------------------------------------------------------------------
TrailStep(r) ==
    \/ Skip(r) \/ IfMatch(r) \/ Fetch(r) \/ Peek(r) \/ Insert(r) \/ Assign(r) \/ Update(r) \/ Amend(r)
    \/ Move(r) \/ LoadRow(r) \/ SaveRow(r) \/ Check(r) \/ Delete(r) \/ Replace(r) \/ Merge(r) \/ Decline(r)
    \/ Follow(r) \/ Password(r) \/ CountRows(r) \/ ReadPage(r) \/ Admit(r)
    \/ LogResourceCreate(r) \/ LogResourceUpdate(r) \/ LogResourceUpdateWithChanges(r)
    \/ LogResourceDelete(r) \/ LogResourceDeleteWithSnapshot(r) \/ LogAmended(r) \/ LogMoved(r)
    \/ LogResourceUpdateAcrossOrgs(r) \/ LogRoleChange(r) \/ LogSuperAdminChange(r)
    \/ LogResourceImport(r) \/ LogDataExport(r) \/ LogAccessDenied(r)

\* A client states a version that it was given: the row has it, or had it.
Given(k) == k.stated \in Nat => k.id < nextRow /\ (There(k.id) => k.stated <= rows[k.id].ver)
Begin(r) == Given(q'[r]) /\ todo' = [todo EXCEPT ![r] = Handlers[q'[r].handler]]

---------------------------------------------------------------------------
(* What the trail says of what was done. *)

Handled == {r \in Reqs : Sent(r) /\ q[r].kind = "trail" /\ pc[r] = "done"}
EntriesOf(r) == {i \in DOMAIN trail : trail[i].by = r}
ChangesOf(r) == {i \in DOMAIN done : done[i].by = r}
Handler(r) == q[r].handler

\* The endpoints that can fail after their change, and then leave no entry.
LateFailures == {"ResetPassword", "ImportFunding", "UploadISBJ"}
ReadsOnly(r) == \A i \in EntriesOf(r) : trail[i].act \in {"export", "denied"}

\* The entry of a voucher that was there names it as created.
FoundThere(r) == Handler(r) = "AssignVoucher" /\ ChangesOf(r) = {}

\* Another request took the row away while this one was deleting it.
DeletedTwice(r) ==
    \E i \in DOMAIN done : Overlap(r, done[i].by) /\ q[r].id \in done[i].gone

\* However requests overlap, each row a request changed is named by an entry of it, and
\* each entry of a change names a row its request changed, except that two requests
\* that delete one row both log it, and a voucher that was assigned already is logged
\* as created.  A request that was refused changed and logged
\* nothing, and the one that fails after its change is a password reset, a funding
\* import, an upload, or a superadmin change, and only the last is logged.
ChangesLogged ==
    \A r \in Handled :
        LET named == UNION {trail[i].ids : i \in EntriesOf(r)}
            changed == {done[i].id : i \in ChangesOf(r)}
        IN  CASE resp[r] = "ok" ->
                   /\ changed \subseteq named
                   /\ ReadsOnly(r) \/ named \subseteq changed \/ DeletedTwice(r) \/ FoundThere(r)
              [] resp[r] = "refused" ->
                   changed = {} /\ \A i \in EntriesOf(r) : trail[i].act = "refusal"
              [] resp[r] = "failed" ->
                   \/ Handler(r) \in LateFailures /\ EntriesOf(r) = {}
                   \/ Handler(r) = "SetSuperAdmin" /\ changed = named
              [] OTHER -> changed = {} /\ EntriesOf(r) = {}

\* No denial is lost: those of a known user are written, carried by the next entry
\* that is written, or still counted in the window.
DenialsCounted ==
    LET denied == {r \in Reqs : Sent(r) /\ q[r].kind = "trail" /\ Handler(r) = "Refused" /\ q[r].known}
        admitted == {r \in denied : pc[r] = "done" \/ (pc[r] = "trail" /\ ~At(r, "admit"))}
        written == {r \in admitted : resp[r] # "denied"}
    IN  Cardinality(admitted) =
            Cardinality(written) + MapThenSumSet(LAMBDA r : view[r].carried, written)
            + (IF throttle = NoRow THEN 0 ELSE throttle.suppressed)

TrailComplete == ChangesLogged /\ DenialsCounted

HasValues(e) == e.old # NoRow \/ e.new # NoRow
Versioned(r) == Stated(r) /\ "ifMatch" \in ToSet(Handlers[Handler(r)])
Touched(c) == {c.id} \cup c.gone

\* The values of an entry are those of the change it is about, when its request stated
\* the version it changes; otherwise they differ only if a request that overlapped it
\* changed the row.  An old role that could not be read is left out.
ValuesTrue ==
    \A r \in Handled : \A e \in EntriesOf(r), c \in ChangesOf(r) :
        HasValues(trail[e]) /\ done[c].id \in trail[e].ids =>
            \/ trail[e].old \in {done[c].old, NoRow} /\ trail[e].new = done[c].new
            \/ /\ ~Versioned(r)
               /\ \E i \in DOMAIN done : Overlap(r, done[i].by) /\ done[c].id \in Touched(done[i])

Exporting(r) == Sent(r) /\ q[r].kind = "trail" /\ "page" \in ToSet(Handlers[Handler(r)])
\* What was changed since an export began.
Since(r) == {i \in DOMAIN done : done[i].by \notin prior[r]}

\* A file has every row once, when nothing changes while its pages are read and no two
\* rows have the same names; a workbook's entry names what the file has.  An export
\* that waits for more rows than there are to read has met a row that was deleted and
\* one that was created: it never ends.
FilesWhole ==
    \A r \in Reqs : Exporting(r) =>
        /\ pc[r] = "done" /\ resp[r] = "ok" =>
             /\ \A e \in EntriesOf(r) : trail[e].ids = ToSet(view[r].file)
             /\ \/ IsInjective(view[r].file) /\ ToSet(view[r].file) = Listed
                \/ Since(r) # {}
                \/ \E i, j \in Listed : i # j /\ rows[i].val = rows[j].val
        /\ At(r, "count") /\ Len(view[r].file) < Cardinality(Listed) /\ view[r].offset >= Cardinality(Listed) =>
             \E i, j \in Since(r) : done[i].new = NoRow /\ done[j].old = NoRow

TrailTrue == ValuesTrue /\ FilesWhole
=============================================================================

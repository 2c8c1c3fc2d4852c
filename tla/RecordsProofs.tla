----------------------------- MODULE RecordsProofs -----------------------------
(***************************************************************************)
(* Theorems about Records: users and memberships, persons with their         *)
(* contracts, attendance, vouchers and bills, for every number of requests.  *)
(***************************************************************************)
EXTENDS Records, FiniteSetTheorems, TLAPS

\* A step of a request.
StepOf(r) ==
    Send(r) \/ OfMembers(r) \/ OfPersons(r) \/ OfAttendance(r) \/ OfVouchers(r) \/ OfTrail(r)

LocalsKnown ==
    /\ DOMAIN pc = Reqs /\ DOMAIN q = Reqs /\ DOMAIN resp = Reqs /\ DOMAIN prior = Reqs
    /\ DOMAIN loaded = Reqs /\ DOMAIN target = Reqs /\ DOMAIN preloaded = Reqs
    /\ DOMAIN held = Reqs /\ DOMAIN discovery = Reqs

\* A step of r moves r alone.
Moves(r) ==
    \A s \in Reqs \ {r} :
        /\ pc'[s] = pc[s] /\ q'[s] = q[s] /\ resp'[s] = resp[s] /\ prior'[s] = prior[s]
        /\ loaded'[s] = loaded[s] /\ target'[s] = target[s] /\ preloaded'[s] = preloaded[s]
        /\ held'[s] = held[s] /\ discovery'[s] = discovery[s]

Advances(r) ==
    /\ pc[r] \notin {"idle", "done"}
    /\ UNCHANGED <<pc, resp>> \/ \E v : Answer(r, v) \/ Goto(r, v)

\* A statement of a handler of the trail answers, or leaves the request where it is.
LEMMA TrailAnswers ==
    ASSUME NEW r, OfTrail(r)
    PROVE  pc[r] = "trail" /\ (UNCHANGED <<pc, resp>> \/ \E v : Answer(r, v))
<1>1. ASSUME NEW step, At(r, step) PROVE pc[r] = "trail"
  BY <1>1 DEF At
<1>2. pc[r] = "trail"
  BY <1>1 DEF OfTrail, TrailStep, Skip, IfMatch, Fetch, Peek, Insert, Assign, Update, Amend, Move, LoadRow,
     SaveRow, Check, Delete, Replace, Merge, Decline, Follow, Password, CountRows, ReadPage, Admit, Log,
     LogResourceCreate, LogResourceUpdate, LogResourceUpdateWithChanges, LogResourceDelete,
     LogResourceDeleteWithSnapshot, LogAmended, LogMoved, LogResourceUpdateAcrossOrgs, LogRoleChange,
     LogSuperAdminChange, LogResourceImport, LogDataExport, LogAccessDenied
<1>3. ASSUME Proceed(r) PROVE UNCHANGED <<pc, resp>> \/ \E v : Answer(r, v)
  BY <1>3 DEF Proceed
<1>4. ASSUME NEW v, Stop(r, v) PROVE \E w : Answer(r, w)
  BY <1>4 DEF Stop
<1>5. ASSUME Reject(r) PROVE \E w : Answer(r, w)
  BY <1>4, <1>5 DEF Reject
<1>6. UNCHANGED <<pc, resp>> \/ \E v : Answer(r, v)
  BY <1>3, <1>4, <1>5 DEF OfTrail, TrailStep, Skip, IfMatch, Fetch, Peek, Insert, Assign, Update, Amend, Move,
     LoadRow, SaveRow, Check, Delete, Replace, Merge, Import, Write, Decline, Follow, Password, CountRows, ReadPage,
     Admit, Log, LogResourceCreate, LogResourceUpdate, LogResourceUpdateWithChanges, LogResourceDelete,
     LogResourceDeleteWithSnapshot, LogAmended, LogMoved, LogResourceUpdateAcrossOrgs, LogRoleChange,
     LogSuperAdminChange, LogResourceImport, LogDataExport, LogAccessDenied
<1> QED  BY <1>2, <1>6

\* Every step but the first answers the request, goes on to another statement, or stays.
LEMMA AnswersOrGoes ==
    ASSUME NEW r \in Reqs, StepOf(r), ~Send(r)
    PROVE  Advances(r)
<1>1. ASSUME OfMembers(r) PROVE Advances(r)
  BY <1>1 DEF Advances, OfMembers, MemberStep, Authorize, Verify, Load, Count, WriteUser, SaveUser, SetSuperAdmin, DeleteUser,
     PurgeUser, FindMembership, OrgAccess, Exists, AddMember, UpdateRole, RemoveMember, PutRole, FindOrg, UpdateOrg,
     DeleteOrg, PurgeOrg, Refuse, Then
<1>2. ASSUME OfPersons(r) PROVE Advances(r)
  BY <1>2 DEF Advances, OfPersons, PersonStep, CreatePerson, LoadPerson, SavePerson, DeletePerson, CheckContract,
     InsertContract, DeleteContract, MatchPerson, ClearContracts, CheckImport, CommitImport, PersonReply, PersonGoto
<1>3. ASSUME OfAttendance(r) PROVE Advances(r)
  BY <1>3 DEF Advances, OfAttendance, AttendanceStep, FindAttendanceChild, FindDay, InsertAttendance, ReloadAttendance,
     LoadAttendance, SaveAttendance, FindAttendance, RemoveAttendance, AttendanceReply, AttendanceGoto
<1>4. ASSUME OfVouchers(r) PROVE Advances(r)
  BY <1>4 DEF Advances, OfVouchers, VoucherStep, FindHash, FindMonth, StoreBill, KnownVouchers, MatchRow, Link, FindBill,
     DropBill, FindVoucherChild, InsertVoucher, WhoseVoucher, FindVoucher, DropVoucher, VoucherReply, VoucherGoto
<1>5. ASSUME OfTrail(r) PROVE Advances(r)
  BY <1>5, TrailAnswers DEF Advances
<1> QED  BY <1>1, <1>2, <1>3, <1>4, <1>5 DEF StepOf

\* A step moves its own request alone, and a request that was sent keeps its body.
LEMMA StepMoves ==
    ASSUME LocalsKnown, NEW r \in Reqs, StepOf(r)
    PROVE  /\ Moves(r) /\ LocalsKnown' /\ UNCHANGED menu
           /\ pc[r] # "idle" => q'[r] = q[r] /\ prior'[r] = prior[r]
           /\ resp'[r] = resp[r] \/ pc'[r] = "done"
<1>1. CASE Send(r)
  BY <1>1 DEF Send, Submit, Goto, Moves, LocalsKnown, recordVars, memberVars, personVars, attendanceVars,
     voucherVars
<1>2. CASE ~Send(r)
  <2>1. UNCHANGED <<q, prior, menu>>
    BY <1>2 DEF StepOf, OfMembers, OfPersons, OfAttendance, OfVouchers, OfTrail, clientVars
  <2>2. LocalsKnown' /\ Moves(r)
    <3>1. UNCHANGED <<pc, resp>> \/ \E v : Answer(r, v) \/ Goto(r, v)
      BY <1>2, AnswersOrGoes DEF Advances
    <3>2. /\ DOMAIN pc' = Reqs /\ DOMAIN resp' = Reqs
          /\ \A s \in Reqs \ {r} : pc'[s] = pc[s] /\ resp'[s] = resp[s]
      BY <3>1 DEF Answer, Goto, LocalsKnown
    <3>3. /\ DOMAIN loaded' = Reqs /\ DOMAIN target' = Reqs /\ DOMAIN preloaded' = Reqs
          /\ DOMAIN held' = Reqs /\ DOMAIN discovery' = Reqs
          /\ \A s \in Reqs \ {r} :
               /\ loaded'[s] = loaded[s] /\ target'[s] = target[s] /\ preloaded'[s] = preloaded[s]
               /\ held'[s] = held[s] /\ discovery'[s] = discovery[s]
      <4>1. CASE OfMembers(r)
        BY <4>1 DEF LocalsKnown, OfMembers, MemberStep, Authorize, Verify, Load, Count, WriteUser, FindMembership,
           OrgAccess, Exists, AddMember, UpdateRole, RemoveMember, FindOrg, UpdateOrg, DeleteOrg, PurgeOrg,
           personVars, attendanceVars, voucherVars
      <4>2. CASE OfPersons(r)
        BY <4>2 DEF LocalsKnown, OfPersons, PersonStep, CreatePerson, LoadPerson, SavePerson, DeletePerson,
           CheckContract, InsertContract, DeleteContract, MatchPerson, ClearContracts, CheckImport, CommitImport,
           memberVars
      <4>3. CASE OfAttendance(r)
        BY <4>3 DEF LocalsKnown, OfAttendance, AttendanceStep, FindAttendanceChild, FindDay, InsertAttendance,
           ReloadAttendance, LoadAttendance, SaveAttendance, FindAttendance, RemoveAttendance, memberVars, voucherVars
      <4>4. CASE OfVouchers(r)
        BY <4>4 DEF LocalsKnown, OfVouchers, VoucherStep, FindHash, FindMonth, StoreBill, KnownVouchers, MatchRow,
           Link, FindBill, DropBill, FindVoucherChild, InsertVoucher, WhoseVoucher, FindVoucher, DropVoucher,
           memberVars, personVars, attendanceVars
      <4>5. CASE OfTrail(r)
        BY <4>5 DEF LocalsKnown, OfTrail, recordVars, memberVars, personVars, attendanceVars, voucherVars
      <4> QED  BY <1>2, <4>1, <4>2, <4>3, <4>4, <4>5 DEF StepOf
    <3> QED  BY <2>1, <3>2, <3>3 DEF Moves, LocalsKnown
  <2>3. resp'[r] = resp[r] \/ pc'[r] = "done"
    BY <1>2, AnswersOrGoes DEF Advances, Answer, Goto, LocalsKnown
  <2> QED  BY <2>1, <2>2, <2>3
<1> QED  BY <1>1, <1>2

---------------------------------------------------------------------------
(* Requests fit their statements. *)

\* The statements of each kind of request.
Fits(kind, at) ==
    \/ at = "done"
    \/ kind \in {"setSuper", "purgeUser"} /\ at \in {"authorize", "load", "count", "write"}
    \/ kind \in UserKinds /\ at \in {"authorize", "verify", "load", "count", "write"}
    \/ kind \in {"deleteOrg", "purgeOrg", "updateOrg"} /\ at \in {"authorize", "findOrg", kind}
    \/ kind = "addMember" /\ at \in {"authorize", "load", "access", "exists", "addMember"}
    \/ kind = "setRole" /\ at \in {"authorize", "findMember", "access", "setRole"}
    \/ kind = "removeMember" /\ at \in {"authorize", "access", "exists", "removeMember"}
    \/ kind \in {"createPerson", "deletePerson", "deleteContract"} /\ at = kind
    \/ kind = "updatePerson" /\ at \in {"updatePerson", "savePerson"}
    \/ kind = "createContract" /\ at \in {"createContract", "insertContract"}
    \/ kind = "import" /\ at \in {"import", "clear", "importCheck", "importCommit"}
    \/ kind = "createAttendance" /\ at \in {"createAttendance", "findDay", "insertAttendance", "reloadAttendance"}
    \/ kind = "updateAttendance" /\ at \in {"updateAttendance", "saveAttendance"}
    \/ kind = "deleteAttendance" /\ at \in {"deleteAttendance", "removeAttendance"}
    \/ kind = "upload" /\ at \in {"upload", "findMonth", "storeBill", "knownVouchers", "discover", "link"}
    \/ kind = "deleteBill" /\ at \in {"deleteBill", "dropBill"}
    \/ kind = "assign" /\ at \in {"assign", "insertVoucher", "whoseVoucher"}
    \/ kind = "removeVoucher" /\ at \in {"removeVoucher", "findVoucher", "dropVoucher"}
    \/ kind = "trail" /\ at = "trail"

Kinds(r) ==
    /\ pc[r] = "idle" => q[r] = NoRequest /\ prior[r] = {}
    /\ pc[r] # "idle" => q[r] \in Request /\ Fits(q[r].kind, pc[r])
    /\ pc[r] # "done" => resp[r] = "none"
    /\ prior[r] \subseteq {s \in Reqs : pc[s] = "done"}

\* The kind tells the fields.
LEMMA KindSets ==
    ASSUME NEW k \in Request
    PROVE  /\ k.kind \in SuperKinds \cup UserKinds \cup MemberKinds \cup {"updateOrg"} => k \in MemberRequests
           /\ k.kind \in PersonKinds => k \in PersonRequests
           /\ k.kind \in AttendanceKinds => k \in AttendanceRequests
           /\ k.kind \in VoucherKinds => k \in VoucherRequests
           /\ k.kind = "trail" => k \in TrailRequests
<1>1. k \in MemberRequests => k.kind \in SuperKinds \cup UserKinds \cup MemberKinds \cup {"updateOrg"}
  BY DEF MemberRequests
<1>2. k \in PersonRequests => k.kind \in PersonKinds
  BY DEF PersonRequests
<1>3. k \in AttendanceRequests => k.kind \in AttendanceKinds
  BY DEF AttendanceRequests
<1>4. k \in VoucherRequests => k.kind \in VoucherKinds
  BY DEF VoucherRequests
<1>5. k \in TrailRequests => k.kind = "trail"
  BY DEF TrailRequests
<1> QED  BY <1>1, <1>2, <1>3, <1>4, <1>5 DEF Request, SuperKinds, UserKinds, MemberKinds, PersonKinds,
            AttendanceKinds, VoucherKinds

\* A request keeps to the statements of its kind.
LEMMA StepFits ==
    ASSUME LocalsKnown, NEW r \in Reqs, Kinds(r), StepOf(r), ~Send(r)
    PROVE  pc'[r] # "idle" /\ Fits(q[r].kind, pc'[r])
<1>1. pc[r] # "idle" /\ pc[r] # "done" /\ q[r] \in Request /\ Fits(q[r].kind, pc[r])
  BY AnswersOrGoes DEF Kinds, Advances
<1>2. CASE OfMembers(r)
  BY <1>1, <1>2 DEF OfMembers, MemberStep, Authorize, Verify, Load, AfterLoad, Count, WriteUser, SaveUser, SetSuperAdmin, DeleteUser,
     PurgeUser, FindMembership, OrgAccess, Exists, AddMember, UpdateRole, RemoveMember, PutRole, FindOrg, UpdateOrg,
     DeleteOrg, PurgeOrg, Refuse, Then, Answer, Goto, LocalsKnown, Fits, SuperKinds, UserKinds
<1>3. CASE OfPersons(r)
  BY <1>1, <1>3 DEF OfPersons, PersonStep, CreatePerson, LoadPerson, SavePerson, DeletePerson, CheckContract,
     InsertContract, DeleteContract, MatchPerson, ClearContracts, CheckImport, CommitImport, PersonReply, PersonGoto,
     Answer, Goto, LocalsKnown, Fits
<1>4. CASE OfAttendance(r)
  BY <1>1, <1>4 DEF OfAttendance, AttendanceStep, FindAttendanceChild, FindDay, InsertAttendance, ReloadAttendance,
     LoadAttendance, SaveAttendance, FindAttendance, RemoveAttendance, AttendanceReply, AttendanceGoto,
     Answer, Goto, LocalsKnown, Fits
<1>5. CASE OfVouchers(r)
  BY <1>1, <1>5 DEF OfVouchers, VoucherStep, FindHash, FindMonth, StoreBill, KnownVouchers, MatchRow, Link, FindBill,
     DropBill, FindVoucherChild, InsertVoucher, WhoseVoucher, FindVoucher, DropVoucher, VoucherReply, VoucherGoto,
     Answer, Goto, LocalsKnown, Fits
<1>6. CASE OfTrail(r)
  BY <1>1, <1>6, TrailAnswers DEF Answer, LocalsKnown, Fits
<1> QED  BY <1>2, <1>3, <1>4, <1>5, <1>6 DEF StepOf

Menus == menu \in [Reqs -> SUBSET Request]

Requesting == LocalsKnown /\ Menus /\ \A r \in Reqs : Kinds(r)

\* A request that is sent is at the first statement of its kind.
LEMMA SendFits ==
    ASSUME Requesting, NEW r \in Reqs, Send(r)
    PROVE  /\ pc[r] = "idle" /\ q'[r] \in Request /\ pc'[r] = FirstStage(q'[r])
           /\ pc'[r] \notin {"idle", "done"} /\ Fits(q'[r].kind, pc'[r])
           /\ prior'[r] = {s \in Reqs : pc[s] = "done"} /\ resp'[r] = resp[r]
<1>1. /\ pc[r] = "idle" /\ q'[r] \in Request /\ pc'[r] = FirstStage(q'[r])
      /\ prior'[r] = {s \in Reqs : pc[s] = "done"} /\ resp'[r] = resp[r]
  BY DEF Requesting, LocalsKnown, Menus, Send, Submit, Goto
<1> DEFINE k == q'[r]
<1>2. \/ k \in MemberRequests /\ k.kind \in SuperKinds \cup UserKinds \cup MemberKinds \cup {"updateOrg"}
      \/ k \in PersonRequests /\ k.kind \in PersonKinds
      \/ k \in AttendanceRequests /\ k.kind \in AttendanceKinds
      \/ k \in VoucherRequests /\ k.kind \in VoucherKinds
      \/ k \in TrailRequests /\ k.kind = "trail"
  <2>1. k \in MemberRequests => k.kind \in SuperKinds \cup UserKinds \cup MemberKinds \cup {"updateOrg"}
    BY DEF MemberRequests
  <2>2. k \in PersonRequests => k.kind \in PersonKinds
    BY DEF PersonRequests
  <2>3. k \in AttendanceRequests => k.kind \in AttendanceKinds
    BY DEF AttendanceRequests
  <2>4. k \in VoucherRequests => k.kind \in VoucherKinds
    BY DEF VoucherRequests
  <2>5. k \in TrailRequests => k.kind = "trail"
    BY DEF TrailRequests
  <2> HIDE DEF k
  <2> QED  BY <1>1, <2>1, <2>2, <2>3, <2>4, <2>5 DEF Request, k
<1>3. k \in MemberRequests => k.kind \in SuperKinds \cup UserKinds \cup MemberKinds \cup {"updateOrg"}
  BY DEF MemberRequests
<1>4. pc'[r] \notin {"idle", "done"} /\ Fits(k.kind, pc'[r])
  <2> HIDE DEF k
  <2>1. pc'[r] = IF k.kind # "trail" /\ k \in MemberRequests THEN "authorize" ELSE k.kind
    BY <1>1 DEF FirstStage, k
  <2> QED  BY <1>2, <1>3, <2>1 DEF Fits, SuperKinds, UserKinds, MemberKinds, PersonKinds, AttendanceKinds, VoucherKinds
<1> QED  BY <1>1, <1>4

\* Every step keeps the requests in order.
LEMMA StepKinds ==
    ASSUME Requesting, NEW r \in Reqs, StepOf(r)
    PROVE  Requesting'
<1> USE DEF Requesting
<1>1. /\ Moves(r) /\ LocalsKnown' /\ UNCHANGED menu
      /\ pc[r] # "idle" => q'[r] = q[r] /\ prior'[r] = prior[r]
      /\ resp'[r] = resp[r] \/ pc'[r] = "done"
  BY StepMoves
<1>2. pc[r] # "done"
  BY AnswersOrGoes DEF Advances, Send, Submit
<1>3. /\ pc'[r] # "idle" /\ q'[r] \in Request /\ Fits(q'[r].kind, pc'[r])
      /\ prior'[r] \subseteq {s \in Reqs : pc[s] = "done"}
  <2>1. CASE Send(r)
    BY <2>1, SendFits
  <2>2. CASE ~Send(r)
    BY <2>2, <1>1, StepFits, AnswersOrGoes DEF Advances, Kinds
  <2> QED  BY <2>1, <2>2
<1>4. ASSUME NEW s \in Reqs PROVE Kinds(s)'
  <2>1. {t \in Reqs : pc[t] = "done"} \subseteq {t \in Reqs : pc'[t] = "done"}
    BY <1>1, <1>2 DEF Moves
  <2>2. CASE s = r
    BY <2>1, <2>2, <1>1, <1>2, <1>3 DEF Kinds
  <2>3. CASE s # r
    BY <2>1, <2>3, <1>1 DEF Moves, Kinds
  <2> QED  BY <2>2, <2>3
<1> QED  BY <1>1, <1>4 DEF Menus

---------------------------------------------------------------------------
(* Tables, and what requests hold between two of their statements. *)

\* Ids are below the next one.
PersonTables ==
    /\ persons \in [PersonId -> Names \cup {NoRow}] /\ contracts \subseteq Contract
    /\ nextPerson \in Nat /\ nextContract \in Nat
    /\ \A p \in PersonId : persons[p] # NoRow => p < nextPerson
    /\ \A c \in contracts : c.id < nextContract

\* What a request loaded or matched existed: its id is not given out again.
PersonLocals(r) ==
    /\ target[r] # NoRow => target[r] \in PersonId /\ (resp[r] = "error" \/ target[r] < nextPerson)
    /\ pc[r] = "clear" => target[r] # NoRow
    /\ pc[r] = "savePerson" => q[r].person < nextPerson
    /\ \A c \in preloaded[r] :
         /\ c \in Contract /\ c.id < nextContract
         /\ \/ pc[r] = "savePerson" /\ c.person = q[r].person
            \/ Importing(r) /\ c.person = target[r]

AttendanceTables ==
    /\ records \in [RecordId -> Attendance \cup {NoRow}] /\ nextRecord \in Nat
    /\ \A a \in RecordId : records[a] # NoRow => a < nextRecord

AttendanceLocals(r) ==
    /\ pc[r] = "saveAttendance" =>
         /\ held[r].id \in RecordId /\ held[r].id < nextRecord
         /\ held[r].row \in Attendance /\ InBeforeOut(held[r].row)
         /\ held[r].who \in Names /\ held[r].row.child < nextPerson
    /\ pc[r] = "removeAttendance" => q[r].record < nextRecord

VoucherTables ==
    vouchers \in [Numbers -> Voucher \cup {NoRow}] /\ bills \subseteq Bill

VoucherLocals(r) ==
    /\ pc[r] \in {"discover", "link"} => discovery[r].left \subseteq DOMAIN Rows(r)
    /\ pc[r] = "link" =>
         /\ discovery[r].child \in PersonId
         /\ discovery[r].row \in DOMAIN Rows(r) \ discovery[r].left

MemberTables ==
    /\ users \in [Users -> User \cup {NoRow}] /\ orgs \in [Orgs -> {"live", "deleted", "gone"}]
    /\ members \in [Users -> [Orgs -> Role \cup {NoRole}]]

MemberLocals(r) == pc[r] \in {"count", "write"} => loaded[r] \in User

\* The inductive invariant for what the tables promise.
Base ==
    /\ Requesting
    /\ PersonTables /\ AttendanceTables /\ VoucherTables /\ MemberTables
    /\ \A r \in Reqs : PersonLocals(r) /\ AttendanceLocals(r) /\ VoucherLocals(r) /\ MemberLocals(r)
    /\ RecordsConsistent

\* The tables to start from satisfy it, and nobody holds anything.
LEMMA BaseInit ==
    ASSUME Init PROVE Base
<1>1. PICK c \in Scenarios :
        /\ Idle(c.menu)
        /\ users = c.users /\ orgs = c.orgs /\ members = c.members
        /\ persons = c.persons /\ contracts = c.contracts
        /\ nextPerson = c.nextPerson /\ nextContract = c.nextContract
        /\ records = c.records /\ nextRecord = c.nextRecord
        /\ vouchers = c.vouchers /\ bills = c.bills
        /\ loaded = [r \in Reqs |-> NoRow]
        /\ target = [r \in Reqs |-> NoRow] /\ preloaded = [r \in Reqs |-> {}]
        /\ held = [r \in Reqs |-> NothingHeld] /\ discovery = [r \in Reqs |-> NoRun]
  BY DEF Init
<1>2. Requesting /\ \A r \in Reqs : pc[r] = "idle"
  BY <1>1, ScenarioAssumption DEF Requesting, Idle, LocalsKnown, Menus, Kinds
<1>3. PersonTables
  BY <1>1, ScenarioAssumption, RecordAssumption DEF PersonTables
<1>4. AttendanceTables
  BY <1>1, ScenarioAssumption, RecordAssumption DEF AttendanceTables
<1>5. VoucherTables /\ MemberTables
  BY <1>1, ScenarioAssumption DEF VoucherTables, MemberTables
<1>6. ASSUME NEW r \in Reqs PROVE PersonLocals(r) /\ AttendanceLocals(r) /\ VoucherLocals(r) /\ MemberLocals(r)
  BY <1>1, <1>2 DEF PersonLocals, AttendanceLocals, VoucherLocals, MemberLocals
<1>7. PersonsConsistent
  <2>1. \A x \in contracts : persons[x.person] # NoRow /\ x.person \in PersonId
    BY <1>1, <1>3, RecordAssumption DEF PersonTables, Contract
  <2>2. \A x, y \in contracts : x.id # y.id => x.person # y.person \/ x.to < y.from \/ y.to < x.from
    BY <1>1, RecordAssumption
  <2>3. \A x \in contracts : x.to \in Nat /\ x.from \in Nat
    BY <1>3 DEF PersonTables, Contract, Day
  <2> QED  BY <2>1, <2>2, <2>3, PersonSentinels DEF PersonsConsistent, Disjoint, Clash, Found, PersonId
<1>8. AttendanceConsistent
  <2> SUFFICES ASSUME NEW a \in RecordId, records[a] # NoRow
      PROVE  /\ Found(records[a].child) /\ OnDay(records[a].child, records[a].date) = {a}
             /\ InBeforeOut(records[a])
    BY DEF AttendanceConsistent
  <2>1. records[a].child \in PersonId
    BY <1>4 DEF AttendanceTables, Attendance
  <2>2. /\ persons[records[a].child] # NoRow /\ InBeforeOut(records[a])
        /\ \A b \in RecordId \ {a} :
              records[b] # NoRow => records[b].child # records[a].child \/ records[b].date # records[a].date
    BY <1>1, RecordAssumption DEF InBeforeOut
  <2> QED  BY <2>1, <2>2, PersonSentinels DEF Found, PersonId, OnDay
<1>9. VouchersConsistent
  <2>1. \A n \in Numbers : vouchers[n] # NoRow => vouchers[n].child \in PersonId
    BY <1>5 DEF VoucherTables, Voucher
  <2>2. \A n \in Numbers : vouchers[n] # NoRow => persons[vouchers[n].child] # NoRow
    BY <1>1, RecordAssumption
  <2>3. \A b, d \in bills : b.file.month = d.file.month => b = d
    BY <1>1, RecordAssumption
  <2> QED  BY <2>1, <2>2, <2>3, PersonSentinels DEF VouchersConsistent, Free, Found, PersonId
<1> QED  BY <1>2, <1>3, <1>4, <1>5, <1>6, <1>7, <1>8, <1>9 DEF Base, RecordsConsistent

\* At the statements of a component, a request has the fields of its kind.
LEMMA Bodies ==
    ASSUME NEW r \in Reqs, Kinds(r)
    PROVE  /\ pc[r] \in {"createPerson", "updatePerson", "savePerson", "deletePerson", "createContract",
                         "insertContract", "deleteContract", "import", "clear", "importCheck", "importCommit"}
              => /\ q[r].who \in Names /\ q[r].person \in PersonId /\ q[r].contract \in ContractId
                 /\ q[r].from \in Day /\ q[r].to \in Day
           /\ pc[r] \in {"createAttendance", "findDay", "insertAttendance", "reloadAttendance",
                         "updateAttendance", "saveAttendance", "deleteAttendance", "removeAttendance"}
              => q[r] \in AttendanceRequests
           /\ pc[r] \in {"upload", "findMonth", "storeBill", "knownVouchers", "discover", "link", "deleteBill",
                         "dropBill", "assign", "insertVoucher", "whoseVoucher", "removeVoucher", "findVoucher",
                         "dropVoucher"}
              => q[r] \in VoucherRequests
           /\ pc[r] \in {"authorize", "verify", "load", "count", "write", "findMember", "access", "exists",
                         "addMember", "setRole", "removeMember", "findOrg", "updateOrg", "deleteOrg", "purgeOrg"}
              => q[r] \in MemberRequests
<1> DEFINE k == q[r]
<1>1. pc[r] # "idle" => k \in Request /\ Fits(k.kind, pc[r])
  BY DEF Kinds
<1>2. CASE pc[r] \notin {"idle", "done"}
  <2>1. /\ k.kind \in SuperKinds \cup UserKinds \cup MemberKinds \cup {"updateOrg"} => k \in MemberRequests
        /\ k.kind \in PersonKinds => k \in PersonRequests
        /\ k.kind \in AttendanceKinds => k \in AttendanceRequests
        /\ k.kind \in VoucherKinds => k \in VoucherRequests
    BY <1>1, <1>2, KindSets
  <2>2. k \in PersonRequests => /\ k.who \in Names /\ k.person \in PersonId /\ k.contract \in ContractId
                                /\ k.from \in Day /\ k.to \in Day
    BY DEF PersonRequests
  <2>3. pc[r] \in {"createPerson", "updatePerson", "savePerson", "deletePerson", "createContract",
                         "insertContract", "deleteContract", "import", "clear", "importCheck", "importCommit"}
        => k.kind \in PersonKinds
    BY <1>1, <1>2 DEF Fits, PersonKinds, UserKinds
  <2>4. pc[r] \in {"createAttendance", "findDay", "insertAttendance", "reloadAttendance",
                         "updateAttendance", "saveAttendance", "deleteAttendance", "removeAttendance"}
        => k.kind \in AttendanceKinds
    BY <1>1, <1>2 DEF Fits, AttendanceKinds, UserKinds
  <2>5. pc[r] \in {"upload", "findMonth", "storeBill", "knownVouchers", "discover", "link", "deleteBill",
                         "dropBill", "assign", "insertVoucher", "whoseVoucher", "removeVoucher", "findVoucher",
                         "dropVoucher"}
        => k.kind \in VoucherKinds
    BY <1>1, <1>2 DEF Fits, VoucherKinds, UserKinds
  <2>6. pc[r] \in {"authorize", "verify", "load", "count", "write", "findMember", "access", "exists",
                         "addMember", "setRole", "removeMember", "findOrg", "updateOrg", "deleteOrg", "purgeOrg"}
        => k.kind \in SuperKinds \cup UserKinds \cup MemberKinds \cup {"updateOrg"}
    BY <1>1, <1>2 DEF Fits, SuperKinds, UserKinds, MemberKinds
  <2> HIDE DEF k
  <2>7. QED  BY <2>1, <2>2, <2>3, <2>4, <2>5, <2>6 DEF k
<1>3. CASE pc[r] \in {"idle", "done"}
  BY <1>3
<1> QED  BY <1>2, <1>3

\* Writes of persons and contracts keep the exclusion constraint and the foreign key,
\* also when a row that is gone is inserted again.
LEMMA PersonsStep ==
    ASSUME Base, NEW r \in Reqs, PersonStep(r)
    PROVE  /\ PersonTables' /\ PersonsConsistent'
           /\ nextPerson' >= nextPerson /\ nextContract' >= nextContract
<1> USE DEF PersonTables, PersonsConsistent
<1>1. PersonTables /\ PersonsConsistent /\ PersonLocals(r) /\ Kinds(r)
  BY DEF Base, RecordsConsistent, Requesting
<1>2. \A c \in Contract : /\ c.id \in Nat /\ c.person \in PersonId /\ c.person \in Nat
                          /\ c.from \in Nat /\ c.to \in Nat
  BY DEF Contract, ContractId, PersonId, Day
<1>3. \A c \in contracts : c \in Contract /\ c.person < nextPerson /\ persons[c.person] # NoRow
  BY <1>1 DEF Found, Contract
<1>4. NoRow \notin Names /\ \A p \in PersonId : p \in Nat /\ p # NoRow
  BY PersonSentinels DEF PersonId
<1>5. CASE UNCHANGED personTables
  BY <1>5, <1>1 DEF personTables, Found, Disjoint, Clash
<1>6. CASE CreatePerson(r)
  <2>1. q[r].who \in Names /\ q[r].from \in Day /\ q[r].to \in Day
    BY <1>1, <1>6, Bodies DEF CreatePerson
  <2>2. /\ nextPerson \in PersonId /\ persons' = [persons EXCEPT ![nextPerson] = q[r].who]
        /\ nextPerson' = nextPerson + 1
        /\ \/ UNCHANGED <<contracts, nextContract>>
           \/ /\ nextContract \in ContractId /\ contracts' = contracts \cup {New(r, nextPerson)}
              /\ nextContract' = nextContract + 1
    BY <1>6 DEF CreatePerson
  <2> DEFINE n == New(r, nextPerson)
  <2>3. /\ n.id = nextContract /\ n.person = nextPerson
        /\ nextContract \in ContractId => n \in Contract
    BY <2>1, <2>2 DEF New, Contract
  <2> HIDE DEF n
  <2>4. PersonTables'
    <3>1. persons' \in [PersonId -> Names \cup {NoRow}]
      BY <1>1, <2>1, <2>2
    <3>2. contracts' \subseteq Contract /\ nextPerson' \in Nat /\ nextContract' \in Nat
      BY <1>1, <2>2, <2>3 DEF n
    <3>3. \A x \in PersonId : persons'[x] # NoRow => x < nextPerson'
      BY <1>1, <1>4, <2>2
    <3>4. \A c \in contracts' : c.id < nextContract'
      BY <1>1, <1>2, <2>2, <2>3 DEF n
    <3> QED  BY <3>1, <3>2, <3>3, <3>4
  <2>5. \A c \in contracts' : Found(c.person)'
    <3>1. \A x \in PersonId : persons[x] # NoRow \/ x = nextPerson => persons'[x] # NoRow
      BY <1>1, <1>4, <2>1, <2>2
    <3>2. \A c \in contracts' : c.person \in PersonId /\ (persons[c.person] # NoRow \/ c.person = nextPerson)
      BY <1>2, <1>3, <2>2, <2>3 DEF n
    <3> QED  BY <1>4, <3>1, <3>2 DEF Found
  <2>6. Disjoint(contracts')
    BY <1>1, <1>3, <1>2, <2>2, <2>3 DEF n, Disjoint, Clash
  <2> QED  BY <1>1, <2>2, <2>4, <2>5, <2>6
<1>7. CASE SavePerson(r)
  <2> DEFINE back == {c \in preloaded[r] : \A d \in contracts : d.id # c.id}
  <2>1. CASE UNCHANGED personTables
    BY <1>5, <2>1
  <2>2. CASE ~UNCHANGED personTables
    <3>1. /\ pc[r] = "savePerson" /\ Disjoint(contracts \cup back)
          /\ persons' = [persons EXCEPT ![q[r].person] = q[r].who] /\ contracts' = contracts \cup back
          /\ UNCHANGED <<nextPerson, nextContract>>
      BY <1>7, <2>2 DEF SavePerson, PersonReply
    <3>2. /\ q[r].who \in Names /\ q[r].person \in PersonId /\ q[r].person < nextPerson
          /\ \A c \in back : c \in Contract /\ c.id < nextContract /\ c.person = q[r].person
      BY <1>1, <3>1, Bodies DEF PersonLocals, Importing
    <3> HIDE DEF back
    <3>3. PersonTables'
      BY <1>1, <3>1, <3>2
    <3>4. \A c \in contracts' : Found(c.person)'
      BY <1>1, <1>2, <1>3, <1>4, <3>1, <3>2 DEF Found
    <3> QED  BY <1>1, <3>1, <3>3, <3>4
  <2> QED  BY <2>1, <2>2
<1>8. CASE DeletePerson(r)
  <2>1. CASE UNCHANGED personTables
    BY <1>5, <2>1
  <2>2. CASE ~UNCHANGED personTables
    <3>1. /\ persons' = [persons EXCEPT ![q[r].person] = NoRow] /\ contracts' = contracts \ Of(q[r].person)
          /\ UNCHANGED <<nextPerson, nextContract>> /\ q[r].person \in PersonId
      BY <1>8, <2>2, <1>1, Bodies DEF DeletePerson, PersonReply
    <3>2. \A c \in contracts' : Found(c.person)'
      BY <1>1, <1>2, <1>3, <1>4, <3>1 DEF Found, Of
    <3>3. Disjoint(contracts')
      BY <1>1, <3>1 DEF Disjoint, Clash
    <3> QED  BY <1>1, <3>1, <3>2, <3>3
  <2> QED  BY <2>1, <2>2
<1>9. CASE InsertContract(r)
  <2> DEFINE c == New(r, q[r].person)
  <2>1. CASE UNCHANGED personTables
    BY <1>5, <2>1
  <2>2. CASE ~UNCHANGED personTables
    <3>1. /\ nextContract \in ContractId /\ Found(c.person) /\ ~Clash(c, contracts)
          /\ contracts' = contracts \cup {c} /\ nextContract' = nextContract + 1
          /\ UNCHANGED <<persons, nextPerson>> /\ c \in Contract /\ c.id = nextContract
      BY <1>9, <2>2, <1>1, Bodies DEF InsertContract, PersonReply, New, Contract
    <3> HIDE DEF c
    <3>2. PersonTables'
      BY <1>1, <1>2, <3>1
    <3>3. Disjoint(contracts')
      BY <1>1, <1>2, <3>1 DEF Disjoint, Clash
    <3> QED  BY <1>1, <3>1, <3>2, <3>3 DEF Found
  <2> QED  BY <2>1, <2>2
<1>10. CASE DeleteContract(r)
  BY <1>10, <1>1 DEF DeleteContract, PersonReply, personTables, Found, Disjoint, Clash
<1>11. CASE CommitImport(r)
  <2> DEFINE p == Imported(r)
             after == (contracts \ preloaded[r]) \cup {New(r, p)}
  <2>1. CASE UNCHANGED personTables
    BY <1>5, <2>1
  <2>2. CASE ~UNCHANGED personTables
    <3>1. /\ pc[r] = "importCommit" /\ p \in PersonId /\ nextContract \in ContractId /\ Disjoint(after)
          /\ persons' = [persons EXCEPT ![p] = q[r].who] /\ contracts' = after
          /\ nextContract' = nextContract + 1
          /\ nextPerson' = IF target[r] = NoRow THEN nextPerson + 1 ELSE nextPerson
      BY <1>11, <2>2 DEF CommitImport, PersonReply
    <3>2. q[r].who \in Names /\ q[r].from \in Day /\ q[r].to \in Day /\ p < nextPerson'
      BY <3>1, <1>1, Bodies DEF PersonLocals, Imported, Kinds
    <3>3. New(r, p) \in Contract /\ New(r, p).id = nextContract /\ New(r, p).person = p
      BY <3>1, <3>2 DEF New, Contract
    <3>4. PersonTables'
      <4>1. persons' \in [PersonId -> Names \cup {NoRow}]
        BY <1>1, <3>1, <3>2
      <4>2. contracts' \subseteq Contract /\ nextPerson' \in Nat /\ nextContract' \in Nat
        BY <1>1, <3>1, <3>3
      <4>3. \A x \in PersonId : persons'[x] # NoRow => x < nextPerson'
        BY <1>1, <1>4, <3>1, <3>2
      <4>4. \A c \in contracts' : c.id < nextContract'
        BY <1>1, <1>2, <3>1, <3>3
      <4> QED  BY <4>1, <4>2, <4>3, <4>4
    <3>5. \A c \in contracts' : Found(c.person)'
      <4>1. \A x \in PersonId : persons[x] # NoRow \/ x = p => persons'[x] # NoRow
        BY <1>1, <1>4, <3>1, <3>2
      <4>2. \A c \in contracts' : c.person \in PersonId /\ (persons[c.person] # NoRow \/ c.person = p)
        BY <1>2, <1>3, <3>1, <3>3
      <4> QED  BY <1>4, <4>1, <4>2 DEF Found
    <3> QED  BY <1>1, <3>1, <3>4, <3>5
  <2> QED  BY <2>1, <2>2
<1> QED
  BY <1>5, <1>6, <1>7, <1>8, <1>9, <1>10, <1>11 DEF PersonStep, LoadPerson, CheckContract, MatchPerson,
     ClearContracts, CheckImport, PersonReply, PersonGoto, personTables

\* A component takes the steps of its own kinds of request.
LEMMA StepKind ==
    ASSUME Requesting, NEW r \in Reqs
    PROVE  /\ OfMembers(r) => q[r].kind \in SuperKinds \cup UserKinds \cup MemberKinds \cup {"updateOrg"}
           /\ OfPersons(r) => q[r].kind \in PersonKinds
           /\ OfAttendance(r) => q[r].kind \in AttendanceKinds
           /\ OfVouchers(r) => q[r].kind \in VoucherKinds
           /\ OfTrail(r) => q[r].kind = "trail"
<1>1. pc[r] # "idle" => Fits(q[r].kind, pc[r])
  BY DEF Requesting, Kinds
<1>2. OfMembers(r) => pc[r] \in {"authorize", "verify", "load", "count", "write", "findMember", "access", "exists",
                                 "addMember", "setRole", "removeMember", "findOrg", "updateOrg", "deleteOrg", "purgeOrg"}
  BY DEF OfMembers, MemberStep, Authorize, Verify, Load, Count, WriteUser, FindMembership, OrgAccess, Exists,
     AddMember, UpdateRole, RemoveMember, FindOrg, UpdateOrg, DeleteOrg, PurgeOrg
<1>3. OfPersons(r) => pc[r] \in {"createPerson", "updatePerson", "savePerson", "deletePerson", "createContract",
                         "insertContract", "deleteContract", "import", "clear", "importCheck", "importCommit"}
  BY DEF OfPersons, PersonStep, CreatePerson, LoadPerson, SavePerson, DeletePerson, CheckContract,
     InsertContract, DeleteContract, MatchPerson, ClearContracts, CheckImport, CommitImport
<1>4. OfAttendance(r) => pc[r] \in {"createAttendance", "findDay", "insertAttendance", "reloadAttendance",
                         "updateAttendance", "saveAttendance", "deleteAttendance", "removeAttendance"}
  BY DEF OfAttendance, AttendanceStep, FindAttendanceChild, FindDay, InsertAttendance, ReloadAttendance,
     LoadAttendance, SaveAttendance, FindAttendance, RemoveAttendance
<1>5. OfVouchers(r) => pc[r] \in {"upload", "findMonth", "storeBill", "knownVouchers", "discover", "link", "deleteBill",
                         "dropBill", "assign", "insertVoucher", "whoseVoucher", "removeVoucher", "findVoucher",
                         "dropVoucher"}
  BY DEF OfVouchers, VoucherStep, FindHash, FindMonth, StoreBill, KnownVouchers, MatchRow, Link, FindBill,
     DropBill, FindVoucherChild, InsertVoucher, WhoseVoucher, FindVoucher, DropVoucher
<1>6. OfTrail(r) => pc[r] = "trail"
  BY TrailAnswers
<1> QED
  BY <1>1, <1>2, <1>3, <1>4, <1>5, <1>6 DEF Fits, SuperKinds, UserKinds, MemberKinds, PersonKinds, AttendanceKinds,
     VoucherKinds

\* What a step of another component leaves of a request.
LEMMA PersonLocalsKept ==
    ASSUME Base, NEW r \in Reqs, StepOf(r), ~OfPersons(r),
           target'[r] = target[r], preloaded'[r] = preloaded[r], nextPerson' >= nextPerson,
           nextPerson' \in Nat
    PROVE  PersonLocals(r)'
<1>1. PersonLocals(r) /\ Requesting /\ Kinds(r) /\ Requesting' /\ Kinds(r)' /\ PersonTables
  BY StepKinds DEF Base, Requesting
<1>2. pc[r] \notin {"savePerson", "importCheck", "importCommit"} /\ pc'[r] \notin {"savePerson", "clear"}
  <2>1. CASE Send(r)
    <3>1. q'[r] \in Request /\ pc'[r] = IF q'[r].kind # "trail" /\ q'[r] \in MemberRequests THEN "authorize" ELSE q'[r].kind
      BY <2>1, <1>1, SendFits DEF FirstStage
    <3>2. pc[r] = "idle" /\ pc'[r] \notin {"idle", "done"} /\ Fits(q'[r].kind, pc'[r])
      BY <2>1, <1>1, SendFits
    <3> QED  BY <3>1, <3>2 DEF Fits
  <2>2. CASE ~Send(r)
    <3>1. q[r].kind \notin PersonKinds
      BY <1>1, <2>2, StepKind DEF StepOf, SuperKinds, UserKinds, MemberKinds, PersonKinds, AttendanceKinds, VoucherKinds
    <3>2. Fits(q[r].kind, pc[r]) /\ Fits(q[r].kind, pc'[r])
      BY <1>1, <2>2, AnswersOrGoes, StepFits DEF Advances, Requesting, Kinds
    <3> QED  BY <3>1, <3>2 DEF Fits, PersonKinds, UserKinds
  <2> QED  BY <2>1, <2>2
<1>3. preloaded'[r] = {}
  BY <1>1, <1>2 DEF PersonLocals, Importing
<1>4. resp[r] = "error" => resp'[r] = "error"
  <2>1. pc[r] # "done"
    BY AnswersOrGoes DEF Advances, Send, Submit
  <2> QED  BY <1>1, <2>1 DEF Kinds
<1>5. target'[r] # NoRow => target'[r] \in PersonId /\ (resp'[r] = "error" \/ target'[r] < nextPerson')
  BY <1>1, <1>4 DEF PersonLocals, PersonTables, PersonId
<1> QED  BY <1>2, <1>3, <1>5 DEF PersonLocals

\* What a request holds of persons and contracts is on record, or was.
LEMMA PersonsLocals ==
    ASSUME Base, NEW r \in Reqs, OfPersons(r), PersonTables'
    PROVE  PersonLocals(r)'
<1>1. PersonTables /\ PersonLocals(r) /\ Kinds(r) /\ LocalsKnown
  BY DEF Base, Requesting
<1>2. \A c \in contracts : c \in Contract /\ c.id < nextContract
  BY <1>1 DEF PersonTables
<1>3. NoRow \notin Names /\ \A p \in PersonId : p \in Nat /\ p # NoRow
  BY PersonSentinels DEF PersonId
<1>4. PersonStep(r) /\ UNCHANGED q
  BY DEF OfPersons
<1>5. CASE LoadPerson(r)
  <2>1. preloaded[r] = {} /\ UNCHANGED <<personTables, target>> /\ resp[r] # "error"
    BY <1>1, <1>5 DEF LoadPerson, PersonReply, PersonGoto, PersonLocals, Importing, Kinds
  <2>2. CASE pc'[r] = "done" /\ UNCHANGED preloaded
    BY <1>1, <2>1, <2>2 DEF PersonLocals, personTables
  <2>3. CASE Found(q[r].person) /\ pc'[r] = "savePerson" /\ preloaded'[r] = Of(q[r].person)
    <3>1. q[r].person \in PersonId /\ q[r].person < nextPerson
      BY <1>1, <1>5, <2>3, Bodies DEF LoadPerson, Found, PersonTables
    <3> QED  BY <1>1, <1>2, <1>4, <2>1, <2>3, <3>1 DEF PersonLocals, personTables, Of
  <2> QED  BY <1>1, <1>5, <2>2, <2>3 DEF LoadPerson, PersonReply, PersonGoto, Answer, Goto, LocalsKnown
<1>6. CASE MatchPerson(r)
  <2>1. preloaded'[r] = {} /\ UNCHANGED <<personTables, resp>>
    BY <1>1, <1>6 DEF MatchPerson, PersonGoto, Goto, PersonLocals, Importing
  <2>2. CASE pc'[r] = "importCheck" /\ target'[r] = NoRow
    BY <2>1, <2>2 DEF PersonLocals
  <2>3. ASSUME NEW p \in PersonId, First(p, Matches(q[r].who)), target'[r] = p, pc'[r] = "clear"
        PROVE  PersonLocals(r)'
    <3>1. persons[p] = q[r].who /\ q[r].who \in Names
      BY <1>1, <1>6, <2>3, Bodies DEF First, Matches, MatchPerson
    <3> QED  BY <1>1, <1>3, <2>1, <2>3, <3>1 DEF PersonLocals, PersonTables, personTables
  <2> QED  BY <1>1, <1>6, <2>2, <2>3 DEF MatchPerson, PersonGoto, Goto, LocalsKnown
<1>7. CASE ClearContracts(r)
  <2>1. /\ preloaded'[r] = Of(target[r]) /\ pc'[r] = "importCheck"
        /\ UNCHANGED <<target, personTables, resp>>
    BY <1>1, <1>7 DEF ClearContracts, PersonGoto, Goto, LocalsKnown
  <2> QED  BY <1>1, <1>2, <2>1 DEF PersonLocals, Of, Importing, personTables
<1>8. CASE CheckImport(r)
  <2>1. CASE pc'[r] = "done" /\ preloaded'[r] = {}
    BY <1>1, <1>8, <2>1 DEF CheckImport, PersonReply, PersonGoto, Goto, Answer, personTables, PersonLocals, Kinds
  <2>2. CASE pc'[r] = "importCommit" /\ preloaded'[r] = preloaded[r]
    BY <1>1, <1>8, <2>2 DEF CheckImport, PersonReply, PersonGoto, Goto, Answer, personTables, PersonLocals, Kinds,
       Importing
  <2> QED  BY <1>1, <1>8, <2>1, <2>2 DEF CheckImport, PersonReply, PersonGoto, Answer, Goto, LocalsKnown
<1>9. CASE CommitImport(r)
  <2>1. /\ preloaded'[r] = {} /\ target'[r] = Imported(r) /\ pc'[r] = "done" /\ Imported(r) \in PersonId
        /\ \/ resp'[r] = "error"
           \/ nextPerson' = IF target[r] = NoRow THEN nextPerson + 1 ELSE nextPerson
    BY <1>1, <1>9 DEF CommitImport, PersonReply, Answer, LocalsKnown
  <2> QED  BY <1>1, <1>3, <1>9, <2>1 DEF PersonLocals, Imported, PersonTables, CommitImport, Kinds
<1>10. CASE \/ CreatePerson(r) \/ SavePerson(r) \/ DeletePerson(r) \/ CheckContract(r) \/ InsertContract(r)
            \/ DeleteContract(r)
  <2>1. /\ preloaded'[r] = {} /\ UNCHANGED target /\ pc'[r] \in {"done", "insertContract"}
    BY <1>1, <1>10 DEF CreatePerson, SavePerson, DeletePerson, CheckContract, InsertContract, DeleteContract,
       PersonReply, PersonGoto, Answer, Goto, LocalsKnown, PersonLocals, Importing
  <2>2. nextPerson' >= nextPerson
    BY PersonsStep, <1>4
  <2>3. resp[r] # "error"
    BY <1>1, <1>10 DEF Kinds, CreatePerson, SavePerson, DeletePerson, CheckContract, InsertContract, DeleteContract
  <2> QED  BY <1>1, <1>3, <2>1, <2>2, <2>3 DEF PersonLocals, PersonTables
<1> QED  BY <1>4, <1>5, <1>6, <1>7, <1>8, <1>9, <1>10 DEF PersonStep

FoundNow(p) == p # NoRow /\ persons'[p] # NoRow

\* Attendance: a save writes the row that was checked, and the child when it is gone.
LEMMA AttendanceSteps ==
    ASSUME Base, NEW r \in Reqs, OfAttendance(r)
    PROVE  /\ PersonTables' /\ PersonsConsistent' /\ AttendanceTables' /\ AttendanceConsistent'
           /\ AttendanceLocals(r)' /\ VouchersConsistent'
           /\ nextRecord' >= nextRecord /\ nextPerson' = nextPerson /\ nextContract' = nextContract
<1>1. /\ PersonTables /\ PersonsConsistent /\ AttendanceTables /\ AttendanceConsistent /\ AttendanceLocals(r)
      /\ VouchersConsistent /\ VoucherTables /\ Kinds(r) /\ LocalsKnown
  BY DEF Base, Requesting, RecordsConsistent
<1>2. NoRow \notin Names /\ \A p \in PersonId : p \in Nat /\ p # NoRow
  BY PersonSentinels DEF PersonId
<1>3. /\ AttendanceStep(r) /\ UNCHANGED <<q, contracts, nextPerson, nextContract, vouchers, bills>>
  BY DEF OfAttendance, voucherVars, voucherTables
<1>4. \A x \in Attendance : x.child \in PersonId
  BY DEF Attendance
<1>5. pc[r] = "saveAttendance" => held[r].row.child \in PersonId /\ held[r].who \in Names
  BY <1>1, <1>4 DEF AttendanceLocals
<1>6. /\ persons' \in [PersonId -> Names \cup {NoRow}]
      /\ \A p \in PersonId : persons[p] # NoRow => persons'[p] = persons[p]
      /\ \A p \in PersonId : persons'[p] # NoRow => p < nextPerson
  <2>1. UNCHANGED persons \/ SaveAttendance(r)
    BY <1>3 DEF AttendanceStep, FindAttendanceChild, FindDay, InsertAttendance, ReloadAttendance, LoadAttendance,
       FindAttendance, RemoveAttendance, AttendanceReply, AttendanceGoto
  <2>2. CASE SaveAttendance(r)
    <3>1. /\ persons' = [persons EXCEPT ![held[r].row.child] = IF @ = NoRow THEN held[r].who ELSE @]
          /\ held[r].row.child < nextPerson /\ pc[r] = "saveAttendance"
      BY <1>1, <2>2 DEF SaveAttendance, AttendanceLocals
    <3> QED  BY <1>1, <1>5, <3>1 DEF PersonTables
  <2> QED  BY <1>1, <2>1, <2>2 DEF PersonTables
<1>7. \A p : Found(p) /\ p \in PersonId => Found(p)'
  BY <1>6 DEF Found
<1>8. PersonTables' /\ PersonsConsistent'
  <2>1. \A c \in contracts : c.person \in PersonId
    BY <1>1 DEF PersonTables, Contract
  <2> QED  BY <1>1, <1>3, <1>6, <1>7, <2>1 DEF PersonTables, PersonsConsistent, Disjoint, Clash
<1>9. VouchersConsistent'
  <2>1. \A n \in Numbers : ~Free(n) => vouchers[n].child \in PersonId
    BY <1>1 DEF VoucherTables, Free, Voucher
  <2> QED  BY <1>1, <1>3, <1>7, <2>1 DEF VouchersConsistent, Free
<1>10. UNCHANGED attendanceTables => AttendanceTables' /\ AttendanceConsistent' /\ nextRecord' >= nextRecord
  <2>1. \A a \in RecordId : records[a] # NoRow => records[a].child \in PersonId
    BY <1>1, <1>4 DEF AttendanceTables
  <2> QED  BY <1>1, <1>7, <2>1 DEF attendanceTables, AttendanceTables, AttendanceConsistent, OnDay, InBeforeOut
<1>11. AttendanceTables' /\ AttendanceConsistent' /\ AttendanceLocals(r)' /\ nextRecord' >= nextRecord
  <2>1. CASE UNCHANGED attendanceTables /\ pc'[r] \notin {"saveAttendance", "removeAttendance"}
    BY <1>10, <2>1 DEF AttendanceLocals
  <2>2. CASE InsertAttendance(r)
    <3>1. CASE UNCHANGED attendanceTables
      BY <1>1, <2>1, <2>2, <3>1 DEF InsertAttendance, AttendanceReply, Answer, Goto, LocalsKnown
    <3>2. CASE ~UNCHANGED attendanceTables
      <4>1. PICK now \in Clock :
              /\ records' = [records EXCEPT ![nextRecord] =
                        [child |-> q[r].person, date |-> q[r].date, status |-> q[r].status,
                         in |-> CheckIn(q[r], now), out |-> NoTime]]
              /\ nextRecord' = nextRecord + 1 /\ nextRecord \in RecordId
              /\ OnDay(q[r].person, q[r].date) = {} /\ Found(q[r].person) /\ pc'[r] = "reloadAttendance"
              /\ UNCHANGED persons
        BY <1>1, <2>2, <3>2 DEF InsertAttendance, AttendanceReply, attendanceTables, Goto, LocalsKnown
      <4> DEFINE x == [child |-> q[r].person, date |-> q[r].date, status |-> q[r].status,
                       in |-> CheckIn(q[r], now), out |-> NoTime]
      <4>2. q[r].kind = "createAttendance" /\ q[r] \in AttendanceRequests
        BY <1>1, <2>2, Bodies DEF InsertAttendance, Kinds, Fits, AttendanceRequests, AttendanceKinds, UserKinds
      <4>3. x \in Attendance /\ x.child = q[r].person /\ x.date = q[r].date /\ InBeforeOut(x)
        BY <4>1, <4>2, AttendanceSentinels DEF AttendanceRequests, Attendance, CheckIn, InBeforeOut, Clock
      <4> HIDE DEF x
      <4>4. /\ records' = [records EXCEPT ![nextRecord] = x] /\ nextRecord \in Nat
            /\ records[nextRecord] = NoRow
        BY <1>1, <4>1 DEF x, AttendanceTables
      <4>5. AttendanceTables' /\ nextRecord' >= nextRecord
        BY <1>1, <4>1, <4>3, <4>4 DEF AttendanceTables, RecordId
      <4>6. AttendanceConsistent'
        <5> SUFFICES ASSUME NEW a \in RecordId, records'[a] # NoRow
                     PROVE  /\ FoundNow(records'[a].child) /\ InBeforeOut(records'[a])
                            /\ \A b \in RecordId \ {a} : records'[b] # NoRow =>
                                  records'[b].child # records'[a].child \/ records'[b].date # records'[a].date
          BY DEF AttendanceConsistent, OnDay, InBeforeOut, Found, FoundNow
        <5>1. \A b \in RecordId \ {nextRecord} : records'[b] = records[b]
          BY <1>1, <4>4 DEF AttendanceTables
        <5>2. records'[nextRecord] = x
          BY <1>1, <4>1, <4>4 DEF AttendanceTables
        <5>3. \A b \in RecordId : records[b] # NoRow => records[b].child # x.child \/ records[b].date # x.date
          BY <4>1, <4>3 DEF OnDay
        <5>4. CASE a = nextRecord
          BY <1>7, <4>1, <4>3, <5>1, <5>2, <5>3, <5>4 DEF Found, FoundNow
        <5>5. CASE a # nextRecord
          <6>1. /\ Found(records[a].child) /\ InBeforeOut(records[a]) /\ OnDay(records[a].child, records[a].date) = {a}
            BY <1>1, <5>1, <5>5 DEF AttendanceConsistent
          <6>2. \A b \in RecordId \ {a} : records[b] # NoRow =>
                   records[b].child # records[a].child \/ records[b].date # records[a].date
            BY <6>1 DEF OnDay
          <6>3. records[a] # NoRow /\ records'[a] = records[a]
            BY <5>1, <5>5
          <6>4. FoundNow(records'[a].child)
            BY <4>1, <6>1, <6>3 DEF Found, FoundNow
          <6> QED  BY <5>1, <5>2, <5>3, <6>1, <6>2, <6>3, <6>4
        <5> QED  BY <5>4, <5>5
      <4> QED  BY <4>1, <4>5, <4>6 DEF AttendanceLocals
    <3> QED  BY <3>1, <3>2
  <2>3. CASE LoadAttendance(r)
    <3>1. CASE pc'[r] = "done"
      BY <1>1, <2>1, <2>3, <3>1 DEF LoadAttendance, AttendanceReply, AttendanceGoto
    <3>2. CASE pc'[r] # "done"
      <4> DEFINE a == q[r].record
      <4>1. PICK now \in Clock : LET row == Applied(records[a], q[r], now)
                                 IN  /\ Owned(r) /\ InBeforeOut(row) /\ pc'[r] = "saveAttendance"
                                     /\ held'[r] = [id |-> a, row |-> row, who |-> persons[row.child]]
        BY <1>1, <2>3, <3>2 DEF LoadAttendance, AttendanceReply, AttendanceGoto, Answer, Goto, LocalsKnown
      <4> DEFINE row == Applied(records[a], q[r], now)
      <4>2. q[r] \in AttendanceRequests /\ UNCHANGED attendanceTables
        BY <1>1, <2>3, <3>2, Bodies DEF LoadAttendance, AttendanceReply, AttendanceGoto, Answer, LocalsKnown
      <4>3. /\ a \in RecordId /\ records[a] \in Attendance /\ a < nextRecord
            /\ Found(records[a].child) /\ records[a].child \in PersonId
        BY <1>1, <1>4, <4>1, <4>2 DEF Owned, AttendanceRequests, AttendanceTables, AttendanceConsistent
      <4>4. row \in Attendance /\ row.child = records[a].child
        BY <4>1, <4>2, <4>3 DEF Applied, Attendance, AttendanceRequests, Pick
      <4>5. persons[row.child] \in Names /\ row.child < nextPerson
        BY <1>1, <4>3, <4>4 DEF PersonTables, Found
      <4> HIDE DEF row
      <4>6. AttendanceLocals(r)'
        BY <4>1, <4>2, <4>3, <4>4, <4>5, <1>3 DEF AttendanceLocals, InBeforeOut, attendanceTables, row
      <4>7. AttendanceConsistent' /\ AttendanceTables'
        BY <1>10, <4>2
      <4> QED  BY <1>10, <4>2, <4>6, <4>7
    <3> QED  BY <3>1, <3>2
  <2>4. CASE SaveAttendance(r)
    <3> DEFINE h == held[r]
               x == held[r].row
    <3>1. /\ h.id \in RecordId /\ h.id < nextRecord /\ x \in Attendance /\ InBeforeOut(x)
          /\ h.who \in Names /\ x.child \in PersonId /\ pc'[r] = "done" /\ UNCHANGED nextRecord
      BY <1>1, <1>4, <2>4 DEF SaveAttendance, AttendanceLocals, Answer, LocalsKnown
    <3>2. CASE UNCHANGED records
      BY <2>1, <3>1, <3>2 DEF attendanceTables
    <3>3. CASE ~UNCHANGED records
      <4>1. /\ records' = [records EXCEPT ![h.id] = x] /\ OnDay(x.child, x.date) \ {h.id} = {}
            /\ persons' = [persons EXCEPT ![x.child] = IF @ = NoRow THEN h.who ELSE @]
        BY <2>4, <3>3 DEF SaveAttendance
      <4>2. FoundNow(x.child)
        BY <1>1, <1>2, <3>1, <4>1 DEF FoundNow, PersonTables
      <4> HIDE DEF x, h
      <4>3. AttendanceTables'
        BY <1>1, <3>1, <4>1 DEF AttendanceTables
      <4>4. AttendanceConsistent'
        <5> SUFFICES ASSUME NEW a \in RecordId, records'[a] # NoRow
                     PROVE  /\ FoundNow(records'[a].child) /\ InBeforeOut(records'[a])
                            /\ \A b \in RecordId \ {a} : records'[b] # NoRow =>
                                  records'[b].child # records'[a].child \/ records'[b].date # records'[a].date
          BY DEF AttendanceConsistent, OnDay, InBeforeOut, Found, FoundNow
        <5>1. \A b \in RecordId \ {h.id} : records'[b] = records[b]
          BY <1>1, <4>1 DEF AttendanceTables
        <5>2. records'[h.id] = x
          BY <1>1, <3>1, <4>1 DEF AttendanceTables
        <5>3. \A b \in RecordId \ {h.id} : records[b] # NoRow => records[b].child # x.child \/ records[b].date # x.date
          BY <4>1 DEF OnDay
        <5>4. CASE a = h.id
          BY <3>1, <4>2, <5>1, <5>2, <5>3, <5>4
        <5>5. CASE a # h.id
          <6>1. /\ Found(records[a].child) /\ InBeforeOut(records[a]) /\ OnDay(records[a].child, records[a].date) = {a}
            BY <1>1, <5>1, <5>5 DEF AttendanceConsistent
          <6>2. \A b \in RecordId \ {a} : records[b] # NoRow =>
                   records[b].child # records[a].child \/ records[b].date # records[a].date
            BY <6>1 DEF OnDay
          <6>3. records[a] # NoRow /\ records'[a] = records[a] /\ records[a].child \in PersonId
            BY <1>1, <1>4, <5>1, <5>5 DEF AttendanceTables
          <6>4. FoundNow(records'[a].child)
            BY <1>7, <6>1, <6>3 DEF Found, FoundNow
          <6> QED  BY <5>1, <5>2, <5>3, <6>1, <6>2, <6>3, <6>4
        <5> QED  BY <5>4, <5>5
      <4> QED  BY <1>1, <3>1, <4>3, <4>4 DEF AttendanceTables, AttendanceLocals
    <3> QED  BY <3>2, <3>3
  <2>5. CASE FindAttendance(r)
    <3>1. UNCHANGED attendanceTables /\ pc'[r] \in {"done", "removeAttendance"}
      BY <1>1, <2>5 DEF FindAttendance, AttendanceReply, AttendanceGoto, Answer, Goto, LocalsKnown
    <3>2. pc'[r] = "removeAttendance" => q[r].record < nextRecord
      BY <1>1, <2>5, Bodies DEF FindAttendance, AttendanceReply, Answer, LocalsKnown, Owned, AttendanceTables,
         AttendanceRequests
    <3> QED  BY <1>3, <1>10, <3>1, <3>2 DEF AttendanceLocals, attendanceTables
  <2>6. CASE RemoveAttendance(r)
    <3>1. /\ records' = [records EXCEPT ![q[r].record] = NoRow] /\ UNCHANGED <<persons, nextRecord>>
          /\ pc'[r] = "done"
      BY <1>1, <2>6 DEF RemoveAttendance, Answer, LocalsKnown
    <3>2. \A a \in RecordId : records'[a] # NoRow => records'[a] = records[a]
      BY <1>1, <3>1 DEF AttendanceTables
    <3>3. AttendanceTables'
      BY <1>1, <3>1, <3>2 DEF AttendanceTables
    <3>4. AttendanceConsistent'
      BY <1>1, <3>1, <3>2 DEF AttendanceConsistent, OnDay, InBeforeOut, Found
    <3> QED  BY <1>1, <3>1, <3>3, <3>4 DEF AttendanceLocals, AttendanceTables
  <2> QED
    BY <1>1, <1>3, <2>1, <2>2, <2>3, <2>4, <2>5, <2>6 DEF AttendanceStep, FindAttendanceChild, FindDay, ReloadAttendance,
       AttendanceReply, AttendanceGoto, Answer, Goto, LocalsKnown
<1> QED  BY <1>3, <1>8, <1>9, <1>11

\* A child that goes takes its attendance and its vouchers with it.
LEMMA CascadeStep ==
    ASSUME Base, NEW r \in Reqs, OfPersons(r), PersonTables'
    PROVE  /\ AttendanceTables' /\ AttendanceConsistent' /\ VoucherTables' /\ VouchersConsistent'
           /\ UNCHANGED nextRecord
<1>1. AttendanceTables /\ AttendanceConsistent /\ VoucherTables /\ VouchersConsistent
  BY DEF Base, RecordsConsistent
<1>2. \A p \in PersonId : p # NoRow
  BY PersonSentinels DEF PersonId
<1>3. /\ records' = [a \in RecordId |-> IF records[a] # NoRow /\ persons'[records[a].child] = NoRow
                                        THEN NoRow ELSE records[a]]
      /\ vouchers' = [n \in Numbers |-> IF ~Free(n) /\ persons'[vouchers[n].child] = NoRow
                                        THEN NoRow ELSE vouchers[n]]
      /\ UNCHANGED <<nextRecord, bills>>
  BY DEF OfPersons, Cascade
<1>4. \A a \in RecordId : records'[a] # NoRow =>
        records'[a] = records[a] /\ records[a].child \in PersonId /\ persons'[records[a].child] # NoRow
  BY <1>1, <1>3 DEF AttendanceTables, Attendance
<1>5. AttendanceTables'
  BY <1>1, <1>3 DEF AttendanceTables
<1>6. AttendanceConsistent'
  BY <1>1, <1>2, <1>4 DEF AttendanceConsistent, OnDay, InBeforeOut, Found
<1>7. VoucherTables'
  BY <1>1, <1>3 DEF VoucherTables
<1>8. \A n \in Numbers : vouchers'[n] # NoRow =>
        vouchers'[n] = vouchers[n] /\ vouchers[n].child \in PersonId /\ persons'[vouchers[n].child] # NoRow
  BY <1>1, <1>3 DEF VoucherTables, Voucher, Free
<1>9. VouchersConsistent'
  BY <1>1, <1>2, <1>3, <1>8 DEF VouchersConsistent, Free, Found
<1> QED  BY <1>3, <1>5, <1>6, <1>7, <1>9

\* Vouchers are linked to children that are there, and a month has one bill.
LEMMA VoucherSteps ==
    ASSUME Base, NEW r \in Reqs, OfVouchers(r)
    PROVE  VoucherTables' /\ VouchersConsistent' /\ VoucherLocals(r)'
<1>1. VoucherTables /\ VouchersConsistent /\ VoucherLocals(r) /\ Kinds(r) /\ LocalsKnown /\ PersonTables
  BY DEF Base, Requesting, RecordsConsistent
<1>2. /\ VoucherStep(r) /\ UNCHANGED <<q, persons>>
  BY DEF OfVouchers, personVars, personTables
<1>3. pc[r] = "removeVoucher" \/ pc[r] = "assign" => q[r] \in VoucherRequests
  BY <1>1, Bodies
<1>4. UNCHANGED voucherTables => VoucherTables' /\ VouchersConsistent'
  BY <1>1, <1>2 DEF voucherTables, VoucherTables, VouchersConsistent, Free, Found
<1>5. CASE UNCHANGED voucherTables /\ pc'[r] \notin {"discover", "link"}
  BY <1>4, <1>5 DEF VoucherLocals
<1>6. CASE StoreBill(r)
  <2>1. CASE UNCHANGED voucherTables
    BY <1>1, <1>5, <1>6, <2>1 DEF StoreBill, VoucherReply, Answer, Goto, LocalsKnown
  <2>2. CASE ~UNCHANGED voucherTables
    <3>1. /\ ~SameMonth(r) /\ bills' = bills \cup {[file |-> q[r].file, by |-> r]} /\ UNCHANGED vouchers
          /\ pc'[r] = "knownVouchers" /\ q[r].file \in Files
      BY <1>1, <1>6, <2>2, Bodies DEF StoreBill, VoucherReply, Goto, LocalsKnown, VoucherRequests
    <3>2. VoucherTables'
      BY <1>1, <3>1 DEF VoucherTables, Bill
    <3>3. \A b, c \in bills' : b.file.month = c.file.month => b = c
      BY <1>1, <3>1 DEF VouchersConsistent, SameMonth
    <3> QED  BY <1>1, <1>2, <3>1, <3>2, <3>3 DEF VouchersConsistent, VoucherLocals, Free, Found
  <2> QED  BY <2>1, <2>2
<1>7. CASE KnownVouchers(r)
  <2>1. UNCHANGED voucherTables /\ pc'[r] = "discover" /\ discovery'[r].left \subseteq DOMAIN Rows(r)
    BY <1>1, <1>7 DEF KnownVouchers, VoucherGoto, Goto, LocalsKnown
  <2> QED  BY <1>2, <1>4, <2>1 DEF VoucherLocals, Rows
<1>8. CASE MatchRow(r)
  <2>1. UNCHANGED voucherTables /\ pc[r] = "discover" /\ discovery[r].left \subseteq DOMAIN Rows(r)
    BY <1>1, <1>8 DEF MatchRow, VoucherLocals
  <2>2. CASE pc'[r] = "done"
    BY <1>5, <2>1, <2>2
  <2>3. ASSUME NEW i \in discovery[r].left,
               discovery' = [discovery EXCEPT ![r] = [left |-> discovery[r].left \ {i}, row |-> i,
                                                      child |-> OnlyMatch(Rows(r)[i].who)]],
               IF OnlyMatch(Rows(r)[i].who) = NoRow THEN UNCHANGED <<pc, resp>> ELSE Goto(r, "link")
        PROVE  VoucherLocals(r)'
    <3>1. OnlyMatch(Rows(r)[i].who) # NoRow => OnlyMatch(Rows(r)[i].who) \in PersonId
      <4> DEFINE w == Rows(r)[i].who
      <4>1. ASSUME OnlyMatch(w) # NoRow PROVE {p \in PersonId : persons[p] = w} # {}
        BY <4>1, FS_EmptySet DEF OnlyMatch
      <4> QED  BY <4>1 DEF OnlyMatch
    <3> QED  BY <1>1, <1>2, <2>1, <2>3, <3>1 DEF VoucherLocals, Goto, Rows, LocalsKnown
  <2> QED  BY <1>1, <1>4, <1>8, <2>1, <2>2, <2>3 DEF MatchRow, Answer, LocalsKnown
<1>9. CASE Link(r)
  <2> DEFINE d == discovery[r]
             n == Rows(r)[d.row].number
  <2>1. /\ pc[r] = "link" /\ pc'[r] = "discover" /\ UNCHANGED <<bills, discovery>>
        /\ vouchers' = IF Free(n) /\ Found(d.child)
                       THEN [vouchers EXCEPT ![n] = [child |-> d.child, by |-> r]] ELSE vouchers
        /\ d.child \in PersonId /\ d.row \in DOMAIN Rows(r) /\ d.left \subseteq DOMAIN Rows(r)
    BY <1>1, <1>9 DEF Link, Goto, LocalsKnown, VoucherLocals
  <2>2. VoucherLocals(r)'
    BY <1>2, <2>1 DEF VoucherLocals, Rows
  <2> HIDE DEF d, n
  <2>3. [child |-> d.child, by |-> r] \in Voucher
    BY <2>1 DEF Voucher
  <2> QED  BY <1>1, <1>2, <2>1, <2>2, <2>3 DEF VoucherTables, VouchersConsistent, Free, Found
<1>10. CASE DropBill(r)
  BY <1>1, <1>2, <1>10 DEF DropBill, Answer, LocalsKnown, VoucherTables, VouchersConsistent, VoucherLocals, Free, Found
<1>11. CASE InsertVoucher(r)
  <2>1. pc'[r] \in {"done", "whoseVoucher"} /\ q[r].person \in PersonId
    BY <1>1, <1>11, Bodies DEF InsertVoucher, Answer, Goto, LocalsKnown, VoucherRequests
  <2>2. CASE UNCHANGED vouchers
    BY <1>5, <1>11, <2>1, <2>2 DEF InsertVoucher, voucherTables
  <2>3. CASE ~UNCHANGED vouchers
    <3>1. /\ Found(q[r].person) /\ UNCHANGED bills
          /\ vouchers' = [vouchers EXCEPT ![q[r].number] = [child |-> q[r].person, by |-> r]]
      BY <1>11, <2>3 DEF InsertVoucher
    <3>2. [child |-> q[r].person, by |-> r] \in Voucher
      BY <2>1 DEF Voucher
    <3> QED  BY <1>1, <1>2, <2>1, <3>1, <3>2 DEF VoucherTables, VouchersConsistent, VoucherLocals, Free, Found
  <2> QED  BY <2>2, <2>3
<1>12. CASE DropVoucher(r)
  <2>1. pc'[r] = "done" /\ UNCHANGED bills
    BY <1>1, <1>12 DEF DropVoucher, VoucherReply, Answer, LocalsKnown, voucherTables
  <2>2. CASE UNCHANGED vouchers
    BY <1>5, <2>1, <2>2 DEF voucherTables
  <2>3. CASE ~UNCHANGED vouchers
    <3>1. vouchers' = [vouchers EXCEPT ![q[r].number] = NoRow]
      BY <1>12, <2>3 DEF DropVoucher, VoucherReply, voucherTables
    <3> QED  BY <1>1, <1>2, <2>1, <3>1 DEF VoucherTables, VouchersConsistent, VoucherLocals, Free, Found
  <2> QED  BY <2>2, <2>3
<1> QED
  BY <1>1, <1>2, <1>5, <1>6, <1>7, <1>8, <1>9, <1>10, <1>11, <1>12 DEF VoucherStep, FindHash, FindMonth, FindBill,
     FindVoucherChild, WhoseVoucher, FindVoucher, VoucherReply, VoucherGoto, Answer, Goto, LocalsKnown

\* Users and memberships keep their types; a user that is to be written was loaded.
LEMMA MemberSteps ==
    ASSUME Base, NEW r \in Reqs, OfMembers(r)
    PROVE  MemberTables' /\ MemberLocals(r)'
<1>1. MemberTables /\ MemberLocals(r) /\ Kinds(r) /\ LocalsKnown
  BY DEF Base, Requesting
<1>2. q[r] \in MemberRequests /\ UNCHANGED q
  BY <1>1, Bodies DEF OfMembers, MemberStep, Authorize, Verify, Load, Count, WriteUser, FindMembership, OrgAccess,
     Exists, AddMember, UpdateRole, RemoveMember, FindOrg, UpdateOrg, DeleteOrg, PurgeOrg
<1>3. /\ q[r].user \in Users /\ q[r].org \in Orgs /\ q[r].role \in Role
      /\ q[r].active \in BOOLEAN /\ q[r].super \in BOOLEAN
  BY <1>2 DEF MemberRequests
<1>4. MemberTables'
  <2>1. CASE UNCHANGED memberTables
    BY <1>1, <2>1 DEF MemberTables, memberTables
  <2>2. CASE WriteUser(r)
    <3>1. CASE SaveUser(r)
      <4>1. Saved(r) \in User
        BY <1>1, <1>3, <2>2 DEF Saved, WriteUser, MemberLocals, User
      <4> QED  BY <1>1, <3>1, <4>1 DEF SaveUser, MemberTables
    <3>2. CASE SetSuperAdmin(r)
      <4>1. CASE UNCHANGED users
        BY <1>1, <3>2, <4>1 DEF SetSuperAdmin, MemberTables
      <4>2. CASE ~UNCHANGED users
        <5>1. /\ users' = [users EXCEPT ![q[r].user].super = q[r].super] /\ users[q[r].user] # NoRow
              /\ UNCHANGED <<orgs, members>>
          BY <3>2, <4>2 DEF SetSuperAdmin, LiveUser
        <5>2. users[q[r].user] \in User
          BY <1>1, <1>3, <5>1 DEF MemberTables
        <5>3. [users[q[r].user] EXCEPT !.super = q[r].super] \in User
          BY <1>3, <5>2 DEF User
        <5> QED  BY <1>1, <5>1, <5>3 DEF MemberTables
      <4> QED  BY <4>1, <4>2
    <3>3. CASE DeleteUser(r)
      <4>1. CASE UNCHANGED users
        BY <1>1, <3>3, <4>1 DEF DeleteUser, MemberTables
      <4>2. CASE ~UNCHANGED users
        <5>1. /\ users' = [users EXCEPT ![q[r].user].deleted = TRUE] /\ users[q[r].user] # NoRow
              /\ UNCHANGED <<orgs, members>>
          BY <3>3, <4>2 DEF DeleteUser
        <5>2. users[q[r].user] \in User
          BY <1>1, <1>3, <5>1 DEF MemberTables
        <5>3. [users[q[r].user] EXCEPT !.deleted = TRUE] \in User
          BY <5>2 DEF User
        <5> QED  BY <1>1, <5>1, <5>3 DEF MemberTables
      <4> QED  BY <4>1, <4>2
    <3>4. CASE PurgeUser(r)
      BY <1>1, <1>3, <3>4 DEF PurgeUser, MemberTables
    <3> QED  BY <2>2, <3>1, <3>2, <3>3, <3>4 DEF WriteUser
  <2>3. CASE PutRole(r) \/ RemoveMember(r)
    <3>1. PICK x \in Role \cup {NoRole} : members' = [members EXCEPT ![q[r].user][q[r].org] = x]
      BY <1>3, <2>3 DEF PutRole, RemoveMember
    <3>2. [members[q[r].user] EXCEPT ![q[r].org] = x] \in [Orgs -> Role \cup {NoRole}]
      BY <1>1, <1>3 DEF MemberTables
    <3>3. members' = [members EXCEPT ![q[r].user] = [members[q[r].user] EXCEPT ![q[r].org] = x]]
      BY <3>1
    <3>4. members' \in [Users -> [Orgs -> Role \cup {NoRole}]]
      BY <1>1, <1>3, <3>2, <3>3 DEF MemberTables
    <3> QED  BY <1>1, <2>3, <3>4 DEF PutRole, RemoveMember, MemberTables
  <2>4. CASE UpdateOrg(r)
    BY <1>1, <1>3, <2>4 DEF UpdateOrg, MemberTables
  <2>5. CASE DeleteOrg(r)
    BY <1>1, <1>3, <2>5 DEF DeleteOrg, MemberTables
  <2>6. CASE PurgeOrg(r)
    <3>1. \A u \in Users : [members[u] EXCEPT ![q[r].org] = NoRole] \in [Orgs -> Role \cup {NoRole}]
      BY <1>1 DEF MemberTables
    <3> QED  BY <1>1, <1>3, <2>6, <3>1 DEF PurgeOrg, MemberTables
  <2> QED
    BY <2>1, <2>2, <2>3, <2>4, <2>5, <2>6 DEF OfMembers, MemberStep, Authorize, Verify, Load, Count,
       FindMembership, OrgAccess, Exists, AddMember, UpdateRole, FindOrg, Refuse, Then
<1>5. MemberLocals(r)'
  <2>1. CASE pc'[r] = "count" \/ pc'[r] = "write"
    <3>1. \/ Load(r) /\ loaded'[r] = users[q[r].user] /\ users[q[r].user] # NoRow
          \/ Count(r) /\ UNCHANGED loaded
      <4>1. Fits(q[r].kind, pc[r])
        BY <1>1, <1>2, Bodies DEF Kinds, OfMembers, MemberStep, Authorize, Verify, Load, Count, WriteUser,
           FindMembership, OrgAccess, Exists, AddMember, UpdateRole, RemoveMember, FindOrg, UpdateOrg, DeleteOrg, PurgeOrg
      <4> QED
        BY <1>1, <2>1, <4>1 DEF OfMembers, MemberStep, Authorize, Verify, Load, AfterLoad, Count, WriteUser, SaveUser,
           SetSuperAdmin, DeleteUser, PurgeUser, FindMembership, OrgAccess, Exists, AddMember, UpdateRole, PutRole,
           RemoveMember, FindOrg, UpdateOrg, DeleteOrg, PurgeOrg, Refuse, Then, Answer, Goto, LocalsKnown, Fits,
           UserKinds, SuperKinds
    <3> QED  BY <1>1, <1>3, <3>1 DEF MemberLocals, MemberTables, Count
  <2> QED  BY <2>1 DEF MemberLocals
<1> QED  BY <1>4, <1>5

\* A request that is sent, or is at a statement of another kind, holds nothing there.
LEMMA OthersLocals ==
    ASSUME Requesting, Requesting', NEW r \in Reqs, StepOf(r)
    PROVE  /\ ~OfAttendance(r) => pc'[r] \notin {"saveAttendance", "removeAttendance"}
           /\ ~OfVouchers(r) => pc'[r] \notin {"discover", "link"}
           /\ ~OfMembers(r) => pc'[r] \notin {"count", "write"}
<1>1. CASE Send(r)
  <2>1. /\ pc'[r] = IF q'[r].kind # "trail" /\ q'[r] \in MemberRequests THEN "authorize" ELSE q'[r].kind
        /\ Fits(q'[r].kind, pc'[r]) /\ pc'[r] # "done"
    BY <1>1, SendFits DEF FirstStage
  <2> QED  BY <2>1 DEF Fits, UserKinds
<1>2. CASE ~Send(r)
  <2>1. Fits(q[r].kind, pc'[r])
    BY <1>2, StepFits DEF Requesting
  <2>2. /\ ~OfAttendance(r) => q[r].kind \notin AttendanceKinds
        /\ ~OfVouchers(r) => q[r].kind \notin VoucherKinds
        /\ ~OfMembers(r) => q[r].kind \notin SuperKinds \cup UserKinds \cup MemberKinds \cup {"updateOrg"}
    BY <1>2, StepKind DEF StepOf, SuperKinds, UserKinds, MemberKinds, PersonKinds, AttendanceKinds, VoucherKinds
  <2> QED  BY <2>1, <2>2 DEF Fits, AttendanceKinds, VoucherKinds, SuperKinds, UserKinds, MemberKinds
<1> QED  BY <1>1, <1>2

\* Every statement of every request keeps the tables consistent.
LEMMA BaseStep ==
    ASSUME Base, NEW r \in Reqs, StepOf(r)
    PROVE  /\ Base'
           /\ nextPerson' >= nextPerson /\ nextContract' >= nextContract /\ nextRecord' >= nextRecord
<1>1. /\ Requesting /\ Requesting' /\ PersonTables /\ AttendanceTables /\ VoucherTables /\ MemberTables
      /\ PersonsConsistent /\ AttendanceConsistent /\ VouchersConsistent
  BY StepKinds DEF Base, RecordsConsistent
<1>2. Moves(r) /\ (pc[r] # "idle" => q'[r] = q[r])
  BY <1>1, StepMoves DEF Requesting
<1>3. /\ PersonTables' /\ PersonsConsistent' /\ AttendanceTables' /\ AttendanceConsistent'
      /\ VoucherTables' /\ VouchersConsistent' /\ MemberTables'
      /\ nextPerson' >= nextPerson /\ nextContract' >= nextContract /\ nextRecord' >= nextRecord
  <2>1. CASE OfPersons(r)
    BY <1>1, <2>1, PersonsStep, CascadeStep DEF OfPersons, MemberTables, memberVars, memberTables, AttendanceTables
  <2>2. CASE OfAttendance(r)
    BY <1>1, <2>2, AttendanceSteps DEF OfAttendance, MemberTables, memberVars, memberTables, VoucherTables,
       voucherVars, voucherTables, PersonTables
  <2>3. ASSUME UNCHANGED <<personVars, attendanceVars>>
        PROVE  /\ PersonTables' /\ PersonsConsistent' /\ AttendanceTables' /\ AttendanceConsistent'
               /\ nextPerson' >= nextPerson /\ nextContract' >= nextContract /\ nextRecord' >= nextRecord
    BY <1>1, <2>3 DEF personVars, personTables, attendanceVars, attendanceTables, PersonTables, AttendanceTables,
       PersonsConsistent, AttendanceConsistent, Disjoint, Clash, Found, OnDay, InBeforeOut
  <2>4. ASSUME UNCHANGED <<personVars, voucherVars>> PROVE VoucherTables' /\ VouchersConsistent'
    BY <1>1, <2>4 DEF personVars, personTables, voucherVars, voucherTables, VoucherTables, VouchersConsistent, Free, Found
  <2>5. CASE OfVouchers(r)
    BY <1>1, <2>3, <2>5, VoucherSteps DEF OfVouchers, MemberTables, memberVars, memberTables
  <2>6. CASE OfMembers(r)
    BY <1>1, <2>3, <2>4, <2>6, MemberSteps DEF OfMembers
  <2>7. CASE Send(r) \/ OfTrail(r)
    BY <1>1, <2>3, <2>4, <2>7 DEF Send, OfTrail, recordVars, MemberTables, memberVars, memberTables
  <2> QED  BY <2>1, <2>2, <2>5, <2>6, <2>7 DEF StepOf
<1>4. ASSUME NEW s \in Reqs
      PROVE  PersonLocals(s)' /\ AttendanceLocals(s)' /\ VoucherLocals(s)' /\ MemberLocals(s)'
  <2>1. PersonLocals(s) /\ AttendanceLocals(s) /\ VoucherLocals(s) /\ MemberLocals(s)
    BY DEF Base
  <2>2. CASE s # r
    <3>1. /\ pc'[s] = pc[s] /\ q'[s] = q[s] /\ resp'[s] = resp[s]
          /\ loaded'[s] = loaded[s] /\ target'[s] = target[s] /\ preloaded'[s] = preloaded[s]
          /\ held'[s] = held[s] /\ discovery'[s] = discovery[s]
      BY <1>2, <2>2 DEF Moves
    <3>2. PersonLocals(s)'
      <4>1. \A p \in PersonId : p \in Nat
        BY DEF PersonId
      <4>2. \A c \in Contract : c.id \in Nat
        BY DEF Contract, ContractId
      <4>3. Kinds(s) /\ (pc[s] = "savePerson" => q[s].person \in PersonId)
        BY <1>1, Bodies DEF Requesting
      <4> QED  BY <1>1, <1>3, <2>1, <3>1, <4>1, <4>2, <4>3 DEF PersonLocals, PersonTables, Importing
    <3>3. AttendanceLocals(s)'
      <4>1. pc[s] = "removeAttendance" => q[s].record \in RecordId
        BY <1>1, Bodies DEF Requesting, AttendanceRequests
      <4>2. \A x \in Attendance : x.child \in Nat
        BY DEF Attendance, PersonId
      <4>3. \A a \in RecordId : a \in Nat
        BY DEF RecordId
      <4> QED  BY <1>1, <1>3, <2>1, <3>1, <4>1, <4>2, <4>3 DEF AttendanceLocals, AttendanceTables, PersonTables, InBeforeOut
    <3> QED  BY <2>1, <3>1, <3>2, <3>3 DEF VoucherLocals, MemberLocals, Rows
  <2>3. CASE s = r
    <3>1. PersonLocals(r)'
      <4>1. CASE OfPersons(r)
        BY <1>3, <4>1, PersonsLocals
      <4>2. CASE ~OfPersons(r)
        <5>1. target'[r] = target[r] /\ preloaded'[r] = preloaded[r]
          BY <4>2 DEF StepOf, Send, OfMembers, OfAttendance, OfVouchers, OfTrail, recordVars, personVars
        <5> QED  BY <1>3, <4>2, <5>1, PersonLocalsKept DEF PersonTables
      <4> QED  BY <4>1, <4>2
    <3>2. AttendanceLocals(r)'
      BY <1>1, AttendanceSteps, OthersLocals DEF AttendanceLocals
    <3>3. VoucherLocals(r)'
      BY <1>1, VoucherSteps, OthersLocals DEF VoucherLocals
    <3>4. MemberLocals(r)'
      BY <1>1, MemberSteps, OthersLocals DEF MemberLocals
    <3> QED  BY <2>3, <3>1, <3>2, <3>3, <3>4
  <2> QED  BY <2>2, <2>3
<1> QED  BY <1>1, <1>3, <1>4 DEF Base, RecordsConsistent

\* A step that changes nothing keeps it.
LEMMA BaseStutters ==
    ASSUME Base, UNCHANGED vars PROVE Base'
BY DEF vars, requestVars, recordVars, memberVars, memberTables, personVars, personTables, attendanceVars,
   attendanceTables, voucherVars, voucherTables, Base, Requesting, LocalsKnown, Menus, Kinds, PersonTables,
   AttendanceTables, VoucherTables, MemberTables, PersonLocals, AttendanceLocals, VoucherLocals, MemberLocals,
   Importing, InBeforeOut, Rows, RecordsConsistent, PersonsConsistent, AttendanceConsistent, VouchersConsistent,
   Disjoint, Clash, Found, OnDay, Free

\* Invariant of the specification.
LEMMA BaseInvariant == Spec => []Base
<1>1. Init => Base
  BY BaseInit
<1>2. Base /\ [Next]_vars => Base'
  <2> SUFFICES ASSUME Base, [Next]_vars PROVE Base'
    OBVIOUS
  <2>1. CASE UNCHANGED vars
    BY <2>1, BaseStutters
  <2>2. CASE \E r \in Reqs : StepOf(r)
    BY <2>2, BaseStep
  <2> QED  BY <2>1, <2>2 DEF Next, Finished, StepOf
<1> QED  BY <1>1, <1>2, PTL DEF Spec

\* Whatever overlaps, an import with the writes of other requests too, and however many
\* requests there are: a person has one contract a day, contracts, attendance and vouchers
\* are somebody's, a child has one record a day and a month has one bill.
THEOREM RecordsStayConsistent == Spec => []RecordsConsistent
<1>1. Base => RecordsConsistent
  BY DEF Base
<1> QED  BY <1>1, BaseInvariant, PTL

---------------------------------------------------------------------------
(* Imports. *)

\* The excuse of an import: an update that overlapped it was saved.
Restored(r) == \E s \in Reqs : Overlap(r, s) /\ resp[s] = "ok" /\ q[s].kind = "updatePerson"

\* Written by a request that was not over when r was sent.
Later(r, S) == \A c \in S : c.by \in Reqs \ prior[r]

Imports(r) == resp[r] = "ok" /\ q[r].kind = "import"

\* Who can bring a contract back: nobody while the import holds the person's lock;
\* later an update, with what it loaded before the import or after it.
ImportsSafe ==
    /\ \A r \in Reqs : Imports(r) => target[r] # NoRow /\ (Restored(r) \/ Later(r, Of(target[r])))
    /\ \A r \in Reqs : Importing(r) => Later(r, Of(target[r]) \ preloaded[r])
    /\ \A r, s \in Reqs :
         Imports(r) /\ r \in prior[s] /\ pc[s] = "savePerson" /\ q[s].person = target[r]
            => Restored(r) \/ Later(r, preloaded[s])

\* A contract is new, or was saved again by an update that no import kept waiting.
LEMMA ContractsOrigin ==
    ASSUME Base, NEW s \in Reqs, StepOf(s), NEW c \in contracts', c \notin contracts
    PROVE  \/ c.by = s /\ c.id = nextContract
           \/ /\ pc[s] = "savePerson" /\ resp'[s] = "ok" /\ ~Locked(q[s].person)
              /\ c \in preloaded[s] /\ c.person = q[s].person
<1>1. Base /\ LocalsKnown /\ PersonLocals(s)
  BY DEF Base, Requesting
<1>2. OfPersons(s)
  BY DEF StepOf, Send, OfMembers, OfAttendance, OfVouchers, OfTrail, recordVars, personVars, personTables
<1>3. CreatePerson(s) \/ SavePerson(s) \/ InsertContract(s) \/ CommitImport(s)
  BY <1>2 DEF OfPersons, PersonStep, LoadPerson, DeletePerson, CheckContract, DeleteContract, MatchPerson,
     ClearContracts, CheckImport, PersonReply, PersonGoto, personTables
<1>4. CASE SavePerson(s)
  BY <1>1, <1>4 DEF SavePerson, PersonReply, personTables, Answer, LocalsKnown, PersonLocals, Importing
<1>5. CASE CreatePerson(s) \/ InsertContract(s) \/ CommitImport(s)
  BY <1>5 DEF CreatePerson, InsertContract, CommitImport, PersonReply, personTables, New
<1> QED  BY <1>3, <1>4, <1>5

\* What a step does to the imports and their excuses.
LEMMA ImportsMove ==
    ASSUME Base, NEW s \in Reqs, StepOf(s), NEW r \in Reqs
    PROVE  /\ Imports(r) /\ Restored(r) => Restored(r)'
           /\ Imports(r) => Imports(r)' /\ target'[r] = target[r] /\ prior'[r] = prior[r] /\ r # s
           /\ Imports(r)' => Imports(r) \/ (r = s /\ CommitImport(s))
           /\ s \notin prior[r]
<1>1. Requesting /\ Requesting' /\ LocalsKnown /\ Moves(s)
  BY StepMoves, StepKinds DEF Base, Requesting
<1>2. pc[s] # "done" /\ resp[s] = "none" /\ (pc[s] # "idle" => q'[s] = q[s] /\ prior'[s] = prior[s])
  BY <1>1, StepMoves, AnswersOrGoes DEF Advances, Requesting, Kinds, Send, Submit
<1>3. s \notin prior[r]
  BY <1>1, <1>2 DEF Requesting, Kinds
<1>4. Imports(r) => Imports(r)' /\ target'[r] = target[r] /\ prior'[r] = prior[r] /\ r # s
  BY <1>1, <1>2 DEF Imports, Moves

<1>5. ASSUME Imports(r), Restored(r) PROVE Restored(r)'
  <2>1. PICK t \in Reqs : Overlap(r, t) /\ resp[t] = "ok" /\ q[t].kind = "updatePerson"
    BY <1>5 DEF Restored
  <2>2. t # s /\ r # s
    BY <1>2, <1>4, <1>5, <2>1
  <2> QED  BY <1>1, <2>1, <2>2 DEF Moves, Overlap, Restored
<1>6. ASSUME Imports(r)', ~Imports(r) PROVE r = s /\ CommitImport(s)
  <2>1. r = s
    BY <1>1, <1>6 DEF Moves, Imports
  <2>2. ~Send(s)
    BY <1>1, <1>2, <1>6, <2>1, SendFits DEF Imports
  <2>3. q[s].kind = "import" /\ resp'[s] = "ok"
    BY <1>2, <1>6, <2>1, <2>2, AnswersOrGoes DEF Imports, Advances
  <2>4. OfPersons(s)
    BY <1>1, <2>2, <2>3, StepKind DEF StepOf, SuperKinds, UserKinds, MemberKinds, AttendanceKinds, VoucherKinds
  <2>5. Fits("import", pc[s]) /\ pc[s] \notin {"idle", "done"}
    BY <1>1, <1>2, <2>2, <2>3, AnswersOrGoes DEF Requesting, Kinds, Advances
  <2>6. pc[s] \in {"import", "clear", "importCheck", "importCommit"}
    BY <2>5 DEF Fits, UserKinds
  <2> QED
    BY <1>1, <1>2, <2>1, <2>3, <2>4, <2>6 DEF OfPersons, PersonStep, CreatePerson, LoadPerson, SavePerson, DeletePerson,
       CheckContract, InsertContract, DeleteContract, MatchPerson, ClearContracts, CheckImport, PersonReply,
       PersonGoto, Answer, Goto, LocalsKnown
<1> QED
  <2>1. Imports(r) /\ Restored(r) => Restored(r)'
    BY <1>5
  <2>2. Imports(r)' => Imports(r) \/ (r = s /\ CommitImport(s))
    BY <1>6
  <2> QED  BY <1>3, <1>4, <2>1, <2>2

\* Every statement of every request keeps it.
LEMMA ImportsStep ==
    ASSUME Base, ImportsSafe, NEW s \in Reqs, StepOf(s)
    PROVE  ImportsSafe'
<1>1. /\ Requesting /\ Requesting' /\ LocalsKnown /\ Moves(s) /\ PersonTables /\ PersonsConsistent
      /\ \A r \in Reqs : PersonLocals(r) /\ Kinds(r) /\ Kinds(r)'
  BY StepMoves, StepKinds DEF Base, Requesting, RecordsConsistent
<1>2. pc[s] # "done" /\ (pc[s] # "idle" => q'[s] = q[s] /\ prior'[s] = prior[s])
  BY <1>1, StepMoves, AnswersOrGoes DEF Advances, Send, Submit
<1>3. \A c \in contracts : c.person \in PersonId /\ c.person < nextPerson /\ c.person \in Nat
  BY <1>1 DEF PersonTables, PersonsConsistent, Found, Contract, PersonId
<1>4. ASSUME NEW r \in Reqs, Imports(r)'
      PROVE  target'[r] # NoRow /\ (Restored(r)' \/ Later(r, Of(target[r]))')
  <2>1. CASE Imports(r)
    <3>1. target'[r] = target[r] /\ prior'[r] = prior[r] /\ r # s /\ s \notin prior[r]
      BY <2>1, ImportsMove
    <3>2. CASE Restored(r)
      BY <2>1, <3>1, <3>2, ImportsMove DEF ImportsSafe
    <3>3. CASE ~Restored(r) /\ ~Restored(r)'
      <4> SUFFICES ASSUME NEW c \in contracts', c.person = target[r] PROVE c.by \in Reqs \ prior[r]
        BY <2>1, <3>1 DEF ImportsSafe, Later, Of
      <4>1. CASE c \in contracts
        BY <2>1, <3>3, <4>1 DEF ImportsSafe, Later, Of
      <4>2. CASE c \notin contracts
        <5>1. CASE c.by = s
          BY <3>1, <5>1
        <5>2. CASE /\ pc[s] = "savePerson" /\ resp'[s] = "ok" /\ c \in preloaded[s] /\ c.person = q[s].person
          <6>1. CASE r \in prior[s]
            BY <2>1, <3>3, <5>2, <6>1 DEF ImportsSafe, Later
          <6>2. CASE r \notin prior[s]
            <7>1. q[s].kind = "updatePerson" /\ q'[s] = q[s] /\ prior'[s] = prior[s]
              BY <1>1, <1>2, <5>2 DEF Kinds, Fits, UserKinds
            <7>2. Overlap(r, s)'
              BY <1>1, <3>1, <6>2, <7>1 DEF Overlap, Moves
            <7> QED  BY <3>3, <5>2, <7>1, <7>2 DEF Restored
          <6> QED  BY <6>1, <6>2
        <5> QED  BY <4>2, <5>1, <5>2, ContractsOrigin
      <4> QED  BY <4>1, <4>2
    <3> QED  BY <2>1, <3>1, <3>2, <3>3 DEF ImportsSafe
  <2>2. CASE ~Imports(r)
    <3>1. r = s /\ CommitImport(s) /\ s \notin prior[s] /\ prior'[s] = prior[s] /\ resp'[s] = "ok"
      BY <1>2, <1>4, <2>2, ImportsMove DEF CommitImport, Imports
    <3> DEFINE p == Imported(s)
    <3>2. /\ target'[s] = p /\ p \in PersonId /\ Importing(s)
          /\ contracts' = (contracts \ preloaded[s]) \cup {New(s, p)}
      BY <1>1, <3>1 DEF CommitImport, PersonReply, Answer, LocalsKnown, Importing
    <3>3. ASSUME NEW c \in contracts', c.person = p PROVE c.by \in Reqs \ prior[s]
      <4>1. CASE c = New(s, p)
        BY <3>1, <4>1 DEF New
      <4>2. CASE c \in contracts \ preloaded[s]
        <5>1. target[s] = p
          BY <1>1, <1>3, <3>3, <4>2 DEF Imported, PersonTables
        <5> QED  BY <3>2, <3>3, <4>2, <5>1 DEF ImportsSafe, Later, Of
      <4> QED  BY <3>2, <4>1, <4>2
    <3>4. p # NoRow
      BY <3>2, PersonSentinels DEF PersonId
    <3> QED  BY <3>1, <3>2, <3>3, <3>4 DEF Later, Of
  <2> QED  BY <2>1, <2>2
<1>5. ASSUME NEW r \in Reqs, Importing(r)' PROVE Later(r, Of(target[r]) \ preloaded[r])'
  <2> SUFFICES ASSUME NEW c \in contracts', c.person = target'[r], c \notin preloaded'[r]
               PROVE  c.by \in Reqs \ prior'[r]
    BY DEF Later, Of
  <2>1. s \notin prior'[r]
    <3>1. s \in prior'[r] => pc[s] = "done"
      <4>1. CASE Send(s) /\ r = s
        BY <1>1, <4>1, SendFits
      <4>2. CASE ~(Send(s) /\ r = s)
        <5>1. prior'[r] = prior[r]
          BY <1>1, <1>2, <4>2, AnswersOrGoes DEF Moves, Advances
        <5> QED  BY <1>1, <5>1 DEF Kinds
      <4> QED  BY <4>1, <4>2
    <3> QED  BY <1>2, <3>1
  <2>2. CASE Importing(r) /\ target'[r] = target[r] /\ preloaded'[r] = preloaded[r] /\ prior'[r] = prior[r]
    <3>1. CASE c \in contracts
      BY <2>2, <3>1 DEF ImportsSafe, Later, Of
    <3>2. CASE c \notin contracts
      <4>1. ~(~Locked(q[s].person) /\ c.person = q[s].person)
        BY <2>2 DEF Locked
      <4> QED  BY <2>1, <3>2, <4>1, ContractsOrigin
    <3> QED  BY <3>1, <3>2
  <2>3. CASE ~(Importing(r) /\ target'[r] = target[r] /\ preloaded'[r] = preloaded[r] /\ prior'[r] = prior[r])
    <3>1. r = s
      BY <1>1, <1>5, <2>3 DEF Moves, Importing
    <3>2. ~Send(s) /\ q[s].kind = "import"
      <4>1. CASE Send(s)
        BY <1>1, <1>5, <3>1, <4>1, SendFits DEF Importing, FirstStage, Fits
      <4>2. CASE ~Send(s)
        BY <1>1, <1>2, <1>5, <3>1, <4>2, AnswersOrGoes DEF Advances, Kinds, Fits, UserKinds, Importing
      <4> QED  BY <4>1, <4>2
    <3>3. OfPersons(s) /\ pc[s] \in {"import", "clear", "importCheck", "importCommit"}
      BY <1>1, <1>2, <3>2, StepKind, AnswersOrGoes DEF StepOf, SuperKinds, UserKinds, MemberKinds, AttendanceKinds, VoucherKinds,
         Kinds, Fits, Advances
    <3>4. \/ UNCHANGED contracts /\ target'[s] = NoRow
          \/ UNCHANGED contracts /\ preloaded'[s] = Of(target'[s])
      BY <1>1, <1>2, <1>5, <2>3, <3>1, <3>3 DEF OfPersons, PersonStep, CreatePerson, LoadPerson, SavePerson, DeletePerson,
         CheckContract, InsertContract, DeleteContract, MatchPerson, ClearContracts, CheckImport, CommitImport,
         PersonReply, PersonGoto, personTables, Answer, Goto, LocalsKnown, Importing
    <3>5. \A x \in contracts : x.person # NoRow
      BY <1>3, PersonSentinels
    <3> QED  BY <3>1, <3>4, <3>5 DEF Of
  <2> QED  BY <2>2, <2>3
<1>6. ASSUME NEW r \in Reqs, NEW t \in Reqs,
             Imports(r)', r \in prior'[t], pc'[t] = "savePerson", q'[t].person = target'[r]
      PROVE  Restored(r)' \/ Later(r, preloaded[t])'
  <2>1. CASE pc[t] = "savePerson" /\ prior'[t] = prior[t] /\ preloaded'[t] = preloaded[t] /\ q'[t] = q[t]
    <3>1. Imports(r)
      BY <1>1, <1>6, <2>1, ImportsMove DEF Kinds, CommitImport
    <3> QED  BY <1>6, <2>1, <3>1, ImportsMove DEF ImportsSafe, Later
  <2>2. CASE ~(pc[t] = "savePerson" /\ prior'[t] = prior[t] /\ preloaded'[t] = preloaded[t] /\ q'[t] = q[t])
    <3>1. t = s
      BY <1>1, <1>6, <2>2 DEF Moves
    <3>2. ~Send(s) /\ q[s].kind = "updatePerson"
      <4>1. CASE Send(s)
        BY <1>1, <1>6, <3>1, <4>1, SendFits DEF FirstStage, Fits
      <4>2. CASE ~Send(s)
        BY <1>1, <1>2, <1>6, <3>1, <4>2, AnswersOrGoes DEF Advances, Kinds, Fits, UserKinds
      <4> QED  BY <4>1, <4>2
    <3>3. OfPersons(s) /\ pc[s] \in {"updatePerson", "savePerson"}
      BY <1>1, <1>2, <3>2, StepKind, AnswersOrGoes DEF StepOf, SuperKinds, UserKinds, MemberKinds, AttendanceKinds, VoucherKinds,
         Kinds, Fits, Advances
    <3>4. /\ UNCHANGED <<contracts, target>> /\ preloaded'[s] = Of(q[s].person)
          /\ q'[s] = q[s] /\ prior'[s] = prior[s]
      BY <1>1, <1>2, <1>6, <2>2, <3>1, <3>3 DEF OfPersons, PersonStep, CreatePerson, LoadPerson, SavePerson, DeletePerson,
         CheckContract, InsertContract, DeleteContract, MatchPerson, ClearContracts, CheckImport, CommitImport,
         PersonReply, PersonGoto, personTables, Answer, Goto, LocalsKnown
    <3>5. Imports(r)
      BY <1>1, <1>2, <1>6, <3>1, <3>4, ImportsMove DEF Kinds
    <3> QED  BY <1>6, <3>1, <3>4, <3>5, ImportsMove DEF ImportsSafe, Later
  <2> QED  BY <2>1, <2>2
<1> QED  BY <1>4, <1>5, <1>6 DEF ImportsSafe

\* An import that was answered replaced the person's timeline: what is there comes from
\* its file or from a request that was not over when it was sent, unless an update of the
\* person that overlapped it saved the contracts it had loaded.
THEOREM ImportsReplace == Spec => []ImportReplaces
<1>1. Init => Base /\ ImportsSafe
  <2>1. ASSUME Init PROVE \A r \in Reqs : pc[r] = "idle" /\ resp[r] = "none"
    BY <2>1 DEF Init, Idle
  <2> QED  BY <2>1, BaseInit DEF ImportsSafe, Imports, Importing
<1>2. Base /\ ImportsSafe /\ [Next]_vars => (Base /\ ImportsSafe)'
  <2> SUFFICES ASSUME Base, ImportsSafe, [Next]_vars PROVE (Base /\ ImportsSafe)'
    OBVIOUS
  <2>1. CASE UNCHANGED vars
    <3>1. ImportsSafe'
      BY <2>1 DEF vars, requestVars, recordVars, personVars, personTables, ImportsSafe, Imports, Importing, Later, Of,
         Restored, Overlap
    <3> QED  BY <2>1, <3>1, BaseStutters
  <2>2. CASE \E r \in Reqs : StepOf(r)
    BY <2>2, BaseStep, ImportsStep
  <2> QED  BY <2>1, <2>2 DEF Next, Finished, StepOf
<1>3. ImportsSafe => ImportReplaces
  BY DEF ImportsSafe, ImportReplaces, Imports, Restored, Later
<1> QED  BY <1>1, <1>2, <1>3, PTL DEF Spec

---------------------------------------------------------------------------
(* A superadmin who can sign in. *)

UserWriters == {"rename", "setActive", "setSuper", "deleteUser", "purgeUser"}

Wrote(r) == resp[r] = "ok" /\ q[r].kind \in UserWriters

Race == \E r, s \in Reqs : Overlap(r, s) /\ Wrote(r) /\ Wrote(s)

\* Somebody has written users since r was sent.
Disturbed(r) == \E s \in Reqs \ {r} : Wrote(s) /\ s \notin prior[r]

\* What r loaded is what is on record, and what it counted is still true.
Fresh(r) ==
    /\ users[q[r].user] = loaded[r]
    /\ pc[r] = "write" /\ Removes(q[r], loaded[r]) => Usable \ {q[r].user} # {}

SuperadminSafe ==
    \/ Race
    \/ /\ Usable # {}
       /\ \A r \in Reqs : pc[r] \in {"count", "write"} => Fresh(r) \/ Disturbed(r)

\* What was written stays written, and a request that is not over was not before another.
LEMMA WritersMove ==
    ASSUME Base, NEW s \in Reqs, StepOf(s)
    PROVE  /\ Race => Race'
           /\ \A r \in Reqs : pc[r] # "idle" /\ Disturbed(r) => Disturbed(r)'
           /\ \A r \in Reqs : s \notin prior[r]
           /\ \A r \in Reqs : pc[r] = "done" => r # s
<1>1. Requesting /\ Moves(s)
  BY StepMoves DEF Base, Requesting
<1>2. pc[s] # "done" /\ (pc[s] # "idle" => q'[s] = q[s] /\ prior'[s] = prior[s])
  BY <1>1, StepMoves, AnswersOrGoes DEF Advances, Requesting, Send, Submit
<1>3. \A r \in Reqs : s \notin prior[r]
  BY <1>1, <1>2 DEF Requesting, Kinds
<1>4. \A r \in Reqs : Wrote(r) => r # s /\ Wrote(r)' /\ prior'[r] = prior[r]
  BY <1>1, <1>2 DEF Requesting, Kinds, Wrote, Moves
<1>5. Race => Race'
  BY <1>4 DEF Race, Overlap
<1>6. \A r \in Reqs : pc[r] # "idle" => prior'[r] = prior[r]
  BY <1>1, <1>2 DEF Moves
<1>7. \A r \in Reqs : pc[r] # "idle" /\ Disturbed(r) => Disturbed(r)'
  BY <1>4, <1>6 DEF Disturbed
<1> QED  BY <1>2, <1>3, <1>5, <1>7

\* A request that reaches its write has loaded the user, and has counted when it had to.
LEMMA LoadsFresh ==
    ASSUME Base, NEW r \in Reqs, OfMembers(r), pc'[r] \in {"count", "write"},
           pc[r] = "count" => Fresh(r) \/ Disturbed(r)
    PROVE  UNCHANGED users /\ (Fresh(r)' \/ Disturbed(r)')
<1>1. LocalsKnown /\ Kinds(r) /\ MemberTables /\ UNCHANGED <<q, prior>>
  BY DEF Base, Requesting, OfMembers, clientVars
<1>2. /\ MemberStep(r) /\ Fits(q[r].kind, pc[r])
  BY <1>1, Bodies DEF Kinds, OfMembers, MemberStep, Authorize, Verify, Load, Count, WriteUser,
     FindMembership, OrgAccess, Exists, AddMember, UpdateRole, RemoveMember, FindOrg, UpdateOrg, DeleteOrg, PurgeOrg
<1>3. Load(r) \/ Count(r)
  BY <1>1, <1>2 DEF MemberStep, Authorize, Verify, WriteUser, SaveUser,
     SetSuperAdmin, DeleteUser, PurgeUser, FindMembership, OrgAccess, Exists, AddMember, UpdateRole, PutRole,
     RemoveMember, FindOrg, UpdateOrg, DeleteOrg, PurgeOrg, Refuse, Then, Answer, Goto, LocalsKnown, Fits,
     UserKinds, SuperKinds
<1>4. UNCHANGED users
  BY <1>3 DEF Load, Count, Refuse, Then, memberTables
<1>5. CASE Load(r)
  <2>1. loaded'[r] = users[q[r].user] /\ pc'[r] = AfterLoad(q[r], users[q[r].user])
    BY <1>1, <1>5 DEF Load, Refuse, Then, Answer, Goto, LocalsKnown
  <2>2. pc'[r] = "write" => ~Removes(q[r], users[q[r].user])
    BY <2>1 DEF AfterLoad
  <2> QED  BY <1>1, <1>4, <2>1, <2>2 DEF Fresh
<1>6. CASE Count(r)
  <2>1. /\ CountUsableSuperAdminsExcluding(q[r].user) # 0 /\ pc'[r] = "write" /\ pc[r] = "count"
        /\ UNCHANGED <<loaded, resp>>
    BY <1>1, <1>6 DEF Count, Refuse, Then, Answer, Goto, LocalsKnown
  <2>2. Usable \ {q[r].user} # {}
    BY <2>1, FS_EmptySet DEF CountUsableSuperAdminsExcluding
  <2>3. Usable' = Usable
    BY <1>4 DEF Usable, IsSuperAdmin, LiveUser
  <2>4. Fresh(r) => Fresh(r)'
    BY <1>1, <1>4, <2>1, <2>2, <2>3 DEF Fresh
  <2>5. Disturbed(r) => Disturbed(r)'
    BY <1>1, <2>1 DEF Disturbed, Wrote
  <2> QED  BY <1>4, <2>1, <2>4, <2>5
<1> QED  BY <1>3, <1>4, <1>5, <1>6

\* A write whose request was not disturbed leaves somebody.
LEMMA WriteLeavesSomebody ==
    ASSUME Base, NEW r \in Reqs, WriteUser(r), Fresh(r), Usable # {}
    PROVE  Usable' # {}
<1> DEFINE u == q[r].user
<1>1. LocalsKnown /\ Kinds(r) /\ MemberTables /\ MemberLocals(r) /\ pc[r] = "write"
  BY DEF Base, Requesting, WriteUser
<1>2. u \in Users /\ q[r].active \in BOOLEAN /\ q[r].super \in BOOLEAN
  BY <1>1, Bodies DEF MemberRequests
<1>3. users[u] = loaded[r] /\ loaded[r] \in User /\ loaded[r] # NoRow
  BY <1>1, MemberSentinels DEF Fresh, MemberLocals
<1>4. \A v \in Users \ {u} : users'[v] = users[v]
  BY <1>1, <1>2 DEF WriteUser, SaveUser, SetSuperAdmin, DeleteUser, PurgeUser, MemberTables
<1>5. \A v \in Usable \ {u} : v \in Usable'
  BY <1>4 DEF Usable, IsSuperAdmin, LiveUser
<1>6. CASE Usable \ {u} # {}
  BY <1>5, <1>6
<1>7. CASE Usable \ {u} = {}
  <2>1. u \in Usable /\ ~Removes(q[r], loaded[r])
    BY <1>1, <1>7 DEF Fresh
  <2>2. loaded[r].super /\ loaded[r].active /\ ~loaded[r].deleted
    BY <1>3, <2>1 DEF Usable, IsSuperAdmin, LiveUser
  <2>3. /\ q[r].kind \notin {"deleteUser", "purgeUser"} /\ (q[r].kind = "setActive" => q[r].active)
        /\ (q[r].kind = "setSuper" => q[r].super)
    BY <1>2, <2>1, <2>2 DEF Removes
  <2>4. users'[u] \in User /\ users'[u].super /\ users'[u].active /\ ~users'[u].deleted
    <3>1. CASE SaveUser(r)
      <4>1. users'[u] = Saved(r)
        BY <1>1, <1>2, <3>1 DEF SaveUser, MemberTables
      <4> QED  BY <1>3, <2>2, <2>3, <4>1 DEF Saved, User
    <3>2. CASE SetSuperAdmin(r)
      <4>1. users' = users \/ users' = [users EXCEPT ![u].super = q[r].super]
        BY <3>2 DEF SetSuperAdmin
      <4>2. users'[u] = users[u] \/ users'[u] = [users[u] EXCEPT !.super = q[r].super]
        BY <1>1, <1>2, <4>1 DEF MemberTables
      <4> QED  BY <1>2, <1>3, <2>2, <2>3, <3>2, <4>2 DEF SetSuperAdmin, User
    <3> QED  BY <2>3, <3>1, <3>2 DEF WriteUser, DeleteUser, PurgeUser
  <2>5. u \in Usable'
    BY <1>2, <2>4, MemberSentinels DEF Usable, IsSuperAdmin, LiveUser
  <2> QED  BY <2>5
<1> QED  BY <1>6, <1>7

\* Every statement of every request keeps it.
LEMMA SuperadminStep ==
    ASSUME Base, SuperadminSafe, NEW s \in Reqs, StepOf(s)
    PROVE  SuperadminSafe'
<1>1. Requesting /\ Requesting' /\ LocalsKnown /\ Moves(s) /\ \A r \in Reqs : Kinds(r)
  BY StepMoves, StepKinds DEF Base, Requesting
<1>2. CASE Race
  BY <1>2, WritersMove DEF SuperadminSafe
<1>3. CASE ~Race /\ WriteUser(s) /\ resp'[s] = "ok"
  <2>1. /\ Wrote(s)' /\ pc[s] = "write" /\ UNCHANGED <<q, prior>>
    <3>1. OfMembers(s)
      <4>1. pc[s] = "write"
        BY <1>3 DEF WriteUser
      <4>2. Fits(q[s].kind, "write") /\ ~Send(s)
        BY <1>1, <4>1 DEF Kinds, Send, Submit
      <4>3. q[s].kind \in {"setSuper", "purgeUser"} \cup UserKinds
        BY <4>2 DEF Fits
      <4> QED  BY <1>1, <4>2, <4>3, StepKind DEF StepOf, UserKinds, PersonKinds, AttendanceKinds, VoucherKinds
    <3> QED  BY <1>3, <3>1 DEF OfMembers, clientVars, WriteUser, SaveUser, SetSuperAdmin, DeleteUser, PurgeUser, Wrote,
                UserWriters
  <2>2. ASSUME NEW r \in Reqs, r # s, pc'[r] \in {"count", "write"} PROVE Disturbed(r)'
    BY <2>1, <2>2, WritersMove DEF Disturbed
  <2>3. pc'[s] = "done"
    BY <1>1, <1>3 DEF WriteUser, SaveUser, SetSuperAdmin, DeleteUser, PurgeUser, Answer, LocalsKnown
  <2>4. CASE Fresh(s)
    <3>1. Usable' # {}
      BY <1>3, <2>4, WriteLeavesSomebody DEF SuperadminSafe
    <3> QED  BY <2>2, <2>3, <3>1 DEF SuperadminSafe
  <2>5. CASE Disturbed(s)
    <3>1. PICK t \in Reqs \ {s} : Wrote(t) /\ t \notin prior[s]
      BY <2>5 DEF Disturbed
    <3>2. s \notin prior[t] /\ Wrote(t)' /\ UNCHANGED prior
      BY <1>1, <2>1, <3>1, WritersMove DEF Wrote, Moves
    <3>3. Race'
      BY <2>1, <3>1, <3>2 DEF Race, Overlap
    <3> QED  BY <3>3 DEF SuperadminSafe
  <2> QED  BY <1>3, <2>1, <2>4, <2>5 DEF SuperadminSafe
<1>4. CASE ~Race /\ ~(WriteUser(s) /\ resp'[s] = "ok")
  <2>1. UNCHANGED users
    <3>1. CASE ~OfMembers(s)
      BY <3>1 DEF StepOf, Send, OfPersons, OfAttendance, OfVouchers, OfTrail, recordVars, memberVars, memberTables
    <3>2. CASE OfMembers(s) /\ ~WriteUser(s)
      BY <3>2 DEF OfMembers, MemberStep, Authorize, Verify, Load, Count, FindMembership, OrgAccess, Exists, AddMember,
         UpdateRole, PutRole, RemoveMember, FindOrg, UpdateOrg, DeleteOrg, PurgeOrg, Refuse, Then, memberTables
    <3>3. CASE WriteUser(s)
      BY <1>1, <1>4, <3>3 DEF WriteUser, SaveUser, SetSuperAdmin, DeleteUser, PurgeUser, Answer, LocalsKnown
    <3> QED  BY <3>1, <3>2, <3>3
  <2>2. Usable' = Usable
    BY <2>1 DEF Usable, IsSuperAdmin, LiveUser
  <2>3. ASSUME NEW r \in Reqs, pc'[r] \in {"count", "write"} PROVE Fresh(r)' \/ Disturbed(r)'
    <3>1. CASE r # s
      <4>1. pc[r] = pc'[r] /\ q'[r] = q[r] /\ loaded'[r] = loaded[r]
        BY <1>1, <3>1 DEF Moves
      <4>2. Fresh(r) => Fresh(r)'
        BY <2>1, <2>2, <4>1 DEF Fresh
      <4>3. Disturbed(r) => Disturbed(r)'
        BY <2>3, <4>1, WritersMove
      <4> QED  BY <1>4, <2>3, <4>1, <4>2, <4>3 DEF SuperadminSafe
    <3>2. CASE r = s
      <4>1. OfMembers(s)
        BY <1>1, <2>3, <3>2, OthersLocals
      <4> QED  BY <1>4, <2>3, <3>2, <4>1, LoadsFresh DEF SuperadminSafe
    <3> QED  BY <3>1, <3>2
  <2> QED  BY <1>4, <2>2, <2>3 DEF SuperadminSafe
<1> QED  BY <1>2, <1>3, <1>4

\* Somebody can sign in as a superadmin, whatever is answered to how many requests,
\* unless two writes of users overlapped.
THEOREM SuperadminRemains == Spec => []SuperadminLostOnlyByRace
<1>1. Init => Base /\ SuperadminSafe
  <2> SUFFICES ASSUME Init PROVE SuperadminSafe
    BY BaseInit
  <2>1. \A r \in Reqs : pc[r] = "idle"
    BY DEF Init, Idle
  <2>2. \E u \in Users : users[u] # NoRow /\ ~users[u].deleted /\ users[u].super /\ users[u].active
    BY RecordAssumption DEF Init
  <2> QED  BY <2>1, <2>2 DEF SuperadminSafe, Usable, IsSuperAdmin, LiveUser
<1>2. Base /\ SuperadminSafe /\ [Next]_vars => (Base /\ SuperadminSafe)'
  <2> SUFFICES ASSUME Base, SuperadminSafe, [Next]_vars PROVE (Base /\ SuperadminSafe)'
    OBVIOUS
  <2>1. CASE UNCHANGED vars
    <3>1. SuperadminSafe'
      BY <2>1 DEF vars, requestVars, recordVars, memberVars, memberTables, SuperadminSafe, Race, Overlap, Wrote, Usable,
         IsSuperAdmin, LiveUser, Fresh, Disturbed
    <3> QED  BY <2>1, <3>1, BaseStutters
  <2>2. CASE \E r \in Reqs : StepOf(r)
    BY <2>2, BaseStep, SuperadminStep
  <2> QED  BY <2>1, <2>2 DEF Next, Finished, StepOf
<1>3. SuperadminSafe => SuperadminLostOnlyByRace
  BY DEF SuperadminSafe, SuperadminLostOnlyByRace, Race, Wrote, UserWriters
<1> QED  BY <1>1, <1>2, <1>3, PTL DEF Spec

---------------------------------------------------------------------------
(* What an answer leaves behind. *)

\* An upload has stored its bill; a request has inserted the number, and will not again.
Stored(s) == pc[s] \in {"knownVouchers", "discover", "link", "done"}
Spent(s, n) ==
    \/ pc[s] = "done"
    \/ pc[s] = "discover" /\ \A i \in discovery[s].left : Rows(s)[i].number # n
    \/ /\ pc[s] = "link" /\ Rows(s)[discovery[s].row].number # n
       /\ \A i \in discovery[s].left : Rows(s)[i].number # n

\* A row that is, or was, a request's was inserted by it once.
Sources ==
    /\ \A n \in Numbers : ~Free(n) /\ vouchers[n].by \in Reqs => Spent(vouchers[n].by, n)
    /\ \A b \in bills : b.by \in Reqs => Stored(b.by)
    /\ \A r \in Reqs :
         resp[r] = "ok" /\ q[r].kind = "removeVoucher" /\ q[r].row \in Reqs => Spent(q[r].row, q[r].number)
    /\ \A r \in Reqs :
         (resp[r] = "ok" \/ pc[r] = "dropBill") /\ q[r].kind = "deleteBill" /\ q[r].row \in Reqs => Stored(q[r].row)

\* Who excuses that an answer does not hold.
Excused(r) ==
    \E s \in Reqs \ {r} :
        /\ s \notin prior[r] /\ Sent(s)
        /\ \/ q[s].kind \in Opposites(q[r].kind)
           \/ q[s].kind \in Savers(q[r].kind) /\ r \notin prior[s]

\* What s is about to save would undo what r was answered.
Stale(s, r) ==
    LET k == q[r]
    IN  \/ /\ k.kind = "deletePerson"
           /\ \/ pc[s] = "savePerson" /\ q[s].person = k.person
              \/ (pc[s] = "clear" \/ Importing(s)) /\ target[s] = k.person
              \/ pc[s] = "saveAttendance" /\ held[s].row.child = k.person
        \/ /\ k.kind = "deleteContract" /\ pc[s] = "savePerson"
           /\ \E c \in preloaded[s] : c.id = k.contract
        \/ k.kind = "deleteAttendance" /\ pc[s] = "saveAttendance" /\ held[s].id = k.record
        \/ /\ pc[s] \in {"count", "write"} /\ q[s].kind \in {"rename", "setActive"} /\ q[s].user = k.user
           /\ \/ k.kind \in {"deleteUser", "purgeUser"}
              \/ k.kind = "setSuper" /\ loaded[s].super # k.super
              \/ k.kind = "setActive" /\ loaded[s].active # k.active
        \/ k.kind \in {"deleteOrg", "purgeOrg"} /\ pc[s] = "updateOrg" /\ q[s].org = k.org

\* The id of what was deleted is not given out again.
Retired(r) ==
    /\ q[r].kind = "deletePerson" => q[r].person < nextPerson
    /\ q[r].kind = "deleteContract" => q[r].contract < nextContract
    /\ q[r].kind = "deleteAttendance" => q[r].record < nextRecord

\* An upload keeps its promise from when it has stored its bill.
Promised(r) == resp[r] = "ok" \/ pc[r] \in {"knownVouchers", "discover", "link"}

Answers ==
    /\ \A r \in Reqs : Promised(r) => Holds(r) \/ Excused(r)
    /\ \A r, s \in Reqs : resp[r] = "ok" /\ r \in prior[s] /\ Stale(s, r) => Excused(r)
    /\ \A r \in Reqs : resp[r] = "ok" => Retired(r)

\* A request that has stored its bill, or used up a number, stays so.
LEMMA SpentStays ==
    ASSUME Base, NEW r \in Reqs, StepOf(r), NEW s \in Reqs
    PROVE  /\ Stored(s) => Stored(s)'
           /\ \A n \in Numbers : Spent(s, n) => Spent(s, n)'
<1>1. Requesting /\ Requesting' /\ LocalsKnown /\ Moves(r) /\ Kinds(s) /\ VoucherLocals(r)
  BY StepMoves, StepKinds DEF Base, Requesting
<1>2. CASE s # r
  BY <1>1, <1>2 DEF Moves, Stored, Spent, Rows
<1>3. CASE s = r
  <2>1. CASE OfVouchers(r)
    <3>1. UNCHANGED q
      BY <2>1 DEF OfVouchers
    <3>2. CASE KnownVouchers(r)
      BY <1>1, <1>3, <3>2 DEF KnownVouchers, VoucherGoto, Goto, Stored, Spent, LocalsKnown
    <3>3. CASE MatchRow(r)
      <4>1. pc[r] = "discover" /\ pc'[r] \in {"discover", "link", "done"}
        BY <1>1, <3>3 DEF MatchRow, Answer, Goto, LocalsKnown
      <4>2. CASE pc'[r] = "done"
        BY <1>3, <4>2 DEF Stored, Spent
      <4>3. CASE pc'[r] # "done"
        <5>1. PICK i \in discovery[r].left :
                 discovery'[r] = [left |-> discovery[r].left \ {i}, row |-> i, child |-> OnlyMatch(Rows(r)[i].who)]
          BY <1>1, <3>3, <4>1, <4>3 DEF MatchRow, Answer, LocalsKnown
        <5> QED  BY <1>3, <3>1, <4>1, <4>3, <5>1 DEF Stored, Spent, Rows
      <4> QED  BY <4>2, <4>3
    <3>4. CASE Link(r)
      BY <1>1, <1>3, <3>1, <3>4 DEF Link, Goto, LocalsKnown, Stored, Spent, Rows
    <3>5. CASE ~KnownVouchers(r) /\ ~MatchRow(r) /\ ~Link(r)
      BY <1>3, <2>1, <3>5 DEF OfVouchers, VoucherStep, FindHash, FindMonth, StoreBill, FindBill, DropBill,
         FindVoucherChild, InsertVoucher, WhoseVoucher, FindVoucher, DropVoucher, Stored, Spent
    <3> QED  BY <3>2, <3>3, <3>4, <3>5
  <2>2. CASE ~OfVouchers(r)
    <3>1. pc[r] \notin {"knownVouchers", "discover", "link", "done"}
      <4>1. CASE Send(r)
        BY <4>1 DEF Send, Submit
      <4>2. CASE ~Send(r)
        <5>1. q[r].kind \notin VoucherKinds
          BY <1>1, <2>2, <4>2, StepKind DEF StepOf, SuperKinds, UserKinds, MemberKinds, PersonKinds, AttendanceKinds, VoucherKinds
        <5>2. pc[r] \notin {"idle", "done"} /\ Fits(q[r].kind, pc[r])
          BY <1>1, <1>3, <4>2, AnswersOrGoes DEF Advances, Kinds
        <5> QED  BY <5>1, <5>2 DEF Fits, VoucherKinds, UserKinds
      <4> QED  BY <4>1, <4>2
    <3> QED  BY <1>3, <3>1 DEF Stored, Spent
  <2> QED  BY <2>1, <2>2
<1> QED  BY <1>2, <1>3

\* A voucher or a bill that is new was inserted by a request that has not inserted it before.
LEMMA SourcesGrow ==
    ASSUME Base, NEW r \in Reqs, StepOf(r)
    PROVE  /\ \A n \in Numbers : ~Free(n)' =>
                \/ ~Free(n) /\ vouchers'[n].by = vouchers[n].by
                \/ Free(n) /\ vouchers'[n].by = r /\ ~Spent(r, n) /\ Spent(r, n)'
           /\ \A b \in bills' : b \in bills \/ (b.by = r /\ ~Stored(r) /\ Stored(r)')
<1>1. Requesting /\ LocalsKnown /\ VoucherLocals(r) /\ VoucherTables /\ Kinds(r)
  BY DEF Base, Requesting
<1>2. CASE OfVouchers(r)
  <2>1. UNCHANGED q
    BY <1>2 DEF OfVouchers
  <2>2. CASE StoreBill(r)
    BY <1>1, <2>1, <2>2 DEF StoreBill, VoucherReply, voucherTables, Goto, Stored, Free, LocalsKnown
  <2>3. CASE Link(r)
    <3> DEFINE d == discovery[r]
    <3>0. PICK n : n = Rows(r)[d.row].number
      OBVIOUS
    <3>1. /\ pc[r] = "link" /\ pc'[r] = "discover" /\ UNCHANGED <<bills, discovery>>
          /\ vouchers' = vouchers \/ (Free(n) /\ vouchers' = [vouchers EXCEPT ![n] = [child |-> d.child, by |-> r]])
      BY <1>1, <2>3, <3>0 DEF Link, Goto, LocalsKnown
    <3>2. d.row \in DOMAIN Rows(r) \ d.left /\ d.left \subseteq DOMAIN Rows(r)
      BY <1>1, <3>1 DEF VoucherLocals
    <3>3. q[r].file \in Files
      BY <1>1, <3>1, Bodies DEF VoucherRequests
    <3>4. \A i \in d.left : Rows(r)[i].number # n
      BY <3>0, <3>2, <3>3, FilesAssumption DEF Rows
    <3>5. ~Spent(r, n) /\ Spent(r, n)'
      BY <2>1, <3>0, <3>1, <3>4 DEF Spent, Rows
    <3> HIDE DEF d
    <3> QED  BY <1>1, <3>1, <3>5 DEF VoucherTables, Free
  <2>4. CASE InsertVoucher(r)
    <3>1. CASE UNCHANGED vouchers
      BY <2>4, <3>1 DEF InsertVoucher, Free
    <3>2. CASE ~UNCHANGED vouchers
      <4>1. /\ pc[r] = "insertVoucher" /\ Free(q[r].number) /\ pc'[r] = "done" /\ UNCHANGED bills
            /\ vouchers' = [vouchers EXCEPT ![q[r].number] = [child |-> q[r].person, by |-> r]]
        BY <1>1, <2>4, <3>2 DEF InsertVoucher, Answer, LocalsKnown
      <4> QED  BY <1>1, <4>1 DEF VoucherTables, Free, Spent
    <3> QED  BY <3>1, <3>2
  <2>5. CASE DropVoucher(r) \/ DropBill(r)
    BY <1>1, <2>5 DEF DropVoucher, DropBill, VoucherReply, voucherTables, VoucherTables, Free
  <2>6. CASE UNCHANGED voucherTables
    BY <2>6 DEF voucherTables, Free
  <2> QED
    BY <1>2, <2>2, <2>3, <2>4, <2>5, <2>6 DEF OfVouchers, VoucherStep, FindHash, FindMonth, KnownVouchers, MatchRow,
       FindBill, FindVoucherChild, WhoseVoucher, FindVoucher, VoucherReply, VoucherGoto
<1>3. CASE OfPersons(r)
  <2>1. /\ vouchers' = [n \in Numbers |-> IF ~Free(n) /\ persons'[vouchers[n].child] = NoRow
                                          THEN NoRow ELSE vouchers[n]]
        /\ UNCHANGED bills
    BY <1>3 DEF OfPersons, Cascade
  <2> QED  BY <2>1 DEF Free
<1>4. CASE ~OfVouchers(r) /\ ~OfPersons(r)
  BY <1>4 DEF StepOf, Send, OfMembers, OfAttendance, OfTrail, recordVars, voucherVars, voucherTables, Free
<1> QED  BY <1>2, <1>3, <1>4

\* A request that is newly answered took a step of its kind.
LEMMA NewAnswer ==
    ASSUME Base, NEW r \in Reqs, StepOf(r), NEW s \in Reqs, resp'[s] = "ok", resp[s] # "ok"
    PROVE  /\ s = r /\ ~Send(r) /\ q'[r] = q[r] /\ prior'[r] = prior[r] /\ pc'[r] = "done" /\ q[r] \in Request
           /\ Fits(q[r].kind, pc[r]) /\ pc[r] \notin {"idle", "done"}
           /\ q[r].kind \in SuperKinds \cup UserKinds \cup MemberKinds \cup {"updateOrg"} => OfMembers(r)
           /\ q[r].kind \in PersonKinds => OfPersons(r)
           /\ q[r].kind \in AttendanceKinds => OfAttendance(r)
           /\ q[r].kind \in VoucherKinds => OfVouchers(r)
<1>1. Requesting /\ Requesting' /\ LocalsKnown /\ Moves(r) /\ Kinds(r)
  BY StepMoves, StepKinds DEF Base, Requesting
<1>2. s = r
  BY <1>1 DEF Moves
<1>3. ~Send(r)
  BY <1>1, <1>2, SendFits
<1>4. pc[r] \notin {"idle", "done"} /\ q'[r] = q[r] /\ prior'[r] = prior[r] /\ pc'[r] = "done"
  BY <1>1, <1>2, <1>3, AnswersOrGoes, StepMoves DEF Advances
<1>5. q[r] \in Request /\ Fits(q[r].kind, pc[r])
  BY <1>1, <1>4 DEF Kinds
<1>6. OfMembers(r) \/ OfPersons(r) \/ OfAttendance(r) \/ OfVouchers(r) \/ OfTrail(r)
  BY <1>3 DEF StepOf
<1> QED
  BY <1>1, <1>2, <1>3, <1>4, <1>5, <1>6, StepKind DEF SuperKinds, UserKinds, MemberKinds, PersonKinds, AttendanceKinds,
     VoucherKinds

\* Every statement of every request keeps it.
LEMMA SourcesStep ==
    ASSUME Base, Sources, NEW r \in Reqs, StepOf(r)
    PROVE  Sources'
<1>1. Requesting /\ Requesting' /\ LocalsKnown /\ Moves(r) /\ VoucherTables /\ \A s \in Reqs : Kinds(s) /\ Kinds(s)'
  BY StepMoves, StepKinds DEF Base, Requesting
<1>2. \A s \in Reqs : (Stored(s) => Stored(s)') /\ \A n \in Numbers : Spent(s, n) => Spent(s, n)'
  BY SpentStays
<1>3. ASSUME NEW n \in Numbers, ~Free(n)', vouchers'[n].by \in Reqs PROVE Spent(vouchers[n].by, n)'
  <2>1. \/ ~Free(n) /\ vouchers'[n].by = vouchers[n].by
        \/ vouchers'[n].by = r /\ Spent(r, n)'
    BY <1>3, SourcesGrow
  <2>2. CASE ~Free(n) /\ vouchers'[n].by = vouchers[n].by
    <3>1. PICK s \in Reqs : s = vouchers[n].by /\ Spent(s, n)
      BY <1>3, <2>2 DEF Sources
    <3>2. Spent(s, n)'
      BY <1>2, <3>1
    <3> QED  BY <2>2, <3>1, <3>2 DEF Spent, Rows
  <2>3. CASE vouchers'[n].by = r /\ Spent(r, n)'
    BY <2>3 DEF Spent, Rows
  <2> QED  BY <2>1, <2>2, <2>3
<1>4. ASSUME NEW b \in bills', b.by \in Reqs PROVE Stored(b.by)'
  BY <1>2, <1>4, SourcesGrow DEF Sources
<1>5. ASSUME NEW s \in Reqs, resp'[s] = "ok", q'[s].kind = "removeVoucher", q'[s].row \in Reqs
      PROVE  Spent(q[s].row, q[s].number)'
  <2>1. PICK t \in Reqs, n \in Numbers : t = q'[s].row /\ n = q'[s].number
    <3>1. q'[s] \in VoucherRequests
      BY <1>1, <1>5, KindSets DEF Kinds, VoucherKinds
    <3> QED  BY <1>5, <3>1 DEF VoucherRequests
  <2>2. CASE resp[s] = "ok"
    <3>1. q'[s] = q[s]
      BY <1>1, <2>2, StepMoves DEF Moves, Kinds
    <3>2. Spent(t, n)
      BY <1>5, <2>1, <2>2, <3>1 DEF Sources
    <3>3. Spent(t, n)'
      BY <1>2, <3>2
    <3> QED  BY <2>1, <3>3 DEF Spent, Rows
  <2>3. CASE resp[s] # "ok"
    <3>1. s = r /\ OfVouchers(r) /\ q'[r] = q[r] /\ pc[r] \in {"removeVoucher", "findVoucher", "dropVoucher"}
      BY <1>5, <2>3, NewAnswer DEF Fits, UserKinds, VoucherKinds
    <3>2. /\ ~Free(n) /\ vouchers[n].by = t
      BY <1>1, <1>5, <2>1, <2>3, <3>1 DEF OfVouchers, VoucherStep, FindHash, FindMonth, StoreBill, KnownVouchers,
         MatchRow, Link, FindBill, DropBill, FindVoucherChild, InsertVoucher, WhoseVoucher, FindVoucher, DropVoucher,
         VoucherReply, VoucherGoto, Answer, Goto, LocalsKnown, TheVoucher
    <3>3. Spent(t, n)'
      BY <1>2, <3>2 DEF Sources
    <3> QED  BY <2>1, <3>3 DEF Spent, Rows
  <2> QED  BY <2>2, <2>3
<1>6. ASSUME NEW s \in Reqs, q'[s].kind = "deleteBill", resp'[s] = "ok" \/ pc'[s] = "dropBill", q'[s].row \in Reqs
      PROVE  Stored(q[s].row)'
  <2>1. PICK t \in Reqs : t = q'[s].row
    BY <1>6
  <2>2. CASE (resp[s] = "ok" \/ pc[s] = "dropBill") /\ q'[s] = q[s]
    BY <1>2, <1>6, <2>1, <2>2 DEF Sources, Stored
  <2>3. CASE ~((resp[s] = "ok" \/ pc[s] = "dropBill") /\ q'[s] = q[s])
    <3>1. s = r
      BY <1>1, <1>6, <2>3 DEF Moves
    <3>2. pc[r] # "idle" /\ q'[r] = q[r] /\ pc[r] # "done"
      BY <1>1, <1>6, <3>1, SendFits, AnswersOrGoes, StepMoves DEF Kinds, Advances, FirstStage, Fits
    <3>3. OfVouchers(r) /\ pc[r] = "deleteBill"
      BY <1>1, <1>6, <2>3, <3>1, <3>2, StepKind DEF StepOf, Send, Submit, SuperKinds, UserKinds, MemberKinds, PersonKinds,
         AttendanceKinds, Kinds, Fits
    <3>4. [file |-> q[r].file, by |-> t] \in bills
      BY <1>1, <1>6, <2>1, <3>1, <3>2, <3>3 DEF OfVouchers, VoucherStep, FindHash, FindMonth, StoreBill, KnownVouchers,
         MatchRow, Link, FindBill, DropBill, FindVoucherChild, InsertVoucher, WhoseVoucher, FindVoucher, DropVoucher,
         VoucherReply, VoucherGoto, Answer, Goto, LocalsKnown, Kinds
    <3>5. Stored(t)'
      BY <1>2, <3>4 DEF Sources
    <3> QED  BY <2>1, <3>5 DEF Stored
  <2> QED  BY <2>2, <2>3
<1> QED  BY <1>3, <1>4, <1>5, <1>6 DEF Sources

\* What a request that is promised something has, and who excuses it.
LEMMA Excuses ==
    ASSUME Base, NEW s \in Reqs, StepOf(s), NEW r \in Reqs, Promised(r), r # s
    PROVE  /\ q'[r] = q[r] /\ prior'[r] = prior[r] /\ resp'[r] = resp[r] /\ pc'[r] = pc[r] /\ q[r] \in Request
           /\ Excused(r) => Excused(r)'
           /\ pc[s] # "idle" /\ q[s].kind \in Opposites(q[r].kind) => Excused(r)'
           /\ pc[s] # "idle" /\ q[s].kind \in Savers(q[r].kind) /\ r \notin prior[s] => Excused(r)'
<1>1. Requesting /\ Moves(s) /\ Kinds(r) /\ Kinds(s)
  BY StepMoves DEF Base, Requesting
<1>2. pc[s] # "done" /\ (pc[s] # "idle" => q'[s] = q[s] /\ prior'[s] = prior[s])
  BY <1>1, StepMoves, AnswersOrGoes DEF Advances, Requesting, Send, Submit
<1>3. pc[r] # "idle" /\ q[r] \in Request /\ s \notin prior[r]
  BY <1>1, <1>2 DEF Promised, Kinds
<1>4. q'[r] = q[r] /\ prior'[r] = prior[r] /\ resp'[r] = resp[r] /\ pc'[r] = pc[r]
  BY <1>1 DEF Moves
<1>5. pc[s] # "idle" => q[s] # NoRequest
  BY <1>1, RequestSentinel DEF Kinds
<1>6. ASSUME Excused(r) PROVE Excused(r)'
  <2>1. PICK t \in Reqs \ {r} : /\ t \notin prior[r] /\ Sent(t)
                                /\ \/ q[t].kind \in Opposites(q[r].kind)
                                   \/ q[t].kind \in Savers(q[r].kind) /\ r \notin prior[t]
    BY <1>6 DEF Excused
  <2>2. pc[t] # "idle" /\ q'[t] = q[t] /\ prior'[t] = prior[t]
    BY <1>1, <1>2, <2>1 DEF Requesting, Kinds, Sent, Moves
  <2> QED  BY <1>4, <2>1, <2>2 DEF Excused, Sent
<1> QED  BY <1>2, <1>3, <1>4, <1>5, <1>6 DEF Excused, Sent

\* The step of s neither asks for the opposite of what r was answered nor saves stale rows.
Harmless(s, r) ==
    /\ pc[s] # "idle"
    /\ q[s].kind \notin Opposites(q[r].kind)
    /\ q[s].kind \in Savers(q[r].kind) => ~Stale(s, r)

\* Only the deletion of a person takes a person away.
LEMMA PersonsStay ==
    ASSUME Base, NEW s \in Reqs, OfPersons(s), ~DeletePerson(s)
    PROVE  \A p \in PersonId : persons[p] # NoRow => persons'[p] # NoRow
<1>1. PersonTables /\ Kinds(s)
  BY DEF Base, Requesting
<1>2. \/ UNCHANGED persons
      \/ CreatePerson(s) /\ persons' = [persons EXCEPT ![nextPerson] = q[s].who] /\ nextPerson \in PersonId
      \/ pc[s] = "savePerson" /\ persons' = [persons EXCEPT ![q[s].person] = q[s].who]
      \/ pc[s] = "importCommit" /\ persons' = [persons EXCEPT ![Imported(s)] = q[s].who] /\ Imported(s) \in PersonId
  BY DEF OfPersons, PersonStep, CreatePerson, LoadPerson, SavePerson, DeletePerson, CheckContract, InsertContract,
     DeleteContract, MatchPerson, ClearContracts, CheckImport, CommitImport, PersonReply, PersonGoto, personTables
<1>3. pc[s] \in {"createPerson", "savePerson", "importCommit"} => q[s].who \in Names /\ q[s].person \in PersonId
  BY <1>1, Bodies
<1> QED  BY <1>1, <1>2, <1>3, PersonSentinels DEF CreatePerson, PersonTables

\* Writes of persons keep what other requests were answered.
LEMMA PersonsHold ==
    ASSUME Base, NEW s \in Reqs, OfPersons(s), NEW r \in Reqs \ {s}, Promised(r), Holds(r),
           Retired(r), Harmless(s, r)
    PROVE  Holds(r)'
<1> DEFINE k == q[r]
<1>1. /\ Requesting /\ PersonTables /\ AttendanceTables /\ VoucherTables /\ VouchersConsistent /\ PersonLocals(s)
      /\ Kinds(s) /\ StepOf(s)
  BY DEF Base, Requesting, RecordsConsistent, StepOf
<1>2. q'[r] = k /\ k \in Request
  BY <1>1, Excuses
<1>3. /\ UNCHANGED <<bills, users, orgs, members>>
      /\ records' = [a \in RecordId |-> IF records[a] # NoRow /\ persons'[records[a].child] = NoRow
                                        THEN NoRow ELSE records[a]]
      /\ vouchers' = [n \in Numbers |-> IF ~Free(n) /\ persons'[vouchers[n].child] = NoRow
                                        THEN NoRow ELSE vouchers[n]]
  BY DEF OfPersons, Cascade, memberVars, memberTables
<1>4. k.kind \in PersonKinds => k.person \in PersonId /\ k.contract \in ContractId
  BY <1>2, KindSets DEF PersonRequests
<1>5. k.kind \in AttendanceKinds => k.record \in RecordId
  BY <1>2, KindSets DEF AttendanceRequests
<1>6. k.kind \in VoucherKinds => k.number \in Numbers
  BY <1>2, KindSets DEF VoucherRequests
<1>7. \A p \in PersonId : p \in Nat /\ p # NoRow
  BY PersonSentinels DEF PersonId
<1>8. CASE k.kind = "deletePerson"
  <2>1. persons[k.person] = NoRow /\ k.person < nextPerson /\ k.person \in PersonId
    BY <1>4, <1>8 DEF Holds, Retired, PersonKinds
  <2>2. q[s].kind \in {"updatePerson", "import"} => ~Stale(s, r)
    BY <1>8 DEF Harmless, Savers
  <2>3. persons'[k.person] = NoRow
    <3>1. \/ UNCHANGED persons
          \/ persons' = [persons EXCEPT ![nextPerson] = q[s].who]
          \/ pc[s] = "savePerson" /\ persons' = [persons EXCEPT ![q[s].person] = q[s].who]
          \/ persons' = [persons EXCEPT ![q[s].person] = NoRow]
          \/ pc[s] = "importCommit" /\ persons' = [persons EXCEPT ![Imported(s)] = q[s].who]
      BY DEF OfPersons, PersonStep, CreatePerson, LoadPerson, SavePerson, DeletePerson, CheckContract, InsertContract,
         DeleteContract, MatchPerson, ClearContracts, CheckImport, CommitImport, PersonReply, PersonGoto, personTables
    <3>2. pc[s] = "savePerson" => q[s].person # k.person
      BY <1>1, <1>8, <2>2 DEF Stale, Kinds, Fits, UserKinds
    <3>3. pc[s] = "importCommit" => Imported(s) # k.person
      <4>1. pc[s] = "importCommit" => target[s] # k.person
        BY <1>1, <1>8, <2>2 DEF Stale, Kinds, Fits, UserKinds, Importing
      <4> QED  BY <1>1, <1>7, <2>1, <4>1 DEF Imported, PersonTables
    <3> QED  BY <1>1, <1>7, <2>1, <3>1, <3>2, <3>3 DEF PersonTables
  <2> QED  BY <1>2, <1>8, <2>3 DEF Holds
<1>9. CASE k.kind = "deleteContract"
  <2>1. k.contract \in Nat /\ k.contract < nextContract /\ \A c \in contracts : c.id # k.contract
    BY <1>4, <1>9 DEF Holds, Retired, PersonKinds, ContractId
  <2>2. q[s].kind = "updatePerson" => ~Stale(s, r)
    BY <1>9 DEF Harmless, Savers
  <2>3. ASSUME NEW c \in contracts' PROVE c.id # k.contract
    <3>1. CASE c \in contracts
      BY <2>1, <3>1
    <3>2. CASE c.id = nextContract
      BY <1>1, <2>1, <3>2 DEF PersonTables
    <3>3. CASE pc[s] = "savePerson" /\ c \in preloaded[s]
      BY <1>1, <1>9, <2>2, <3>3 DEF Stale, Kinds, Fits, UserKinds
    <3> QED  BY <1>1, <3>1, <3>2, <3>3, ContractsOrigin
  <2> QED  BY <1>2, <1>9, <2>3 DEF Holds
<1>10. CASE k.kind \in {"createContract", "import"}
  <2>1. q[s].kind \notin {"deleteContract", "deletePerson", "import"}
    BY <1>10 DEF Harmless, Opposites
  <2>2. contracts \subseteq contracts'
    BY <1>1, <2>1 DEF OfPersons, PersonStep, CreatePerson, LoadPerson, SavePerson, DeletePerson, CheckContract, InsertContract,
       DeleteContract, MatchPerson, ClearContracts, CheckImport, CommitImport, PersonReply, PersonGoto, personTables,
       Kinds, Fits, UserKinds
  <2> QED  BY <1>2, <1>10, <2>2 DEF Holds
<1>11. CASE k.kind = "deleteAttendance"
  BY <1>1, <1>2, <1>3, <1>5, <1>11 DEF Holds, AttendanceKinds
<1>12. CASE k.kind = "assign"
  <2>1. ~DeletePerson(s)
    BY <1>1, <1>12 DEF Harmless, Opposites, DeletePerson, Kinds, Fits, UserKinds
  <2>2. vouchers'[k.number] = vouchers[k.number]
    <3>1. ~Free(k.number) /\ k.number \in Numbers
      BY <1>6, <1>12 DEF Holds, VoucherKinds
    <3>2. vouchers[k.number].child \in PersonId /\ persons[vouchers[k.number].child] # NoRow
      BY <1>1, <3>1 DEF VoucherTables, VouchersConsistent, Voucher, Found, Free
    <3> QED  BY <1>3, <2>1, <3>1, <3>2, PersonsStay
  <2> QED  BY <1>2, <1>12, <2>2 DEF Holds, Free
<1>13. CASE k.kind = "removeVoucher"
  BY <1>2, <1>3, <1>6, <1>13 DEF Holds, Free, VoucherKinds
<1>14. CASE k.kind \notin {"deletePerson", "deleteContract", "createContract", "import", "deleteAttendance", "assign",
                           "removeVoucher"}
  BY <1>2, <1>3, <1>14 DEF Holds, LiveUser
<1> QED  BY <1>8, <1>9, <1>10, <1>11, <1>12, <1>13, <1>14

\* Writes of attendance keep what other requests were answered.
LEMMA AttendanceHolds ==
    ASSUME Base, NEW s \in Reqs, OfAttendance(s), NEW r \in Reqs \ {s}, Promised(r), Holds(r),
           Retired(r), Harmless(s, r)
    PROVE  Holds(r)'
<1> DEFINE k == q[r]
<1>1. /\ Requesting /\ PersonTables /\ AttendanceTables /\ AttendanceLocals(s) /\ Kinds(s) /\ StepOf(s)
  BY DEF Base, Requesting, StepOf
<1>2. q'[r] = k /\ k \in Request
  BY <1>1, Excuses
<1>3. UNCHANGED <<contracts, vouchers, bills, users, orgs, members>>
  BY DEF OfAttendance, memberVars, memberTables, voucherVars, voucherTables
<1>4. pc[s] = "saveAttendance" => q[s].kind = "updateAttendance"
  BY <1>1 DEF Kinds, Fits, UserKinds
<1>5. CASE k.kind = "deletePerson"
  <2>1. persons[k.person] = NoRow /\ k.person \in PersonId
    BY <1>2, <1>5, KindSets DEF Holds, PersonKinds, PersonRequests
  <2>2. pc[s] = "saveAttendance" => held[s].row.child # k.person
    BY <1>4, <1>5 DEF Harmless, Savers, Stale
  <2>3. \/ UNCHANGED persons
        \/ /\ pc[s] = "saveAttendance"
           /\ persons' = [persons EXCEPT ![held[s].row.child] = IF @ = NoRow THEN held[s].who ELSE @]
    BY DEF OfAttendance, AttendanceStep, FindAttendanceChild, FindDay, InsertAttendance, ReloadAttendance,
       LoadAttendance, SaveAttendance, FindAttendance, RemoveAttendance, AttendanceReply, AttendanceGoto
  <2>4. persons'[k.person] = NoRow
    BY <1>1, <2>1, <2>2, <2>3 DEF PersonTables
  <2> QED  BY <1>2, <1>5, <2>4 DEF Holds
<1>6. CASE k.kind = "deleteAttendance"
  <2>1. records[k.record] = NoRow /\ k.record \in RecordId /\ k.record < nextRecord
    BY <1>2, <1>6, KindSets DEF Holds, Retired, AttendanceKinds, AttendanceRequests
  <2>2. pc[s] = "saveAttendance" => held[s].id # k.record
    BY <1>4, <1>6 DEF Harmless, Savers, Stale
  <2>3. \/ UNCHANGED records
        \/ \E x : records' = [records EXCEPT ![nextRecord] = x]
        \/ pc[s] = "saveAttendance" /\ records' = [records EXCEPT ![held[s].id] = held[s].row]
        \/ records' = [records EXCEPT ![q[s].record] = NoRow]
    BY DEF OfAttendance, AttendanceStep, FindAttendanceChild, FindDay, InsertAttendance, ReloadAttendance,
       LoadAttendance, SaveAttendance, FindAttendance, RemoveAttendance, AttendanceReply, AttendanceGoto, attendanceTables
  <2>4. k.record # nextRecord
    BY <1>1, <2>1 DEF AttendanceTables, RecordId
  <2>5. records'[k.record] = NoRow
    BY <1>1, <2>1, <2>2, <2>3, <2>4 DEF AttendanceTables
  <2> QED  BY <1>2, <1>6, <2>5 DEF Holds
<1>7. CASE k.kind \notin {"deletePerson", "deleteAttendance"}
  BY <1>2, <1>3, <1>7 DEF Holds, LiveUser, Free
<1> QED  BY <1>5, <1>6, <1>7

\* Writes of vouchers and bills keep what other requests were answered.
LEMMA VouchersHold ==
    ASSUME Base, Sources, NEW s \in Reqs, OfVouchers(s), NEW r \in Reqs \ {s}, Promised(r), Holds(r), Harmless(s, r)
    PROVE  Holds(r)'
<1> DEFINE k == q[r]
<1>1. Requesting /\ LocalsKnown /\ VoucherTables /\ Kinds(s) /\ Kinds(r) /\ StepOf(s)
  BY DEF Base, Requesting, StepOf
<1>2. q'[r] = k /\ k \in Request /\ resp'[r] = resp[r] /\ pc'[r] = pc[r]
  BY <1>1, Excuses
<1>3. UNCHANGED <<persons, contracts, records, users, orgs, members>>
  BY DEF OfVouchers, memberVars, memberTables, personVars, personTables, attendanceVars, attendanceTables
<1>4. k.kind \in VoucherKinds => k.number \in Numbers
  BY <1>2, KindSets DEF VoucherRequests
<1>5. CASE k.kind = "assign"
  <2>1. ~DropVoucher(s)
    BY <1>1, <1>5 DEF Harmless, Opposites, DropVoucher, Kinds, Fits, UserKinds
  <2>2. ~Free(k.number) /\ k.number \in Numbers
    BY <1>4, <1>5 DEF Holds, VoucherKinds
  <2>3. UNCHANGED vouchers \/ \E n, x : Free(n) /\ vouchers' = [vouchers EXCEPT ![n] = x]
    BY <2>1 DEF OfVouchers, VoucherStep, FindHash, FindMonth, StoreBill, KnownVouchers, MatchRow, Link, FindBill,
       DropBill, FindVoucherChild, InsertVoucher, WhoseVoucher, FindVoucher, VoucherReply, VoucherGoto, voucherTables
  <2>4. vouchers'[k.number] = vouchers[k.number]
    BY <1>1, <2>2, <2>3 DEF VoucherTables
  <2> QED  BY <1>2, <1>5, <2>4 DEF Holds, Free
<1>6. CASE k.kind = "removeVoucher"
  <2>1. k.number \in Numbers /\ resp[r] = "ok" /\ (Free(k.number) \/ vouchers[k.number].by # k.row)
    BY <1>1, <1>4, <1>6 DEF Holds, VoucherKinds, Promised, Kinds, Fits, UserKinds
  <2>2. k.row \in Reqs => Spent(k.row, k.number)
    BY <1>6, <2>1 DEF Sources
  <2>3. ASSUME ~Free(k.number)', vouchers'[k.number].by = k.row PROVE FALSE
    <3>1. PICK n \in Numbers : n = k.number
      BY <2>1
    <3>2. ~Free(n)'
      BY <1>2, <2>3, <3>1 DEF Free
    <3>3. \/ ~Free(n) /\ vouchers'[n].by = vouchers[n].by
          \/ vouchers'[n].by = s /\ ~Spent(s, n)
      BY <1>1, <3>2, SourcesGrow
    <3> QED  BY <2>1, <2>2, <2>3, <3>1, <3>3
  <2> QED  BY <1>2, <1>6, <2>3 DEF Holds, Free
<1>7. CASE k.kind = "upload"
  <2>1. bills \subseteq bills'
    BY <1>1, <1>7 DEF Harmless, Opposites, OfVouchers, VoucherStep, FindHash, FindMonth, StoreBill, KnownVouchers, MatchRow,
       Link, FindBill, DropBill, FindVoucherChild, InsertVoucher, WhoseVoucher, FindVoucher, DropVoucher, VoucherReply,
       VoucherGoto, voucherTables, Kinds, Fits, UserKinds
  <2> QED  BY <1>2, <1>7, <2>1 DEF Holds
<1>8. CASE k.kind = "deleteBill"
  <2>1. resp[r] = "ok" /\ \A b \in bills : b.file # k.file \/ b.by # k.row
    BY <1>1, <1>8 DEF Holds, Promised, Kinds, Fits, UserKinds
  <2>2. k.row \in Reqs => Stored(k.row)
    BY <1>8, <2>1 DEF Sources
  <2>3. \A b \in bills' : b.file # k.file \/ b.by # k.row
    BY <1>1, <2>1, <2>2, SourcesGrow
  <2> QED  BY <1>2, <1>8, <2>3 DEF Holds
<1>9. CASE k.kind \notin {"assign", "removeVoucher", "upload", "deleteBill"}
  BY <1>2, <1>3, <1>9 DEF Holds, LiveUser
<1> QED  BY <1>5, <1>6, <1>7, <1>8, <1>9

\* Writes of users, organizations and memberships keep what other requests were answered.
LEMMA MembersHold ==
    ASSUME Base, NEW s \in Reqs, OfMembers(s), NEW r \in Reqs \ {s}, Promised(r), Holds(r), Harmless(s, r)
    PROVE  Holds(r)'
<1> DEFINE k == q[r]
<1>1. Requesting /\ LocalsKnown /\ MemberTables /\ MemberLocals(s) /\ Kinds(s) /\ Kinds(r) /\ StepOf(s)
  BY DEF Base, Requesting, StepOf
<1>2. q'[r] = k /\ k \in Request
  BY <1>1, Excuses
<1>3. UNCHANGED <<persons, contracts, records, vouchers, bills>>
  BY DEF OfMembers, personVars, personTables, attendanceVars, attendanceTables, voucherVars, voucherTables
<1>4. k.kind \in SuperKinds \cup UserKinds \cup MemberKinds \cup {"updateOrg"} =>
        k.user \in Users /\ k.org \in Orgs /\ k.role \in Role
  BY <1>2, KindSets DEF MemberRequests
<1>5. /\ q[s].user \in Users /\ q[s].org \in Orgs /\ MemberStep(s)
  BY <1>1, Bodies DEF OfMembers, MemberStep, Authorize, Verify, Load, Count, WriteUser, FindMembership, OrgAccess,
     Exists, AddMember, UpdateRole, RemoveMember, FindOrg, UpdateOrg, DeleteOrg, PurgeOrg, MemberRequests
<1>6. /\ pc[s] = "updateOrg" => q[s].kind = "updateOrg"
      /\ pc[s] = "purgeOrg" => q[s].kind = "purgeOrg"
      /\ pc[s] = "addMember" => q[s].kind = "addMember"
      /\ pc[s] = "setRole" => q[s].kind = "setRole"
      /\ pc[s] = "removeMember" => q[s].kind = "removeMember"
  BY <1>1 DEF Kinds, Fits, UserKinds
<1>7. CASE k.kind \in {"deleteUser", "purgeUser", "setSuper", "setActive"}
  <2>1. k.user \in Users
    BY <1>4, <1>7 DEF SuperKinds, UserKinds
  <2>2. CASE WriteUser(s) /\ q[s].user = k.user
    <3>1. pc[s] = "write" /\ loaded[s] \in User
      BY <1>1, <2>2 DEF WriteUser, MemberLocals
    <3>2. q[s].kind \in {"rename", "setActive"} => ~Stale(s, r)
      BY <1>7 DEF Harmless, Savers
    <3>3. CASE SaveUser(s)
      <4>1. /\ users'[k.user] = Saved(s) /\ k.kind \notin {"deleteUser", "purgeUser"}
            /\ k.kind = "setSuper" => loaded[s].super = k.super
            /\ k.kind = "setActive" => loaded[s].active = k.active
        BY <1>1, <2>1, <2>2, <3>1, <3>2, <3>3 DEF SaveUser, MemberTables, Stale
      <4>2. k.kind = "setActive" => q[s].kind = "rename"
        BY <3>3 DEF SaveUser, Harmless, Opposites
      <4> QED  BY <1>2, <1>7, <3>1, <4>1, <4>2 DEF Holds, Saved, User
    <3>4. CASE SetSuperAdmin(s)
      <4>1. k.kind # "setSuper"
        BY <3>4 DEF SetSuperAdmin, Harmless, Opposites
      <4>2. CASE UNCHANGED users
        BY <1>2, <1>7, <4>2 DEF Holds, LiveUser
      <4>3. CASE ~UNCHANGED users
        <5>1. LiveUser(k.user) /\ users'[k.user] = [users[k.user] EXCEPT !.super = q[s].super]
          BY <1>1, <2>1, <2>2, <3>4, <4>3 DEF SetSuperAdmin, MemberTables
        <5>2. k.kind = "setActive" /\ users[k.user] \in User
          BY <1>1, <1>7, <2>1, <4>1, <5>1 DEF Holds, LiveUser, MemberTables
        <5> QED  BY <1>2, <5>1, <5>2 DEF Holds, LiveUser, User
      <4> QED  BY <4>2, <4>3
    <3>5. CASE DeleteUser(s)
      <4>1. users'[k.user] = IF users[k.user] = NoRow THEN NoRow ELSE [users[k.user] EXCEPT !.deleted = TRUE]
        BY <1>1, <2>1, <2>2, <3>5 DEF DeleteUser, MemberTables
      <4>2. users[k.user] = NoRow \/ users[k.user] \in User
        BY <1>1, <2>1 DEF MemberTables
      <4> QED  BY <1>2, <1>7, <4>1, <4>2 DEF Holds, LiveUser, User
    <3>6. CASE PurgeUser(s)
      <4>1. users'[k.user] = NoRow
        BY <1>1, <2>1, <2>2, <3>6 DEF PurgeUser, MemberTables
      <4> QED  BY <1>2, <1>7, <4>1 DEF Holds, LiveUser
    <3> QED  BY <2>2, <3>3, <3>4, <3>5, <3>6 DEF WriteUser
  <2>3. CASE ~(WriteUser(s) /\ q[s].user = k.user)
    <3>1. users'[k.user] = users[k.user]
      <4>1. CASE WriteUser(s)
        BY <1>1, <1>5, <2>1, <2>3, <4>1 DEF WriteUser, SaveUser, SetSuperAdmin, DeleteUser, PurgeUser, MemberTables
      <4>2. CASE ~WriteUser(s)
        BY <1>5, <4>2 DEF MemberStep, Authorize, Verify, Load, Count, FindMembership, OrgAccess, Exists, AddMember,
           UpdateRole, PutRole, RemoveMember, FindOrg, UpdateOrg, DeleteOrg, PurgeOrg, Refuse, Then, memberTables
      <4> QED  BY <4>1, <4>2
    <3> QED  BY <1>2, <1>7, <3>1 DEF Holds, LiveUser
  <2> QED  BY <2>2, <2>3
<1>8. CASE k.kind \in {"addMember", "setRole", "removeMember"}
  <2>1. k.user \in Users /\ k.org \in Orgs /\ k.role # NoRole
    BY <1>4, <1>8, MemberSentinels DEF MemberKinds
  <2>2. \/ UNCHANGED members
        \/ /\ AddMember(s) /\ members[q[s].user][q[s].org] = NoRole
           /\ members' = [members EXCEPT ![q[s].user][q[s].org] = q[s].role]
        \/ UpdateRole(s)
        \/ RemoveMember(s) /\ members' = [members EXCEPT ![q[s].user][q[s].org] = NoRole]
        \/ /\ q[s].kind = "purgeUser" /\ members' = [members EXCEPT ![q[s].user] = [o \in Orgs |-> NoRole]]
        \/ PurgeOrg(s) /\ members' = [u \in Users |-> [members[u] EXCEPT ![q[s].org] = NoRole]]
    BY <1>5 DEF MemberStep, Authorize, Verify, Load, Count, WriteUser, SaveUser, SetSuperAdmin, DeleteUser, PurgeUser,
       FindMembership, OrgAccess, Exists, AddMember, UpdateRole, PutRole, RemoveMember, FindOrg, UpdateOrg, DeleteOrg,
       PurgeOrg, Refuse, Then, memberTables
  <2>3. CASE k.kind \in {"addMember", "setRole"}
    <3>1. members[k.user][k.org] = k.role /\ q[s].kind \notin {"setRole", "removeMember", "purgeUser", "purgeOrg"}
      BY <2>3 DEF Holds, Harmless, Opposites
    <3>2. members'[k.user][k.org] = k.role
      <4>1. \/ UNCHANGED members
            \/ /\ members[q[s].user][q[s].org] = NoRole
               /\ members' = [members EXCEPT ![q[s].user][q[s].org] = q[s].role]
        BY <1>6, <2>2, <3>1 DEF UpdateRole, RemoveMember, PurgeOrg
      <4> QED  BY <1>1, <1>5, <2>1, <3>1, <4>1 DEF MemberTables
    <3> QED  BY <1>2, <2>3, <3>2 DEF Holds
  <2>4. CASE k.kind = "removeMember"
    <3>1. members[k.user][k.org] = NoRole /\ q[s].kind \notin {"addMember", "setRole"}
      BY <2>4 DEF Holds, Harmless, Opposites
    <3>2. members'[k.user][k.org] = NoRole
      <4>1. \/ UNCHANGED members
            \/ members' = [members EXCEPT ![q[s].user][q[s].org] = NoRole]
            \/ members' = [members EXCEPT ![q[s].user] = [o \in Orgs |-> NoRole]]
            \/ members' = [u \in Users |-> [members[u] EXCEPT ![q[s].org] = NoRole]]
        BY <1>6, <2>2, <3>1 DEF UpdateRole, AddMember
      <4> QED  BY <1>1, <1>5, <2>1, <3>1, <4>1 DEF MemberTables
    <3> QED  BY <1>2, <2>4, <3>2 DEF Holds
  <2> QED  BY <1>8, <2>3, <2>4
<1>9. CASE k.kind \in {"deleteOrg", "purgeOrg"}
  <2>1. k.org \in Orgs /\ orgs[k.org] # "live"
    BY <1>4, <1>9 DEF Holds, SuperKinds
  <2>2. pc[s] = "updateOrg" => q[s].org # k.org
    BY <1>6, <1>9 DEF Harmless, Savers, Stale
  <2>3. \/ UNCHANGED orgs
        \/ pc[s] = "updateOrg" /\ orgs' = [orgs EXCEPT ![q[s].org] = "live"]
        \/ orgs' = [orgs EXCEPT ![q[s].org] = IF @ = "gone" THEN @ ELSE "deleted"]
        \/ orgs' = [orgs EXCEPT ![q[s].org] = "gone"]
    BY <1>5 DEF MemberStep, Authorize, Verify, Load, Count, WriteUser, SaveUser, SetSuperAdmin, DeleteUser, PurgeUser,
       FindMembership, OrgAccess, Exists, AddMember, UpdateRole, PutRole, RemoveMember, FindOrg, UpdateOrg, DeleteOrg,
       PurgeOrg, Refuse, Then, memberTables
  <2>4. orgs'[k.org] # "live"
    BY <1>1, <2>1, <2>2, <2>3 DEF MemberTables
  <2> QED  BY <1>2, <1>9, <2>4 DEF Holds
<1>10. CASE k.kind \notin {"deleteUser", "purgeUser", "setSuper", "setActive", "addMember", "setRole", "removeMember",
                           "deleteOrg", "purgeOrg"}
  BY <1>2, <1>3, <1>10 DEF Holds, Free
<1> QED  BY <1>7, <1>8, <1>9, <1>10

\* What a request loads, or matches, was not yet undone.
LEMMA StaleLoads ==
    ASSUME Base, NEW s \in Reqs, StepOf(s), ~Send(s), NEW r \in Reqs \ {s}, Promised(r),
           Stale(s, r)', ~Stale(s, r)
    PROVE  ~Holds(r)
<1> DEFINE k == q[r]
<1>1. /\ Requesting /\ LocalsKnown /\ PersonTables /\ AttendanceTables /\ AttendanceConsistent /\ MemberTables
      /\ Kinds(s) /\ Kinds(s)' /\ AttendanceLocals(s)
  BY StepKinds DEF Base, Requesting, RecordsConsistent
<1>2. q'[r] = k /\ k \in Request /\ q'[s] = q[s] /\ pc[s] \notin {"idle", "done"}
  BY <1>1, Excuses, AnswersOrGoes, StepMoves DEF Advances
<1>3. Fits(q[s].kind, pc[s]) /\ Fits(q[s].kind, pc'[s])
  BY <1>1, <1>2, StepFits DEF Kinds, Requesting
<1>4. CASE OfPersons(s)
  <2>1. q[s].kind \in PersonKinds
    BY <1>1, <1>4, StepKind
  <2>2. /\ k.kind = "deletePerson" \/ k.kind = "deleteContract"
        /\ k.person \in PersonId
    <3>1. pc'[s] \notin {"saveAttendance", "count", "write", "updateOrg"}
      BY <1>3, <2>1 DEF Fits, PersonKinds, UserKinds
    <3>2. k.kind \in {"deletePerson", "deleteContract"}
      BY <1>2, <3>1 DEF Stale
    <3> QED  BY <1>2, <3>2, KindSets DEF PersonKinds, PersonRequests
  <2>3. \A p \in PersonId : p # NoRow
    BY PersonSentinels DEF PersonId
  <2>4. CASE LoadPerson(s)
    <3>1. /\ Found(q[s].person) /\ pc'[s] = "savePerson" /\ preloaded'[s] = Of(q[s].person)
      BY <1>1, <1>2, <2>4 DEF Stale, Importing, LoadPerson, PersonReply, PersonGoto, Answer, Goto, LocalsKnown
    <3>2. CASE k.kind = "deletePerson"
      BY <1>2, <3>1, <3>2 DEF Stale, Holds, Found, Importing
    <3>3. CASE k.kind = "deleteContract"
      BY <1>2, <3>1, <3>3 DEF Stale, Holds, Of
    <3> QED  BY <2>2, <3>2, <3>3
  <2>5. CASE MatchPerson(s)
    <3>1. pc'[s] \in {"clear", "importCheck"} /\ k.kind = "deletePerson" /\ target'[s] = k.person
      BY <1>1, <1>2, <2>5 DEF Stale, MatchPerson, PersonGoto, Goto, LocalsKnown
    <3>2. k.person \in Matches(q[s].who)
      BY <1>1, <2>2, <2>3, <2>5, <3>1 DEF MatchPerson, First, LocalsKnown
    <3>3. persons[k.person] = q[s].who /\ q[s].who \in Names
      BY <1>1, <2>5, <3>2, Bodies DEF Matches, MatchPerson
    <3> QED  BY <3>1, <3>3, PersonSentinels DEF Holds
  <2>6. CASE ClearContracts(s) \/ CheckImport(s)
    BY <1>1, <1>2, <2>6 DEF Stale, ClearContracts, CheckImport, PersonReply, PersonGoto, Answer, Goto, LocalsKnown, Importing
  <2>7. CASE ~LoadPerson(s) /\ ~MatchPerson(s) /\ ~ClearContracts(s) /\ ~CheckImport(s)
    <3>1. pc'[s] \in {"done", "insertContract"}
      BY <1>1, <1>4, <2>7 DEF OfPersons, PersonStep, CreatePerson, SavePerson, DeletePerson, CheckContract, InsertContract,
         DeleteContract, CommitImport, PersonReply, PersonGoto, Answer, Goto, LocalsKnown
    <3> QED  BY <3>1 DEF Stale, Importing
  <2> QED  BY <2>4, <2>5, <2>6, <2>7
<1>5. CASE OfAttendance(s)
  <2>1. pc'[s] = "saveAttendance"
    <3>1. q[s].kind \in AttendanceKinds
      BY <1>1, <1>5, StepKind
    <3>2. pc'[s] \notin {"savePerson", "clear", "importCheck", "importCommit", "count", "write", "updateOrg"}
      BY <1>3, <3>1 DEF Fits, AttendanceKinds, UserKinds
    <3> QED  BY <3>2 DEF Stale, Importing
  <2>2. LoadAttendance(s)
    BY <1>1, <1>5, <2>1 DEF OfAttendance, AttendanceStep, FindAttendanceChild, FindDay, InsertAttendance,
       ReloadAttendance, SaveAttendance, FindAttendance, RemoveAttendance, AttendanceReply, AttendanceGoto, Answer, Goto,
       LocalsKnown
  <2>3. PICK now \in Clock : /\ Owned(s) /\ held'[s].id = q[s].record
                             /\ held'[s].row = Applied(records[q[s].record], q[s], now)
    BY <1>1, <2>1, <2>2 DEF LoadAttendance, AttendanceReply, AttendanceGoto, Answer, Goto, LocalsKnown
  <2>4. q[s].record \in RecordId /\ records[q[s].record] # NoRow
    BY <1>1, <2>2, <2>3, Bodies DEF LoadAttendance, AttendanceRequests, Owned
  <2>5. records[q[s].record] \in Attendance /\ Found(records[q[s].record].child)
    BY <1>1, <2>4 DEF AttendanceTables, AttendanceConsistent
  <2>6. held'[s].row.child = records[q[s].record].child
    BY <2>3, <2>5 DEF Applied, Attendance
  <2> QED  BY <1>2, <2>1, <2>3, <2>4, <2>5, <2>6 DEF Stale, Holds, Found, Importing
<1>6. CASE OfMembers(s)
  <2>1. pc'[s] \in {"count", "write", "updateOrg"}
    <3>1. q[s].kind \in SuperKinds \cup UserKinds \cup MemberKinds \cup {"updateOrg"}
      BY <1>1, <1>6, StepKind
    <3>2. pc'[s] \notin {"savePerson", "clear", "importCheck", "importCommit", "saveAttendance"}
      BY <1>3, <3>1 DEF Fits, SuperKinds, UserKinds, MemberKinds
    <3> QED  BY <3>2 DEF Stale, Importing
  <2>2. Load(s) \/ Count(s) \/ FindOrg(s)
    BY <1>1, <1>3, <1>6, <2>1 DEF OfMembers, MemberStep, Authorize, Verify, WriteUser, SaveUser,
       SetSuperAdmin, DeleteUser, PurgeUser, FindMembership, OrgAccess, Exists, AddMember, UpdateRole, PutRole,
       RemoveMember, UpdateOrg, DeleteOrg, PurgeOrg, Refuse, Then, Answer, Goto, LocalsKnown, Fits, UserKinds, SuperKinds
  <2>3. CASE Load(s)
    <3>1. /\ users[q[s].user] # NoRow /\ (q[s].kind = "purgeUser" \/ ~users[q[s].user].deleted)
          /\ loaded'[s] = users[q[s].user] /\ pc'[s] \in {"count", "write"}
      BY <1>1, <2>1, <2>3 DEF Load, AfterLoad, Refuse, Then, Answer, Goto, LocalsKnown
    <3> QED  BY <1>2, <3>1 DEF Stale, Holds, LiveUser, Importing
  <2>4. CASE Count(s)
    BY <1>1, <1>2, <2>1, <2>4 DEF Count, Refuse, Then, Answer, Goto, LocalsKnown, Stale, Importing
  <2>5. CASE FindOrg(s)
    <3>1. pc'[s] = "updateOrg" /\ orgs[q[s].org] \notin {"gone", "deleted"} /\ q[s].org \in Orgs
      BY <1>1, <1>3, <2>1, <2>5, Bodies DEF FindOrg, Refuse, Then, Answer, Goto, LocalsKnown, Fits, MemberRequests, UserKinds
    <3>2. orgs[q[s].org] = "live"
      BY <1>1, <3>1 DEF MemberTables
    <3> QED  BY <1>2, <3>1, <3>2 DEF Stale, Holds, Importing
  <2> QED  BY <2>2, <2>3, <2>4, <2>5
<1>7. CASE OfVouchers(s) \/ OfTrail(s)
  <2>1. q[s].kind \in VoucherKinds \cup {"trail"}
    BY <1>1, <1>7, StepKind
  <2> QED  BY <1>3, <2>1 DEF Fits, VoucherKinds, UserKinds, Stale, Importing
<1> QED  BY <1>4, <1>5, <1>6, <1>7 DEF StepOf

\* A request that is answered has done what it was asked.
LEMMA AnswerHolds ==
    ASSUME Base, NEW s \in Reqs, StepOf(s), resp'[s] = "ok", resp[s] # "ok", q[s].kind # "upload"
    PROVE  Holds(s)' /\ Retired(s)'
<1> DEFINE k == q[s]
<1>1. /\ Requesting /\ LocalsKnown /\ PersonTables /\ AttendanceTables /\ MemberTables /\ VoucherTables
      /\ Kinds(s) /\ AttendanceLocals(s) /\ Base'
  BY BaseStep DEF Base, Requesting
<1>2. /\ q'[s] = k /\ k \in Request /\ pc'[s] = "done" /\ Fits(k.kind, pc[s]) /\ pc[s] \notin {"idle", "done"}
      /\ k.kind \in SuperKinds \cup UserKinds \cup MemberKinds \cup {"updateOrg"} => OfMembers(s)
      /\ k.kind \in PersonKinds => OfPersons(s)
      /\ k.kind \in AttendanceKinds => OfAttendance(s)
      /\ k.kind \in VoucherKinds => OfVouchers(s)
  BY NewAnswer
<1>3. /\ k.kind \in PersonKinds => k.person \in PersonId
      /\ k.kind \in AttendanceKinds => k.record \in RecordId
      /\ k.kind \in VoucherKinds => k.number \in Numbers
      /\ k.kind \in SuperKinds \cup UserKinds \cup MemberKinds \cup {"updateOrg"} => k.user \in Users /\ k.org \in Orgs
  BY <1>2, KindSets DEF PersonRequests, AttendanceRequests, VoucherRequests, MemberRequests
<1>4. CASE k.kind \in PersonKinds
  <2>1. OfPersons(s)
    BY <1>2, <1>4
  <2>2. CASE k.kind = "deletePerson"
    <3>1. /\ Found(k.person) /\ persons' = [persons EXCEPT ![k.person] = NoRow] /\ UNCHANGED nextPerson
      BY <1>1, <1>2, <2>1, <2>2 DEF OfPersons, PersonStep, CreatePerson, LoadPerson, SavePerson, DeletePerson,
         CheckContract, InsertContract, DeleteContract, MatchPerson, ClearContracts, CheckImport, CommitImport,
         PersonReply, PersonGoto, Answer, LocalsKnown, Fits, UserKinds
    <3> QED  BY <1>1, <1>2, <1>3, <2>2, <3>1 DEF Holds, Retired, Found, PersonTables, PersonKinds
  <2>3. CASE k.kind = "deleteContract"
    <3>1. /\ {c \in contracts : c.id = k.contract} # {} /\ UNCHANGED nextContract
          /\ contracts' = contracts \ {c \in contracts : c.id = k.contract}
      BY <1>1, <1>2, <2>1, <2>3 DEF OfPersons, PersonStep, CreatePerson, LoadPerson, SavePerson, DeletePerson,
         CheckContract, InsertContract, DeleteContract, MatchPerson, ClearContracts, CheckImport, CommitImport,
         PersonReply, PersonGoto, Answer, LocalsKnown, Fits, UserKinds
    <3> QED  BY <1>1, <1>2, <2>3, <3>1 DEF Holds, Retired, PersonTables
  <2>4. CASE k.kind \in {"createContract", "import"}
    <3>1. \E c \in contracts' : c.by = s
      <4>1. InsertContract(s) \/ CommitImport(s)
        BY <1>1, <1>2, <2>1, <2>4 DEF OfPersons, PersonStep, CreatePerson, LoadPerson, SavePerson, DeletePerson,
           CheckContract, InsertContract, DeleteContract, MatchPerson, ClearContracts, CheckImport, CommitImport,
           PersonReply, PersonGoto, Answer, Goto, LocalsKnown, Fits, UserKinds
      <4>2. \E p : New(s, p) \in contracts'
        BY <1>1, <4>1 DEF InsertContract, CommitImport, PersonReply, Answer, LocalsKnown
      <4> QED  BY <4>2 DEF New
    <3> QED  BY <1>2, <2>4, <3>1 DEF Holds, Retired
  <2>5. CASE k.kind \in {"createPerson", "updatePerson"}
    BY <1>2, <2>5 DEF Holds, Retired
  <2> QED  BY <1>4, <2>2, <2>3, <2>4, <2>5 DEF PersonKinds
<1>5. CASE k.kind \in AttendanceKinds
  <2>1. CASE k.kind = "deleteAttendance"
    <3>1. pc[s] = "removeAttendance" /\ records' = [records EXCEPT ![k.record] = NoRow] /\ UNCHANGED nextRecord
      BY <1>1, <1>2, <1>5, <2>1 DEF OfAttendance, AttendanceStep, FindAttendanceChild, FindDay, InsertAttendance,
         ReloadAttendance, LoadAttendance, SaveAttendance, FindAttendance, RemoveAttendance, AttendanceReply,
         AttendanceGoto, Answer, Goto, LocalsKnown, Fits, UserKinds
    <3> QED  BY <1>1, <1>2, <1>3, <1>5, <2>1, <3>1 DEF Holds, Retired, AttendanceTables, AttendanceLocals
  <2>2. CASE k.kind # "deleteAttendance"
    BY <1>2, <1>5, <2>2 DEF Holds, Retired, AttendanceKinds
  <2> QED  BY <2>1, <2>2
<1>6. CASE k.kind \in VoucherKinds
  <2>1. k.number \in Numbers /\ OfVouchers(s)
    BY <1>2, <1>3, <1>6
  <2>2. CASE k.kind = "assign"
    <3>1. InsertVoucher(s) \/ WhoseVoucher(s)
      BY <1>1, <1>2, <2>1, <2>2 DEF OfVouchers, VoucherStep, FindHash, FindMonth, StoreBill, KnownVouchers, MatchRow, Link,
         FindBill, DropBill, FindVoucherChild, InsertVoucher, WhoseVoucher, FindVoucher, DropVoucher, VoucherReply,
         VoucherGoto, Answer, Goto, LocalsKnown, Fits, UserKinds
    <3>2. \/ vouchers' = [vouchers EXCEPT ![k.number] = [child |-> k.person, by |-> s]]
          \/ UNCHANGED vouchers /\ ~Free(k.number) /\ vouchers[k.number].child = k.person
      BY <1>1, <3>1 DEF InsertVoucher, WhoseVoucher, VoucherReply, voucherTables, Answer, Goto, LocalsKnown
    <3>3. k.person \in PersonId
      BY <1>2, <2>2, KindSets DEF VoucherKinds, VoucherRequests
    <3>4. vouchers'[k.number] # NoRow /\ vouchers'[k.number].child = k.person
      BY <1>1, <2>1, <3>2, <3>3, VoucherSentinel DEF VoucherTables, Voucher, Free
    <3> QED  BY <1>2, <2>2, <3>4 DEF Holds, Retired, Free
  <2>3. CASE k.kind = "removeVoucher"
    <3>1. vouchers' = [vouchers EXCEPT ![k.number] = NoRow]
      BY <1>1, <1>2, <2>1, <2>3 DEF OfVouchers, VoucherStep, FindHash, FindMonth, StoreBill, KnownVouchers, MatchRow, Link,
         FindBill, DropBill, FindVoucherChild, InsertVoucher, WhoseVoucher, FindVoucher, DropVoucher, VoucherReply,
         VoucherGoto, Answer, Goto, LocalsKnown, Fits, UserKinds
    <3> QED  BY <1>1, <1>2, <2>1, <2>3, <3>1 DEF Holds, Retired, Free, VoucherTables
  <2>4. CASE k.kind = "deleteBill"
    <3>1. bills' = bills \ {[file |-> k.file, by |-> k.row]}
      BY <1>1, <1>2, <2>1, <2>4 DEF OfVouchers, VoucherStep, FindHash, FindMonth, StoreBill, KnownVouchers, MatchRow, Link,
         FindBill, DropBill, FindVoucherChild, InsertVoucher, WhoseVoucher, FindVoucher, DropVoucher, VoucherReply,
         VoucherGoto, Answer, Goto, LocalsKnown, Fits, UserKinds
    <3>2. \A b \in bills : b = [file |-> b.file, by |-> b.by]
      BY <1>1 DEF VoucherTables, Bill
    <3> QED  BY <1>2, <2>4, <3>1, <3>2 DEF Holds, Retired
  <2> QED  BY <1>6, <2>2, <2>3, <2>4 DEF VoucherKinds
<1>7. CASE k.kind \in SuperKinds \cup UserKinds \cup MemberKinds \cup {"updateOrg"}
  <2>1. k.user \in Users /\ k.org \in Orgs /\ OfMembers(s) /\ MemberTables'
    BY <1>1, <1>2, <1>3, <1>7 DEF Base
  <2>2. Retired(s)'
    BY <1>2, <1>7 DEF Retired, SuperKinds, UserKinds, MemberKinds
  <2>3. \/ WriteUser(s) /\ k.kind \in {"setSuper", "purgeUser"} \cup UserKinds
        \/ k.kind \in {"addMember", "setRole"} /\ PutRole(s)
        \/ RemoveMember(s) /\ k.kind = "removeMember"
        \/ UpdateOrg(s) /\ k.kind = "updateOrg"
        \/ DeleteOrg(s) /\ k.kind = "deleteOrg"
        \/ PurgeOrg(s) /\ k.kind = "purgeOrg"
    BY <1>1, <1>2, <2>1 DEF OfMembers, MemberStep, Authorize, Verify, Load, Count, WriteUser,
       FindMembership, OrgAccess, Exists, AddMember, UpdateRole,
       RemoveMember, FindOrg, UpdateOrg, DeleteOrg, PurgeOrg, Refuse, Then, Answer, Goto, LocalsKnown, Fits, UserKinds, SuperKinds
  <2>4. CASE WriteUser(s) /\ k.kind \in {"setSuper", "purgeUser"} \cup UserKinds
    <3>1. users[k.user] = NoRow \/ users[k.user] \in User
      BY <1>1, <2>1 DEF MemberTables
    <3>2. CASE SaveUser(s)
      <4>1. users'[k.user] = Saved(s) /\ loaded[s] \in User
        BY <1>1, <2>1, <2>4, <3>2 DEF SaveUser, MemberTables, WriteUser, Base, MemberLocals
      <4> QED  BY <1>2, <2>2, <3>2, <4>1 DEF Holds, Saved, SaveUser, User
    <3>3. CASE SetSuperAdmin(s)
      <4>1. LiveUser(k.user) /\ users'[k.user] = [users[k.user] EXCEPT !.super = k.super]
        BY <1>1, <2>1, <3>3 DEF SetSuperAdmin, MemberTables, Answer, LocalsKnown
      <4> QED  BY <1>2, <2>2, <3>1, <3>3, <4>1 DEF Holds, LiveUser, SetSuperAdmin, User
    <3>4. CASE DeleteUser(s)
      <4>1. users'[k.user] = IF users[k.user] = NoRow THEN NoRow ELSE [users[k.user] EXCEPT !.deleted = TRUE]
        BY <1>1, <2>1, <3>4 DEF DeleteUser, MemberTables
      <4> QED  BY <1>2, <2>2, <3>1, <3>4, <4>1 DEF Holds, LiveUser, DeleteUser, User
    <3>5. CASE PurgeUser(s)
      <4>1. users'[k.user] = NoRow
        BY <1>1, <2>1, <3>5 DEF PurgeUser, MemberTables
      <4> QED  BY <1>2, <2>2, <3>5, <4>1 DEF Holds, PurgeUser
    <3> QED  BY <2>2, <2>4, <3>2, <3>3, <3>4, <3>5 DEF WriteUser
  <2>5. CASE k.kind \in {"addMember", "setRole"} /\ PutRole(s)
    <3>1. members'[k.user][k.org] = k.role
      BY <1>1, <2>1, <2>5 DEF PutRole, MemberTables
    <3> QED  BY <1>2, <2>2, <2>5, <3>1 DEF Holds
  <2>6. CASE RemoveMember(s) /\ k.kind = "removeMember"
    <3>1. members'[k.user][k.org] = NoRole
      BY <1>1, <2>1, <2>6 DEF RemoveMember, MemberTables
    <3> QED  BY <1>2, <2>2, <2>6, <3>1 DEF Holds
  <2>7. CASE UpdateOrg(s) /\ k.kind = "updateOrg"
    BY <1>2, <2>2, <2>7 DEF Holds
  <2>8. CASE DeleteOrg(s) /\ k.kind = "deleteOrg"
    <3>1. orgs'[k.org] # "live"
      BY <1>1, <2>1, <2>8 DEF DeleteOrg, MemberTables
    <3> QED  BY <1>2, <2>2, <2>8, <3>1 DEF Holds
  <2>9. CASE PurgeOrg(s) /\ k.kind = "purgeOrg"
    <3>1. orgs'[k.org] # "live"
      BY <1>1, <2>1, <2>9 DEF PurgeOrg, MemberTables
    <3> QED  BY <1>2, <2>2, <2>9, <3>1 DEF Holds
  <2> QED  BY <2>3, <2>4, <2>5, <2>6, <2>7, <2>8, <2>9
<1>8. CASE k.kind = "trail"
  BY <1>2, <1>8 DEF Holds, Retired
<1> QED  BY <1>2, <1>4, <1>5, <1>6, <1>7, <1>8 DEF Request, MemberRequests, PersonRequests, AttendanceRequests,
            VoucherRequests, TrailRequests

\* From when its bill is stored, an upload has one or somebody deletes bills.
LEMMA UploadHolds ==
    ASSUME Base, Answers, NEW s \in Reqs, StepOf(s), ~Send(s), q[s].kind = "upload", Promised(s)'
    PROVE  Holds(s)' \/ Excused(s)'
<1>1. /\ Requesting /\ LocalsKnown /\ Moves(s) /\ Kinds(s) /\ pc[s] \notin {"idle", "done"}
      /\ q'[s] = q[s] /\ prior'[s] = prior[s]
  BY StepMoves, AnswersOrGoes DEF Base, Requesting, Advances
<1>2. OfVouchers(s) /\ q[s] \in Request
  BY <1>1, StepKind DEF StepOf, Kinds, SuperKinds, UserKinds, MemberKinds, PersonKinds, AttendanceKinds
<1>3. CASE StoreBill(s)
  <2>1. ~SameMonth(s)
    BY <1>1, <1>3 DEF StoreBill, VoucherReply, Answer, LocalsKnown, Promised
  <2>2. [file |-> q[s].file, by |-> s] \in bills'
    BY <1>3, <2>1 DEF StoreBill
  <2> QED  BY <1>1, <2>2 DEF Holds
<1>4. CASE ~StoreBill(s)
  <2>1. pc[s] \in {"knownVouchers", "discover", "link"} /\ UNCHANGED bills
    BY <1>1, <1>2, <1>4 DEF Kinds, Fits, UserKinds, OfVouchers, VoucherStep, FindHash, FindMonth, KnownVouchers,
       MatchRow, Link, FindBill, DropBill, FindVoucherChild, InsertVoucher, WhoseVoucher, FindVoucher, DropVoucher,
       VoucherReply, VoucherGoto, voucherTables, Answer, Goto, LocalsKnown, Promised
  <2>2. Holds(s) \/ Excused(s)
    BY <2>1 DEF Answers, Promised
  <2>3. CASE Holds(s)
    BY <1>1, <2>1, <2>3 DEF Holds
  <2>4. CASE Excused(s)
    <3>1. \A t \in Reqs \ {s} : q'[t] = q[t] /\ prior'[t] = prior[t]
      BY <1>1 DEF Moves
    <3> QED  BY <1>1, <2>4, <3>1 DEF Excused, Sent
  <2> QED  BY <2>2, <2>3, <2>4
<1> QED  BY <1>3, <1>4

\* What a request was promised outlives the steps of others, or they excuse it.
LEMMA OthersHold ==
    ASSUME Base, Sources, Answers, NEW s \in Reqs, StepOf(s), NEW r \in Reqs \ {s}, Promised(r)
    PROVE  Holds(r)' \/ Excused(r)'
<1>1. /\ Requesting /\ Kinds(s) /\ Kinds(r)
      /\ q'[r] = q[r] /\ q[r] \in Request
  BY Excuses DEF Base, Requesting
<1>2. CASE Excused(r)
  BY <1>2, Excuses
<1>3. CASE Send(s) \/ OfTrail(s)
  <2>1. UNCHANGED recordVars
    BY <1>3 DEF Send, OfTrail
  <2>2. Holds(r) => Holds(r)'
    BY <1>1, <2>1 DEF recordVars, memberVars, memberTables, personVars, personTables, attendanceVars, attendanceTables,
       voucherVars, voucherTables, Holds, Free, LiveUser
  <2> QED  BY <1>2, <2>2 DEF Answers
<1>4. CASE ~Excused(r)' /\ ~Excused(r) /\ ~Send(s) /\ ~OfTrail(s)
  <2>1. pc[s] # "idle" /\ Holds(r)
    BY <1>1, <1>4, AnswersOrGoes DEF Answers, Advances
  <2>2. q[s].kind \notin Opposites(q[r].kind) /\ (q[s].kind \in Savers(q[r].kind) => r \in prior[s])
    BY <1>4, <2>1, Excuses
  <2>3. r \in prior[s] => ~Stale(s, r)
    <3>1. r \in prior[s] => resp[r] = "ok"
      BY <1>1 DEF Kinds, Promised
    <3> QED  BY <1>4, <3>1 DEF Answers
  <2>4. Harmless(s, r)
    BY <2>1, <2>2, <2>3 DEF Harmless
  <2>5. Retired(r)
    <3>1. CASE resp[r] = "ok"
      BY <3>1 DEF Answers
    <3>2. CASE resp[r] # "ok"
      <4>1. q[r].kind = "upload"
        BY <1>1, <3>2 DEF Promised, Kinds, Fits, UserKinds
      <4> QED  BY <4>1 DEF Retired
    <3> QED  BY <3>1, <3>2
  <2> QED  BY <1>4, <2>1, <2>4, <2>5, PersonsHold, AttendanceHolds, VouchersHold, MembersHold DEF StepOf
<1> QED  BY <1>2, <1>3, <1>4

\* What a request loaded before it was sent to undo an answer, somebody had undone already.
LEMMA StaleExcused ==
    ASSUME Base, Sources, Answers, NEW s \in Reqs, StepOf(s), NEW r \in Reqs, NEW t \in Reqs,
           resp'[r] = "ok", r \in prior'[t], Stale(t, r)'
    PROVE  Excused(r)'
<1>1. /\ Requesting /\ LocalsKnown /\ Moves(s) /\ Kinds(s) /\ Kinds(r) /\ Kinds(t) /\ LocalsKnown'
      /\ pc[s] # "done" /\ (pc[s] # "idle" => q'[s] = q[s] /\ prior'[s] = prior[s])
  BY StepMoves, AnswersOrGoes DEF Base, Requesting, Advances, Send, Submit
<1>2. r # s /\ pc[r] = "done" /\ resp[r] = "ok"
  <2>1. CASE Send(s) /\ t = s
    BY <1>1, <2>1, SendFits DEF Moves
  <2>2. CASE ~(Send(s) /\ t = s)
    <3>1. prior'[t] = prior[t]
      BY <1>1, <2>2, AnswersOrGoes DEF Moves, Advances
    <3> QED  BY <1>1, <3>1 DEF Moves, Kinds
  <2> QED  BY <2>1, <2>2
<1>3. Promised(r) /\ q'[r] = q[r] /\ q[r] \in Request /\ (Excused(r) => Excused(r)')
  BY <1>2, Excuses DEF Promised
<1>4. CASE t # s
  <2>1. Stale(t, r) /\ r \in prior[t]
    BY <1>1, <1>3, <1>4 DEF Moves, Stale, Importing
  <2> QED  BY <1>2, <1>3, <2>1 DEF Answers
<1>5. CASE t = s /\ Send(s)
  <2>1. pc'[s] = FirstStage(q'[s]) /\ q'[s] \in Request
    BY <1>1, <1>5, SendFits
  <2>2. pc'[s] \notin {"savePerson", "clear", "importCheck", "importCommit", "saveAttendance", "count", "write", "updateOrg"}
    BY <2>1 DEF FirstStage, Request, MemberRequests, PersonRequests, AttendanceRequests, VoucherRequests, TrailRequests,
       PersonKinds, AttendanceKinds, VoucherKinds
  <2> QED  BY <1>5, <2>2 DEF Stale, Importing
<1>6. CASE t = s /\ ~Send(s)
  <2>1. r \in prior[s]
    BY <1>1, <1>6, AnswersOrGoes DEF Advances
  <2>2. CASE Stale(s, r)
    BY <1>2, <1>3, <2>1, <2>2 DEF Answers
  <2>3. CASE ~Stale(s, r)
    <3>1. ~Holds(r)
      BY <1>2, <1>3, <1>6, <2>3, StaleLoads
    <3> QED  BY <1>3, <3>1 DEF Answers
  <2> QED  BY <2>2, <2>3
<1> QED  BY <1>4, <1>5, <1>6

\* Every statement of every request keeps the answers.
LEMMA AnswersStep ==
    ASSUME Base, Sources, Answers, NEW s \in Reqs, StepOf(s)
    PROVE  Answers'
<1>1. /\ Requesting /\ Moves(s) /\ Base' /\ nextPerson' >= nextPerson /\ nextContract' >= nextContract
      /\ nextRecord' >= nextRecord /\ PersonTables /\ AttendanceTables /\ PersonTables' /\ AttendanceTables' /\ Kinds(s)
  BY StepMoves, BaseStep DEF Base, Requesting
<1>2. ASSUME NEW r \in Reqs, Promised(r)' PROVE Holds(r)' \/ Excused(r)'
  <2>1. CASE r # s
    <3>1. Promised(r)
      BY <1>1, <1>2, <2>1 DEF Promised, Moves
    <3> QED  BY <2>1, <3>1, OthersHold
  <2>2. CASE r = s
    <3>1. ~Send(s)
      <4>1. ASSUME Send(s) PROVE FALSE
        <5>1. pc'[s] = FirstStage(q'[s]) /\ q'[s] \in Request /\ resp'[s] = "none"
          BY <1>1, <4>1, SendFits DEF Kinds
        <5>2. pc'[s] \notin {"knownVouchers", "discover", "link"}
          BY <5>1 DEF FirstStage, Request, MemberRequests, PersonRequests, AttendanceRequests, VoucherRequests,
             TrailRequests, PersonKinds, AttendanceKinds, VoucherKinds
        <5> QED  BY <1>2, <2>2, <5>1, <5>2 DEF Promised
      <4> QED  BY <4>1
    <3>2. CASE q[s].kind = "upload"
      BY <1>2, <2>2, <3>1, <3>2, UploadHolds
    <3>3. CASE q[s].kind # "upload"
      <4>1. resp'[s] = "ok" /\ resp[s] # "ok"
        BY <1>1, <1>2, <2>2, <3>1, <3>3, StepFits, AnswersOrGoes DEF Promised, Fits, UserKinds, Kinds, Advances, Requesting
      <4> QED  BY <2>2, <3>3, <4>1, AnswerHolds
    <3> QED  BY <3>2, <3>3
  <2> QED  BY <2>1, <2>2
<1>3. ASSUME NEW r \in Reqs, resp'[r] = "ok" PROVE Retired(r)'
  <2>1. CASE resp[r] = "ok"
    <3>1. Retired(r) /\ q'[r] = q[r] /\ q[r] \in Request
      BY <1>1, <2>1, StepMoves DEF Answers, Moves, Kinds, Requesting
    <3>2. /\ q[r].kind = "deletePerson" => q[r].person \in Nat
          /\ q[r].kind = "deleteContract" => q[r].contract \in Nat
          /\ q[r].kind = "deleteAttendance" => q[r].record \in Nat
      BY <3>1, KindSets DEF PersonKinds, AttendanceKinds, PersonRequests, AttendanceRequests, PersonId, ContractId, RecordId
    <3> QED  BY <1>1, <3>1, <3>2 DEF Retired, PersonTables, AttendanceTables
  <2>2. CASE resp[r] # "ok"
    <3>1. r = s /\ ~Send(s) /\ q'[s] = q[s]
      BY <1>3, <2>2, NewAnswer
    <3>2. CASE q[s].kind = "upload"
      BY <3>1, <3>2 DEF Retired
    <3>3. CASE q[s].kind # "upload"
      BY <1>3, <2>2, <3>1, <3>3, AnswerHolds
    <3> QED  BY <3>2, <3>3
  <2> QED  BY <2>1, <2>2
<1> QED  BY <1>2, <1>3, StaleExcused DEF Answers

\* What a request was answered "ok" holds - the deleted is gone, the role is given, the
\* bill is stored - until somebody who was not yet answered when it was sent asks for the
\* opposite, or a request that overlapped it saves a row as it had loaded it before.
THEOREM AnswersHold == Spec => []AnsweredHolds
<1>1. Init => Base /\ Sources /\ Answers
  <2> SUFFICES ASSUME Init PROVE Base /\ Sources /\ Answers
    OBVIOUS
  <2>1. \A r \in Reqs : pc[r] = "idle" /\ resp[r] = "none"
    BY DEF Init, Idle
  <2>2. (\A n \in Numbers : ~Free(n) => vouchers[n].by = Seeded) /\ (\A b \in bills : b.by = Seeded)
    BY RecordAssumption DEF Init, Free
  <2> QED  BY <2>1, <2>2, BaseInit, PersonSentinels DEF Sources, Answers, Promised
<1>2. Base /\ Sources /\ Answers /\ [Next]_vars => (Base /\ Sources /\ Answers)'
  <2> SUFFICES ASSUME Base, Sources, Answers, [Next]_vars PROVE (Base /\ Sources /\ Answers)'
    OBVIOUS
  <2>1. CASE UNCHANGED vars
    <3>1. Sources'
      BY <2>1 DEF vars, requestVars, recordVars, voucherVars, voucherTables, Sources, Stored, Spent, Rows, Free
    <3>2. Answers'
      BY <2>1 DEF vars, requestVars, recordVars, memberVars, memberTables, personVars, personTables, attendanceVars,
         attendanceTables, voucherVars, voucherTables, Answers, Promised, Holds, Free, LiveUser, Excused, Sent, Stale,
         Importing, Retired
    <3> QED  BY <2>1, <3>1, <3>2, BaseStutters
  <2>2. CASE \E s \in Reqs : StepOf(s)
    BY <2>2, BaseStep, SourcesStep, AnswersStep
  <2> QED  BY <2>1, <2>2 DEF Next, Finished, StepOf
<1>3. Answers => AnsweredHolds
  BY DEF Answers, AnsweredHolds, Promised, Excused
<1> QED  BY <1>1, <1>2, <1>3, PTL DEF Spec
====

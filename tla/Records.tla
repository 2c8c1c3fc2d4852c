-------------------------------- MODULE Records --------------------------------
(***************************************************************************)
(* The records of an organization together: its users and members, children  *)
(* with their contracts, attendance, vouchers and bills, statement by         *)
(* statement; and, in tables of its own, the audit trail of every handler.    *)
(* Deleting a child takes its attendance and its vouchers with it, and saving *)
(* an attendance record may bring a child back.                              *)
(***************************************************************************)
EXTENDS Members, Attendance, Vouchers, Trail

CONSTANT Scenarios   \* tables to start from, with the requests each client may send

Request == MemberRequests \cup PersonRequests \cup AttendanceRequests \cup VoucherRequests \cup TrailRequests

ASSUME RequestSentinel == NoRequest \notin Request
ASSUME ScenarioAssumption ==
    \A c \in Scenarios :
        /\ c.menu \in [Reqs -> SUBSET Request]
        /\ c.users \in [Users -> User \cup {NoRow}]
        /\ c.members \in [Users -> [Orgs -> Role \cup {NoRole}]]
        /\ c.persons \in [PersonId -> Names \cup {NoRow}] /\ c.contracts \subseteq Contract
        /\ c.records \in [RecordId -> Attendance \cup {NoRow}]
        /\ c.vouchers \in [Numbers -> Voucher \cup {NoRow}] /\ c.bills \subseteq Bill
        /\ c.rows \in [RowId -> Row \cup {NoRow}]
        /\ c.orgs \in [Orgs -> {"live", "deleted", "gone"}]
        /\ {c.nextPerson, c.nextContract, c.nextRecord, c.nextRow} \subseteq Nat

\* What is on record satisfies the foreign keys, the unique indexes and the exclusion
\* constraint, ids are below the next one, and a superadmin can sign in.
ASSUME RecordAssumption ==
    \A c \in Scenarios :
        /\ \A p \in PersonId : c.persons[p] # NoRow => p < c.nextPerson
        /\ \A x \in c.contracts :
             /\ x.id < c.nextContract /\ c.persons[x.person] # NoRow
             /\ \A y \in c.contracts :
                  x.id # y.id => x.person # y.person \/ x.to < y.from \/ y.to < x.from
        /\ \A a \in RecordId : c.records[a] # NoRow =>
             LET x == c.records[a]
             IN  /\ a < c.nextRecord /\ c.persons[x.child] # NoRow
                 /\ x.in \in Clock /\ x.out \in Clock => x.in < x.out
                 /\ \A b \in RecordId \ {a} :
                      c.records[b] # NoRow => c.records[b].child # x.child \/ c.records[b].date # x.date
        /\ \A n \in Numbers : c.vouchers[n] # NoRow =>
             c.persons[c.vouchers[n].child] # NoRow /\ c.vouchers[n].by = Seeded
        /\ \A b \in c.bills : b.by = Seeded /\ \A d \in c.bills : b.file.month = d.file.month => b = d
        /\ \E u \in Users : c.users[u] # NoRow /\ ~c.users[u].deleted /\ c.users[u].super /\ c.users[u].active
        /\ \A i \in RowId : c.rows[i] # NoRow => i < c.nextRow

\* The rows whose versions are stated are contracts: they are not saved whole, nor found
\* by the name in a file.
ASSUME VersionAssumption ==
    \A c \in Scenarios : \A r, s \in Reqs : \A k \in c.menu[r], l \in c.menu[s] :
        /\ k.kind = "trail" /\ "ifMatch" \in ToSet(Handlers[k.handler])
        /\ l.kind = "trail" /\ ToSet(Handlers[l.handler]) \cap {"save", "replace", "merge"} # {}
        => k.id # l.id

recordVars == <<memberVars, personVars, attendanceVars, voucherVars>>
vars == <<requestVars, recordVars, trailVars>>

FirstStage(k) ==
    IF k.kind # "trail" /\ k \in MemberRequests THEN "authorize" ELSE k.kind

\* The foreign keys of a child: ON DELETE CASCADE.
Cascade ==
    /\ records' = [a \in RecordId |-> IF records[a] # NoRow /\ persons'[records[a].child] = NoRow
                                      THEN NoRow ELSE records[a]]
    /\ vouchers' = [n \in Numbers |-> IF ~Free(n) /\ persons'[vouchers[n].child] = NoRow
                                      THEN NoRow ELSE vouchers[n]]

Init ==
    \E c \in Scenarios :
        /\ Idle(c.menu)
        /\ users = c.users /\ orgs = c.orgs /\ members = c.members
        /\ persons = c.persons /\ contracts = c.contracts
        /\ nextPerson = c.nextPerson /\ nextContract = c.nextContract
        /\ records = c.records /\ nextRecord = c.nextRecord
        /\ vouchers = c.vouchers /\ bills = c.bills
        /\ loaded = [r \in Reqs |-> NoRow]
        /\ target = [r \in Reqs |-> NoRow] /\ preloaded = [r \in Reqs |-> {}]
        /\ held = [r \in Reqs |-> NothingHeld] /\ discovery = [r \in Reqs |-> NoRun]
        /\ rows = c.rows /\ nextRow = c.nextRow
        /\ trail = <<>> /\ done = <<>> /\ throttle = NoRow
        /\ todo = [r \in Reqs |-> <<>>] /\ view = [r \in Reqs |-> Nothing]

Send(r) ==
    /\ Submit(r) /\ Goto(r, FirstStage(q'[r]))
    /\ IF q'[r].kind = "trail" THEN Begin(r) ELSE UNCHANGED todo
    /\ UNCHANGED <<menu, recordVars, rows, nextRow, trail, done, view, throttle>>

OfMembers(r) == MemberStep(r) /\ UNCHANGED <<q, clientVars, personVars, attendanceVars, voucherVars, trailVars>>

OfPersons(r) ==
    /\ PersonStep(r) /\ Cascade
    /\ UNCHANGED <<q, clientVars, memberVars, nextRecord, held, bills, discovery, trailVars>>

OfAttendance(r) ==
    /\ AttendanceStep(r)
    /\ UNCHANGED <<q, clientVars, memberVars, contracts, nextPerson, nextContract, target,
                   preloaded, voucherVars, trailVars>>

OfVouchers(r) == VoucherStep(r) /\ UNCHANGED <<q, clientVars, memberVars, personVars, attendanceVars, trailVars>>

OfTrail(r) == TrailStep(r) /\ UNCHANGED <<q, clientVars, recordVars>>

Finished == (\A r \in Reqs : pc[r] = "done" \/ menu[r] = {}) /\ UNCHANGED vars

Next ==
    \/ \E r \in Reqs :
         Send(r) \/ OfMembers(r) \/ OfPersons(r) \/ OfAttendance(r) \/ OfVouchers(r) \/ OfTrail(r)
    \/ Finished

Spec == Init /\ [][Next]_vars

---------------------------------------------------------------------------

\* Whatever overlaps, also an import with the writes of other requests, the tables
\* agree with each other: a person has one contract a day, contracts, attendance and
\* vouchers are somebody's, and a month has one bill.
RecordsConsistent == PersonsConsistent /\ AttendanceConsistent /\ VouchersConsistent

---------------------------------------------------------------------------
(* What a request that was answered leaves behind. *)

\* The answer's promise, while nobody asks for something else.
Holds(r) ==
    LET k == q[r]
    IN  CASE k.kind = "deletePerson" -> persons[k.person] = NoRow
          [] k.kind = "deleteContract" -> \A c \in contracts : c.id # k.contract
          [] k.kind \in {"createContract", "import"} -> \E c \in contracts : c.by = r
          [] k.kind = "deleteAttendance" -> records[k.record] = NoRow
          [] k.kind = "assign" -> ~Free(k.number) /\ vouchers[k.number].child = k.person
          [] k.kind = "removeVoucher" -> Free(k.number) \/ vouchers[k.number].by # k.row
          [] k.kind = "upload" -> \E b \in bills : b.by = r
          [] k.kind = "deleteBill" -> \A b \in bills : b.file # k.file \/ b.by # k.row
          [] k.kind = "deleteUser" -> ~LiveUser(k.user)
          [] k.kind = "purgeUser" -> users[k.user] = NoRow
          [] k.kind = "setSuper" -> users[k.user] # NoRow => users[k.user].super = k.super
          [] k.kind = "setActive" -> users[k.user] # NoRow => users[k.user].active = k.active
          [] k.kind \in {"addMember", "setRole"} -> members[k.user][k.org] = k.role
          [] k.kind = "removeMember" -> members[k.user][k.org] = NoRole
          [] k.kind \in {"deleteOrg", "purgeOrg"} -> orgs[k.org] # "live"
          [] OTHER -> TRUE

\* The requests that save a row as they loaded it: they can undo what was answered
\* between, but only when they overlap it.
Savers(kind) ==
    CASE kind = "deletePerson" -> {"updatePerson", "import", "updateAttendance"}
      [] kind = "deleteContract" -> {"updatePerson"}
      [] kind = "deleteAttendance" -> {"updateAttendance"}
      [] kind \in {"deleteUser", "purgeUser", "setSuper", "setActive"} -> {"rename", "setActive"}
      [] kind \in {"deleteOrg", "purgeOrg"} -> {"updateOrg"}
      [] OTHER -> {}

\* The requests that ask for the opposite.
Opposites(kind) ==
    CASE kind \in {"createContract", "import"} -> {"deleteContract", "deletePerson", "import"}
      [] kind = "assign" -> {"removeVoucher", "deletePerson"}
      [] kind = "upload" -> {"deleteBill"}
      [] kind \in {"addMember", "setRole"} -> {"setRole", "removeMember", "purgeUser", "purgeOrg"}
      [] kind = "removeMember" -> {"addMember", "setRole"}
      [] kind \in {"setSuper", "setActive"} -> {kind}
      [] OTHER -> {}

\* What was answered "ok" holds until somebody who was not yet answered asks for the
\* opposite, or a request that overlapped it saved a row as it was before.
AnsweredHolds ==
    \A r \in Reqs :
        resp[r] = "ok" /\ ~Holds(r) =>
            \E s \in Reqs \ {r} :
                /\ s \notin prior[r] /\ Sent(s)
                /\ \/ q[s].kind \in Opposites(q[r].kind)
                   \/ q[s].kind \in Savers(q[r].kind) /\ r \notin prior[s]
=============================================================================

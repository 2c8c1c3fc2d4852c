------------------------------- MODULE MCRecords -------------------------------
(* Instances of Records: tables to start from, and what up to three clients send. *)
EXTENDS Records

CONSTANTS r1, r2, r3, root, boss, helper, kita, ann, ben, v1, v2

Menu(a, b, c) == [r \in Reqs |-> CASE r = r1 -> a [] r = r2 -> b [] r = r3 -> c]

Account(super) == [super |-> super, active |-> TRUE, deleted |-> FALSE]

Empty ==
    [users |-> [u \in Users |-> Account(u = root)], orgs |-> [o \in Orgs |-> "live"],
     members |-> [u \in Users |-> [o \in Orgs |-> NoRole]],
     persons |-> [p \in PersonId |-> NoRow], contracts |-> {}, nextPerson |-> 1, nextContract |-> 1,
     records |-> [a \in RecordId |-> NoRow], nextRecord |-> 1,
     vouchers |-> [n \in Numbers |-> NoRow], bills |-> {},
     rows |-> [i \in RowId |-> NoRow], nextRow |-> 1, menu |-> Menu({}, {}, {})]

---------------------------------------------------------------------------
(* Users: the installation's superadmin, an organization's admin, an employee. *)

Member(kind, by, user) ==
    [kind |-> kind, by |-> by, user |-> user, org |-> kita, role |-> "admin",
     active |-> FALSE, super |-> FALSE]

Staff(second) ==
    [Empty EXCEPT
       !.users = [u \in Users |-> Account(u = root \/ (second /\ u = boss))],
       !.members = [u \in Users |-> [o \in Orgs |->
                      CASE u = root -> NoRole [] u = boss -> "admin" [] u = helper -> "staff"]]]

Demotions(by, user) ==
    {Member("setSuper", by, user), Member("setActive", by, user), Member("deleteUser", by, user),
     Member("purgeUser", by, user)}

\* Two superadmins change each other, and themselves.
LastSuperadmin ==
    [Staff(TRUE) EXCEPT !.menu =
        Menu(Demotions(root, boss) \cup {[Member("setSuper", root, helper) EXCEPT !.super = TRUE]},
             Demotions(boss, root) \cup Demotions(boss, boss) \cup Demotions(root, root),
             {Member("rename", root, boss), [Member("setActive", root, boss) EXCEPT !.active = TRUE],
              Member("rename", boss, boss)})]

\* Members come and go while the organization is deleted.
Membership ==
    [Staff(FALSE) EXCEPT !.menu =
        Menu({Member("addMember", boss, root), Member("setRole", boss, helper),
              Member("removeMember", boss, helper), Member("addMember", helper, helper),
              Member("removeMember", root, boss), Member("setRole", root, boss)},
             {Member("removeMember", root, helper), Member("addMember", root, helper),
              [Member("setRole", root, boss) EXCEPT !.role = "staff"], Member("purgeUser", root, helper),
              Member("deleteUser", boss, helper), Member("deleteUser", boss, root)},
             {Member("deleteOrg", root, boss), Member("purgeOrg", root, boss), Member("updateOrg", boss, boss)})]

Organization ==
    [Staff(FALSE) EXCEPT !.menu =
        Menu({Member("deleteOrg", root, boss), Member("purgeOrg", root, boss), Member("deleteOrg", boss, boss)},
             {Member("updateOrg", boss, boss), Member("updateOrg", root, boss), Member("updateOrg", helper, boss)},
             {Member("updateOrg", boss, boss), Member("addMember", root, root), Member("deleteUser", root, boss)})]

---------------------------------------------------------------------------
(* Persons: one child with a contract for the first day. *)

Person(kind) ==
    [kind |-> kind, who |-> ann, person |-> 1, contract |-> 1, from |-> 1, to |-> 2,
     withContract |-> FALSE]
On(k, from, to) == [k EXCEPT !.from = from, !.to = to]

OneChild ==
    [Empty EXCEPT !.persons = [@ EXCEPT ![1] = ann], !.nextPerson = 2, !.nextContract = 2,
        !.contracts = {[id |-> 1, person |-> 1, from |-> 1, to |-> 1, by |-> Seeded]}]

Changes == {Person("updatePerson"), [Person("updatePerson") EXCEPT !.who = ben],
            Person("deletePerson"), Person("deleteContract"), On(Person("createContract"), 2, 2)}

Importing2 ==
    [OneChild EXCEPT !.menu =
        Menu({On(Person("import"), 1, 1), On(Person("import"), 2, 2), [Person("import") EXCEPT !.who = ben]},
             Changes \cup {On(Person("import"), 2, 2), [Person("import") EXCEPT !.who = ben]},
             Changes \cup {[Person("createPerson") EXCEPT !.withContract = TRUE], Person("createPerson")})]

---------------------------------------------------------------------------
(* Attendance: a record of the first day. *)

Present(kind) ==
    [kind |-> kind, person |-> 1, record |-> 1, date |-> 1, status |-> Keep, in |-> Keep, out |-> Keep]

AtTheDoor ==
    [OneChild EXCEPT !.nextRecord = 2,
        !.records = [@ EXCEPT ![1] = [child |-> 1, date |-> 1, status |-> "present",
                                      in |-> 1, out |-> NoTime]],
        !.menu =
        LET edits == {[Present("updateAttendance") EXCEPT !.out = 2], [Present("updateAttendance") EXCEPT !.in = 2],
                      [Present("updateAttendance") EXCEPT !.out = NoTime],
                      [Present("updateAttendance") EXCEPT !.status = "absent"],
                      [Present("updateAttendance") EXCEPT !.status = "present", !.in = NoTime]}
        IN  Menu(edits, edits \cup {Present("deleteAttendance"), Person("deletePerson")},
                 {Present("deleteAttendance"), Person("deletePerson"),
                  [Present("createAttendance") EXCEPT !.status = "present"],
                  [Present("createAttendance") EXCEPT !.status = "absent", !.date = 2]})]

---------------------------------------------------------------------------
(* Vouchers: two children, one number assigned, two bills of one month. *)

RowOf(n, who) == [number |-> n, who |-> who]
MCFiles == {[month |-> 1, rows |-> <<RowOf(v1, ann), RowOf(v2, ben)>>],
            [month |-> 1, rows |-> <<RowOf(v2, ann)>>]}
File(n) == CHOOSE f \in MCFiles : Len(f.rows) = n
Voucher1(kind) ==
    [kind |-> kind, file |-> File(1), person |-> 1, number |-> v1, row |-> Seeded]

Billing ==
    [OneChild EXCEPT !.persons = [@ EXCEPT ![2] = ben], !.nextPerson = 3,
        !.vouchers = [@ EXCEPT ![v1] = [child |-> 2, by |-> Seeded]],
        !.menu =
        Menu({Voucher1("upload"), [Voucher1("upload") EXCEPT !.file = File(2)]},
             {Voucher1("assign"), [Voucher1("assign") EXCEPT !.person = 2],
              [Voucher1("assign") EXCEPT !.number = v2], [Voucher1("removeVoucher") EXCEPT !.person = 2],
              [Voucher1("upload") EXCEPT !.file = File(2)], [Voucher1("deleteBill") EXCEPT !.row = r1]},
             {Person("deletePerson"), [Person("deletePerson") EXCEPT !.person = 2],
              [Voucher1("removeVoucher") EXCEPT !.person = 2],
              [Voucher1("assign") EXCEPT !.person = 2, !.number = v2],
              [Voucher1("removeVoucher") EXCEPT !.row = r2],
              [Person("updatePerson") EXCEPT !.who = ben]})]

---------------------------------------------------------------------------
(* The trail: rows of three levels, and two handlers of one kind of record at once. *)

At3(under) == [under |-> under, val |-> under, ver |-> 1]
Ask(handler, id) ==
    [kind |-> "trail", handler |-> handler, id |-> id, other |-> 3, under |-> id - 1, val |-> 3,
     stated |-> Waived, known |-> TRUE]
Writing(table) == {h \in DOMAIN table : Tail(table[h]) # <<>>}
Asks(table, level) == {Ask(h, level) : h \in DOMAIN table}
Writes(table, level) == {Ask(h, level) : h \in Writing(table)}

Levels(offers) ==
    [Empty EXCEPT !.rows = [i \in RowId |-> IF i <= 3 THEN At3(i - 1) ELSE NoRow], !.nextRow = 4,
                  !.menu = offers]
Together(top, mid, low) ==
    LET writes == Writes(top, 1) \cup Writes(mid, 2) \cup Writes(low, 3)
    IN  Levels(Menu(Asks(top, 1) \cup Asks(mid, 2) \cup Asks(low, 3), writes, {}))

None == [h \in {} |-> <<>>]
OfPayPlans == Together(PayPlanReads @@ PayPlanWrites @@ PayPlanFiles, PayPlanPeriods, PayPlanEntries)
OfBudget == Together(BudgetItems @@ BudgetItemWrites, BudgetItemEntries, None)
OfFundings ==
    Together(FundingReads @@ FundingWrites @@ FundingFile, FundingPeriods, FundingProperties)
OfOrganizations == Together(Organizations @@ OrganizationWrites, Sections, None)
OfUsers ==
    Together(UserReads @@ UserWrites @@ UserRemovals @@ Superadmins @@ Passwords,
             Memberships @@ MembershipReads, None)
OfAttendances == Together(ChildReads @@ ChildWrites, AttendanceReads @@ AttendanceWrites, None)
OfBills == Together(BillReads @@ BillWrites @@ BillReports @@ BillVouchers, None, None)
OfReports ==
    Together(Statistics @@ Finances @@ Estimates @@ Promotions @@ AuditTrail, None, None)

\* Two contracts of one person; versions are stated, waived or forgotten.
\* The contracts are at version 2: a client that states 1 has read them before.
Intents(table) ==
    UNION {{[Ask(h, 2) EXCEPT !.stated = v] : v \in {1, 2, Waived, Missing}} \cup {[Ask(h, 2) EXCEPT !.val = 1]} :
             h \in DOMAIN table}
OfContracts(rivals, others) ==
    [Levels(Menu(rivals, rivals \cup others, {}))
        EXCEPT !.rows[2].ver = 2, !.rows[3].ver = 2, !.rows[3].under = 1]
OfChildContracts ==
    OfContracts(Intents(ChildContractIntents @@ ChildContractMoves),
                Asks(ChildContracts, 2) \cup Asks(ChildWrites, 1))
OfEmployeeContracts ==
    OfContracts(Asks(EmployeeContractIntents @@ EmployeeContractMoves, 2),
                Asks(EmployeeContracts, 2) \cup Asks(EmployeeReads @@ EmployeeWrites, 1))

\* Two children; one file is read while others come, go and change their names.
OfFiles ==
    [Levels(Menu(Asks(Workbooks @@ ChildFiles @@ EmployeeFiles, 1) \cup {Ask("ImportChildren", 3)},
                 {Ask("DeleteChild", 1), Ask("UpdateChild", 1), Ask("CreateChild", 1)},
                 {Ask("CreateChild", 1), Ask("ImportChildren", 2)}))
        EXCEPT !.rows = [i \in RowId |-> IF i <= 2 THEN [At3(0) EXCEPT !.val = i] ELSE NoRow], !.nextRow = 3,
               !.menu = [r \in Reqs |-> {[k EXCEPT !.under = 0] : k \in @[r]}]]

OfDenials ==
    LET refused == {Ask("Refused", 1), [Ask("Refused", 1) EXCEPT !.known = FALSE]}
    IN  Levels(Menu(refused, refused, refused))

TrailScenarios ==
    {OfPayPlans, OfBudget, OfFundings, OfOrganizations, OfUsers, OfAttendances, OfBills, OfReports,
     OfChildContracts, OfEmployeeContracts, OfFiles, OfDenials}

MCScenarios ==
    {LastSuperadmin, Membership, Organization, Importing2, AtTheDoor, Billing} \cup TrailScenarios
=============================================================================

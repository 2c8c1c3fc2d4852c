# KitaManager in TLA+

KitaManager is a Go and PostgreSQL backend with which the provider of day-care
centres keeps children, employees, their contracts, funding, pay and attendance.
This directory holds TLA+ models of the parts of it in which several things
happen at once, of the figures it computes from what they leave behind, and of the
audit trail every handler writes; the TLC configurations that check them; and TLAPS
proofs about them. `PROJECT.json` maps every definition to the source lines
it stands for, and lists the runs, the mutants, the hazards and the theorems.

    tlc -config ContractsChild.cfg MCContracts      # one run
    tlc -config Records.cfg MCRecords               # the largest
    tlapm ContractsProofs.tla                       # one module of proofs

## 1. The system

One process serves HTTP (`cmd/api/main.go`): handler → service → store → GORM →
PostgreSQL. Handlers run concurrently, one goroutine per request. They share no
memory except the audit queue and the rate limiters; everything else they share
is in the database, at isolation READ COMMITTED. A service either runs single
statements, each a transaction of its own, or several through
`GormTransactor.InTransaction` (`store/transactor.go`). What one request reads may
therefore be out of date when it writes, and the code answers this in several
different ways, which is what makes it interesting to model:

 * a **version column** and a guarded UPDATE (contracts),
 * a **deferred exclusion constraint** (contracts; an immediate one for budget entries),
 * a **partial unique index** (section names, the default section, attendance, vouchers),
 * an **advisory lock** (promotion of a section), a **row lock** (the person an import has matched),
 * a **conditional UPDATE** whose affected rows are counted (spending a code, activating a factor),
 * a **check inside a transaction** with nothing behind it (deleting a section,
   periods of pay plans and of government funding),
   or not even a transaction (the last superadmin, bills of a month, audit entries).

### Inventory

| component | state | operations | what is hard | what makes it correct |
|---|---|---|---|---|
| contract writes (`service/*contract*`, `store/period.go`) | `child_contracts`, `employee_contracts`: period, version, terms, properties | create, correct, amend, end, boundary move, delete | load outside the transaction, whole-row UPDATE, lost races, deferred constraint, deadlock at COMMIT, row locks in different orders | one contract per day; no update is lost; `If-Match` holds at commit; amend and boundary move are atomic; pay can be computed on the first day; every request is answered |
| sections (`service/section.go`, `store/section.go`) | `sections` with soft delete, default flag, partial unique indexes | create, rename, promote, delete, assignment by a contract | check and act in separate statements, `Save` writes stale columns and upserts, two-statement promotion | one default, unique names, a promotion sticks, deletes are checked |
| audit queue (`service/audit.go`, `main.go`) | channel of 4096, worker, counters, `audit_logs` | log, fallback, drain, shutdown | full buffer, failing writes, goroutines outliving the shutdown, order of closing | nothing is lost silently, nothing stored twice, the shutdown drains and ends |
| persons (`service/child.go`, `employee.go`, `person_crud.go`) | `children`, `employees` | create, update, delete, import, export | the import clears and re-creates contracts without versions | the timeline stays legal; a failed import leaves nothing behind |
| pay plans (`service/payplan.go`) | plans, periods, entries | CRUD, import, active period of a day | overlap check without a constraint | one period per day; contracts stay payable |
| government funding (`service/government_funding.go`, `importer/`) | fundings, periods, properties, required keys | CRUD, import of files | the same | one period per day; the keys of a period agree |
| budget items (`service/budget_item.go`) | items, entries | CRUD | overlap check with an immediate exclusion constraint | one entry per day and item |
| funding bills, vouchers (`service/government_funding_bill.go`) | bill periods, rows, vouchers | upload, confirm, compare, assign voucher | duplicate uploads, savepoint and re-read after 23505 | a voucher belongs to one child; a bill is imported once |
| attendance (`service/attendance.go`) | `child_attendance` | check-in, check-out, status | check then insert, times of one day | one record per child and day; out after in |
| calculation, statistics, forecast (`service/calculate.go` …) | none | monthly financials, staffing, occupancy, forecast overlay | inclusive dates, ages at boundaries, rounding | totals equal the sum of their parts; what an overlay promises |
| step promotions (`service/step_promotion.go`) | none | who is due for the next step | years of service at a boundary | due exactly when the rules say so |
| login, sessions, second factors (`service/auth.go`, `factor.go`, `store/session.go`) | `sessions` (pending and full), `factors`, recovery codes, failure counters | login, challenge, verify, refresh, logout, enrol, activate, disable, clean-up | pending row against concurrent verify, expiry, clean-up | one session per verified login; a factor is active only after activation |
| users, organizations, memberships (`service/user.go`, `organization.go`, `user_organization.go`) | `users`, `organizations`, roles | CRUD, roles, superadmin flag | count before update | a superadmin remains |
| HTTP handlers (`handlers/`) | the trail (`audit_logs`), a throttle for denials | every route: read, call a service, log | the entry is made from what was read before the write; exports page by page | every change is in the trail, with the values it had |
| ISBJ bill parsing (`isbj/`) | – | read a workbook, reconcile it with its own sums | lines skipped, grouped, filtered | what is stored is what the file states |
| import of funding files (`importer/`) | – | create or update a funding, period by period | order of the file against the stored periods | the configuration is the file's, and a second import changes nothing |
| rate limiting (`middleware/ratelimit.go`) | a fixed window per address, in a map under one mutex | allow, clean-up, stop | – | never more than the limit per window |
| authorization (`middleware/authorization.go`), web frontend | tables of rules | table lookup, UI | – | – |

Interactions: contracts refer to sections (`section_id`), to the pay plan (employee)
and, through the organization's state, to the funding periods (child). Every
handler emits audit entries. `main` starts the audit worker and the hourly
clean-up and ends them in `shutdown`. Bills refer to children through vouchers.
The calculations read everything and write nothing.

The hazards these components are exposed to, each at its line and with the
properties that would catch it, are `hazards` in `PROJECT.json`.

## 2. What is modelled

### Contracts: `ContractOps`, `Timeline`, `Contracts`

One instance is one child's, or one employee's, contracts.

 * **`ContractOps`** is data only: what a row and a request are, what each intent
   writes (`Created`, `Corrected`, `Ended`, `Successor`, `Closed`, `MovedEarlier`,
   `MovedLater`) and when it is accepted (`CreateOK` … `BoundaryOK`). Dates are days
   `1..MaxDay`, an open end is the number `Forever`. `terms` is one opaque value for
   the fields no rule looks inside (section, grade, step, hours, voucher …); the
   property map is the set of its keys, with `Nil` for Go's nil map, which
   `MergeDefaults` treats differently from an empty one. `Funding` gives per day what
   the funding period in force auto-applies, knows and requires; `Payable` the terms
   for which the pay plan has an entry. A child is the instance in which everything
   is payable, an employee the one without funding: with that the two services' code
   coincides, and the map names one or the other. Section and pay plan existence
   checks only refuse a request and are not modelled.
   `Closed` models a Go map that two rows share: on an amendment that inherits the
   properties, the keys merged into the successor end up in the predecessor too.
 * **`Timeline`** is what the API promises: every write happens at once, on the rows
   as they are at that moment, if `ContractOps` accepts it and the result has no
   overlap; or not at all.
 * **`Contracts`** is what the code does. A request (`pc`, `q`, `a`, `b`, `pend`, `resp`)
   loads its rows and validates outside any transaction (`LoadThen`, `LoadLater`), then
   runs the statements of its intent in the order `After` gives: `Check` is
   `ValidateNoOverlap`, `UpdateRow` the `UPDATE … WHERE id AND version`, `InsertContract`
   the INSERT, `Commit` the COMMIT with the deferred constraint. A statement sees `View`:
   committed rows under its own writes. `Unlocked` makes UPDATE and DELETE wait for a
   row another transaction has written. Ids come from a sequence that a rollback does not
   rewind. `Excluded` is the constraint as the first committer meets it, `DeadlockVictim`
   the 40P01 of two transactions that wait for each other's index entries at COMMIT.
   A refused request rolls back and releases its locks (`Answer`).

A request is one HTTP call and is not repeated; a client that retries is another
member of `Reqs`. Import, deletion of the person and the contract that comes with a new child
write contracts as rows and are in `Persons`; what the handlers around all of these log is in `Trail`.

### Sections: `Sections`

One organization. `sec` is the table with its soft-deleted rows, `assigned` says
which contract tables have an active contract in a section. Create, rename and
assignment run statements on the pool, each committed at once; promotion and
deletion run in a transaction. `SaveSection` is `gorm.Save`: it writes every column of
the section as loaded, and if its UPDATE matches nothing (the row was deleted
meanwhile) it falls back to an upsert that clears `deleted_at`. `BeginClear` is the
advisory lock together with the snapshot of the UPDATE that follows, `ClearDefault` and
`SetDefault` are the two UPDATEs, `DefaultPending` is the wait of a unique index for a
transaction whose outcome is open, and `DeadlockVictim` the cycle that a rename and a
promotion can form. Where a transaction's last statement cannot be told apart from its
COMMIT by any other request the two are one action. `Canon` is `lower(trim(name))`, by
which the index compares; the lookup before it compares the stored text.
`ContractsEnd` is the environment: contracts end. The age range of a section, which is
validated but related to nothing, and the handler's extra read for the audit diff are
left out. A contract's section is only counted if the contract is active today, which
is what `HasActiveChildren` asks; the documentation page on sections speaks of past
contracts too, the code does not look at them.

### Audit: `AuditQueue`

The buffered channel, its worker, the synchronous fallback, and `shutdown` as the
sequence of steps that `main` goes through. An entry is named by the goroutine that
emits it: a request, or the clean-up (`Purge`). A write may fail, and may fail after its
row was committed. A send on a closed channel panics and ends the process, as it does in
Go. The sixty emitters (`LogLogin` …) differ in the fields they fill in and all go
through `log`. The buffer's size is the constant `Buffer`.

### Pay plans, fundings, budget items: `Periods`

One instance is one budget item, pay plan or government funding (`kind`) with the periods it
owns (`rows`; a budget item's entries) and what hangs on a period (`details`: the entries of a pay
plan period, the properties of a funding period). The three services are written alike, and one
module has them all; where they differ the difference is written out:

 * the dates of a period are compared with each other in the budget and pay plan services, and in
   no place for a funding (`DatesOK`);
 * the overlap check (`Check`) is one statement and the write (`InsertPeriod`, `SavePeriod`) the next;
   only for budget entries an exclusion constraint judges again (`Excluded`);
 * a budget item's category and `per_child` may change only while it has no entries:
   `CountEntries`, then `SaveOwner`;
 * a pay plan period is deleted by two statements without a transaction around them
   (`DeleteEntries`, `DeletePeriod`), the others by one whose cascade takes the details;
 * a pay plan that contracts refer to cannot be deleted (`LockOwner`), a funding is deleted without being
   looked up;
 * a pay plan is imported (`BeginClear`, `Clear`, `Install`) in one transaction: what it has deleted stays
   visible to others, and locked (`cleared`, `kids`), until it commits or fails.

`gorm.Save` is the statement that needs care: it updates by primary key, and if there is no such row it inserts one,
with the key it was loaded with. A deleted owner, period or detail can so come back
(`SaveOwner`, `SavePeriod`, `SaveDetail`), and a funding period comes with the properties it was loaded with,
which GORM inserts first where they are gone. A foreign key that refuses such a row is answered 500.
The owner's DELETE and its cascade are two actions (`LockOwner`, `Cascade`), because the cascade waits for rows that an
import has deleted while the import's inserts wait for the owner: `DeadlockVictim`. `Interrupted` is a
client that goes away, or a deadline, between two statements: it rolls back an open transaction and
leaves what was committed, as between `DeleteEntries` and `DeletePeriod`.

The name is the identity of the instance, so renaming is not modelled, nor are amounts, hours and ages, or the
reads; the importer of funding files is in `FundingFiles`. In the one deadlock that is left out, the cascade of a period's deletion and an
import of the same plan lock entries and periods in opposite orders; both lock entries first
in the code, so it needs an entry created between the two.

### Accounts: `Factors`, `Logins`

One user, with sessions and second factors; every statement is a step, because no operation but the
replacement of the backup codes runs in a transaction.

 * **`Factors`** has the factor rows (`factors`: type, active, secret or credential, last time step used,
   remaining backup codes), enrolment, activation, deletion, the regeneration of backup codes and the step-up
   check in front of them. A TOTP code is a pair of factor and time step; `SpendStep` and `Claim` are the
   conditional UPDATEs of which one of several requests wins. `used` remembers the code each
   request had accepted.
 * **`Logins`** composes it with `sessions`: a login that meets an active primary factor gets a *pending* row, which
   a verified code turns into a full session; the session check in front of every other request; logout,
   revocation, the change and reset of the password, and what an administrator does to the account. A pending row has
   a count of wrong codes (`Bump`, and `DropPendingSession` at the limit) and the nonce of its security-key challenge.
 * The environment: rows expire, both clean-ups (of sessions in batches of `BatchSize`, of abandoned enrolments) run
   at any time, the time step advances. A request may stop between two statements (`Interrupted`: the client has
   gone or a deadline has passed), and a statement may fail where the code goes on regardless (`failed`).
   The two lockouts count entries of the asynchronous audit log: they may refuse at any time, and
   what they count is not modelled. Cryptography is an equation between codes.

### An organization's records: `Requests`, `Members`, `Persons`, `Attendance`, `Vouchers`, `Records`

`Requests` is what the others share: the request each client sends, the statement it is at, what it has loaded, its
answer. `Records` composes the other four; a request is of one of them and the tables are shared.

 * **`Members`**: users, organizations, memberships. Who may do what is read from the session, the membership and the
   flag, in that order; then `Count` counts the remaining superadmins, and only then the row is written, for
   some operations by an UPDATE of one column, for others by the `Save` of a row loaded before.
 * **`Persons`**: children or employees with contracts that come and go as rows, and the import. The import is the one
   transaction that is not a single step: it locks the person it has matched (`Locked`: others wait), deletes
   its contracts (`Vanishing`: others still see them, and wait to delete or to clash with them) and creates the file's;
   a person that disappears while the import waits for it is created again.
   Deleting a child takes attendance and vouchers with it by cascade, in the same step.
 * **`Attendance`**: check-in is a look-up and an INSERT that a unique key judges; a change loads the record *with its
   child* and saves both whole (`SaveAttendance`), so that a deleted child, or a deleted record, can come back.
 * **`Vouchers`**: bills and the numbers that tie their rows to children. An upload checks the month, stores the bill
   and then links each number it does not know to the only child of that name (`MatchRow`, `Link`), passing over one that was taken meanwhile. An operator's assignment is an INSERT
   behind a savepoint, and on a duplicate key a re-read (`WhoseVoucher`), which answers 500 if the number has gone meanwhile.

### The audit trail of the handlers: `Programs`, `Trail`

**`Programs`** gives every HTTP handler as the sequence of its steps: `OrgUpdate` is, say, *fetch the
row, load it, save it, log the changes*. **`Trail`** gives the steps their meaning on a table of rows in which a
row stands under another one (an entry under its period, a membership under its user) and has one value for all its fields.
The table of routes (`Routes`, `Handlers`) says which program a request runs. A client states a version it was given
by an earlier answer (`Given`): the code compares numbers, and a version nobody has been given says nothing of the row.
A handler's entries are made from what it read *before* and from the answer of the service; a write by `gorm.Save` is
a load and a save with other requests between them. `Since` has the changes that
requests made which were not over when a request was sent; a file may differ from the table by them, and an entry's old values
may be older than an overlapping change.

Rows that are created with another one (the first contract of a child, the vouchers an upload discovers, the entries of an
imported pay plan) are part of the row they come with. The statements within a service call are
the other modules' subject. Denials go through a throttle that counts what it suppresses, and the next entry carries the
number (`Admit`). Exports count the rows, then read page after page (`ReadPage`), and log what is in the file.
The handlers of login and factors, which log without reading first, are in `Factors` and `Logins`.

### Figures: `Rates`, `Comparison`, `Figures`, `FundingFiles`, `Sheets`, `Reports`

What the program computes, as operators over its rows.

 * **`Rates`** are the look-ups everything shares: the contract of a month, the funding period, the rates that fit a
   child's age and properties, `CalculateFunding`.
 * **`Comparison`** is a bill against what the contracts earn: `ComparePeriod` per child and voucher, the
   categories and issues of `BuildComparisonSummary`, the corrections attributed to earlier months,
   a child's history, the totals of all children. The payments of a row are a set; the line of the file each
   stands in tells them apart.
 * **`Figures`** are the statistics of a month: income and expenses, staffing hours, occupancy, age distribution,
   funding per child; `GetStepPromotions`; and the forecast, the same operators on a dataset with an overlay
   (`ApplyOverlay`): persons removed, contracts added to those left, persons added under ids of their own. The dataset carries
   the age bands in the order the calculation at hand has them.
 * **`FundingFiles`** imports a funding file: periods in the file's order, matched by start day, rates matched by key, value
   and ages, the service's refusals on the way. Periods and rates are tables by id, as the database has them. A file names
   a start once (`StartsApart`): of a period named again the code compares the fields with the row loaded before the import.
 * **`Sheets`** is the workbook behind a bill: which lines are read, which are settlement rows of other months, the
   reconciliation with the sums the file states, the grouping into bill rows.
 * **`Reports`** composes them. `CompareRange` is not a function but a sequence of reads: for each month the bill,
   the funding, the children of its vouchers, their contracts, the children with contracts that month, later settlements, one statement each, while other requests assign and remove
   vouchers, change contracts, upload and delete bills and import funding files, each in one step (their
   own statements are the subject of `Records` and `Periods`). The other reports are functions of the tables of one
   moment. Among age bands with the same lower bound the order is the one in which Go iterates over a map, anew in every
   `calculateOccupancy`: `LoadDataSet` chooses it once for the statistics and once for each of two forecasts
   (`BandOrders`). The forecasts say the same in different ways. One adds contracts (`Added`) to persons there are (`Extension`);
   the other also removes the staff and the children and enters them anew, with what is added to them (`Replacement`), so
   that what it adds to the removed is dropped. They add to a child only what does not overlap its contracts and what the
   service takes.

## 3. The runs

| run | shows |
|---|---|
| `contracts_child` | three concurrent requests on a child's contracts, funding that changes on day 3: no overlap, no lost update, `If-Match` honoured at the moment of the write, omitted fields kept, no gap or double cover at a seam, and `Contracts` implements `Timeline` |
| `contracts_employee` | three concurrent requests on an employee's contracts under a pay plan that drops an entry on day 3: pay can be computed on the first day of each contract (`PayPlanCovers`), and every request is answered |
| `contracts_amend_alias` | *violated*: an amendment writes the successor's auto-applied keys into the contract it closes |
| `sections` | three concurrent requests on an organization's sections: one default, promotions neither fail each other nor get lost, the default survives everything except a rename or delete that races with a promotion, and every request is answered |
| `sections_delete_race` | *violated*: the transaction around check and delete does not prevent the race it is there to prevent |
| `audit_queue` | three requests and the clean-up, a buffer of two, a failing database and a signal to stop at any time: nothing vanishes silently, an orderly exit has drained, the shutdown ends, every entry settles |
| `audit_shutdown` | *violated*: the clean-up, for which the shutdown does not wait, sends on the closed channel, and the panic ends the process with entries in the buffer |
| `periods` | three concurrent requests on a budget item, two pay plans (one in use) or a funding: budget entries never overlap; the periods of the others overlap only where a check was out of date at the write; category changes are checked against entries; nothing is left without its parent; every request is answered |
| `logins` | one account, up to three requests: a TOTP or backup code lets one request through; every wrong code is counted; an active factor can be used; a new password, a deactivation or a deletion ends the older sessions; no login passes by a second factor that was active all the while |
| `records` | up to three requests on users, organizations, persons, attendance, vouchers and bills: the tables agree with each other; what was answered holds until somebody asks for the opposite or saves an older row over it; an import replaces the timeline; a superadmin is lost only if two requests overlapped. And on any two handlers at once: every change is in the trail (`TrailComplete`), with the values it had (`TrailTrue`), except where requests overlapped |
| `reports` | a comparison of up to three months while two requests write: its parts sum to its difference, no row or child is in it twice; the other reports agree with it and with each other on the same rows; promotions cost what they announce; a bill holds what its workbook states, the configuration what its file states |
| `funding_yearly` | *violated*: the next year's funding file, in the order of the shipped files, is refused |

Each property of a passing run has a mutant: an operator next to the one it replaces,
marked "Mutant" in the module, with a bug one could plausibly write (no version in the
WHERE clause, no row lock, no advisory lock, an INSERT on the pool instead of the
transaction, …). TLC finds the property violated under each.

The `except` in these properties says what the code does not promise; it is there because TLC showed what happens. Where a
comment or a document says otherwise and a run of its own would add nothing to what the
property already says, it is noted here:

 * `contract_intent.go:31` says that a lost race is a 412; with a version stated, a race lost between load and update is answered
   409 (`contract_amend.go:75`).
 * A rename writes back the default flag it loaded (`store/section.go:108`), although promotion is documented as the only way
   to flip it: the exception in `DefaultSurvives`.
 * `models/funding.go:24` says that the service layer keeps the periods of a funding apart; two requests that have both passed the
   check overlap: `AmbiguousOnlyByRace`.
 * Two requests can each demote the other's superadmin: `SuperadminLostOnlyByRace`.
 * `service/government_funding.go:466` refuses to update a property to a band of one year, which creating it allows
   (`models/funding.go:66`); an import that meets one is rolled back as a whole. The refusal is part of `UpdateProperty`.
 * `handlers/government_funding.go:470` announces 409 for a funding that exists; the import updates it.
 * The YAML exports of persons leave no entry in the trail; a file read page by page can lack a row, or hold one twice,
   if rows come and go meanwhile, and with rows of equal names even if not (`FilesWhole`).
 * Assigning a voucher to the child that has it logs a second creation; two deletions of one row that overlap are both logged.
 * Where the last step of a request fails (revoking sessions after a reset, reading an imported funding or bill again) the
   change stays and has no entry: the exceptions of `ChangesLogged`.

### Bounds

 * Contracts: calendar of 4 days, ids up to 5, three requests in flight, at most three
   contracts to begin with, and 13 to 17 request bodies that between them reach every
   intent, every refusal, both `If-Match` forms, open and closed ends, seams that move
   both ways, and bodies that collide. Two requests show every pairwise race, the
   third what can happen between a load and the matching update (load, two commits,
   update). Four days suffice for a gap, a seam and a boundary move in both
   directions next to a change of funding on day 3. Each request inserts at most one row,
   and five ids are enough: the child starts with at most two rows, and of the employee's bodies
   no more than two can insert in one behaviour (a request without an id would wait for ever
   and `EveryRequestAnswered` would fail). The child run uses symmetry of requests;
   the runs with liveness do not.
 * Sections: two sections, room for three more, three requests out of thirteen bodies, names
   that differ only in case.
 * Audit: `Buffer = 2` with four emitters fills the buffer and takes the fallback both before
   and during the shutdown. The counters are bounded by the number of emitters.
 * Periods: calendar of 3 days, one period to begin with (and one detail), three requests out of seven to
   nine bodies per service. A body exists for every operation that is particular to the service; two
   days make an overlap by one day, three a neighbour that does not overlap and an open end. The third request is
   what it takes to delete an owner between a load and a save while an import runs. Nine ids: the first
   three are taken, and three requests insert at most six rows (three imports of two periods). `next \in Ids` is a guard, and `EveryRequestAnswered` would fail
   if the ids ran out.
 * Logins: seven situations (a login answered while codes are spent elsewhere, three wrong codes at once, an enrolment that is
   replaced meanwhile, two factors removed during a login, a security key, its registration, passwords and sessions), each
   with its factors and sessions to begin with and two or three requests out of its menu. `ChallengeLimit` and
   `ActivationLimit` are 2 instead of 5, so that two requests reach the limit and a third exceeds it;
   `BatchSize = 1` leaves a clean-up something for its next round; two time steps, so that a code is old once.
 * Records: six situations on the tables (the last superadmin, membership, an organization's end, an import, attendance,
   billing) with three requests each, and twelve on the trail, in which any two handlers of a group run at once on rows of three levels
   (and three for the files and the denials). `PageSize = 1` makes two rows two pages; `DenialLimit = 1` makes the second denial
   the first that is suppressed. The situations are initial states of one run.
 * Reports: three situations (a child with two vouchers, rows without child, bills settled later), three children, three months
   of which a year has two, ages and contracts chosen so that every rate, category and age band occurs. One funding has two
   bands that start at zero, with a child in both. Birthdays fall on the first of a month and in its course; a forecast has contracts to add to a child with, and
   one without, others, and to the staff. Two writers
   change tables in one step each; the comparison makes eight reads a month, and they fall between any two of them.

### Fairness

`EveryRequestAnswered` assumes weak fairness of `Serve(r)` for each request: a goroutine
that can run is scheduled, and a lock or index wait in PostgreSQL ends when the
transaction waited for ends. It is not assumed that a client sends a request. The audit
properties assume weak fairness of the worker and of the shutdown: every database call has
a deadline (10 s, 5 s) and `srv.Shutdown` one of 30 s. Nothing is assumed of the requests, the
clean-up or the signal. `logins`, `records` and `reports` check safety only, and assume none.

Deadlock is checked in every run: the only states without a further step are the ones
`Finished` names.

## 4. What is proved

Every theorem holds for all values of the constants that satisfy the named `ASSUME`s, which
TLC evaluates in the runs.

| module | theorem | states |
|---|---|---|
| `ContractsProofs` | `InductiveInvariant` | `TypeOK /\ LocksHold` |
| | `TypeCorrect`, `LocksProtect` | its two parts |
| | `NeverOverlap`, `NothingIsLost` | `NoOverlap`, `NoLostUpdate` |
| | `Refinement` | `Contracts` implements `Timeline` |
| | `VersionsHonoured`, `OmissionsKept` | `IfMatchHonoured`, `OmittedFieldsKept` |
| | `PayIsCovered`, `SeamsHold` | `PayPlanCovers`, `SeamKeepsCoverage` |
| `SectionsProofs` | `InductiveInvariant` | `IInv`: who holds the lock, what it has written |
| | `TypeCorrect`, `OneDefault`, `UniqueNames` | `TypeOK`, `AtMostOneDefault`, `NamesUnique` |
| | `PromotionSticks` | `PromoteTakesEffect` |
| | `PromotionsDoNotCollide`, `DefaultKept` | `PromotesDoNotCollide`, `DefaultSurvives` |
| `AuditQueueProofs` | `InductiveInvariant` | `IInv`: the stages of the shutdown, where each entry is |
| | `TypeCorrect`, `NoSilentLoss`, `NoDuplicateRow` | `TypeOK`, `NothingVanishes`, `StoredOnce` |
| | `ClosedInOrder`, `DrainedBeforeExit` | `NoWriteAfterClose`, `DrainedOnExit` |
| `PeriodsProofs` | `Inductive` | `IInv`: the tables are in order, and what a request remembers |
| | `TypeCorrect`, `BudgetCorrect`, `NothingDanglesCorrect` | `TypeOK`, `BudgetOnePerDay`, `NothingDangles` |
| | `AmbiguousOnlyByRaceCorrect`, `MeaningKeptCorrect` | `AmbiguousOnlyByRace`, `MeaningKept` |
| `LoginsProofs` | `FactorsInv` | `FInv`: factors, codes, and what a request relies on |
| | `CodesOnce`, `FactorsUsable`, `SecondFactorNeeded` | `CodesSpentOnce`, `ActiveFactorsUsable`, `LoginsNeedSecondFactor` |
| | `SessionsInv` | the sessions are typed, and those a request must end do end |
| | `OldSessionsGone`, `CodesCounted` | `OldSessionsEnd`, `WrongCodesCounted` |
| `RecordsProofs` | `RecordsStayConsistent`, `ImportsReplace` | `RecordsConsistent`, `ImportReplaces` |
| | `SuperadminRemains`, `AnswersHold` | `SuperadminLostOnlyByRace`, `AnsweredHolds` |
| `TrailProofs` | `TrailIsComplete`, `TrailIsTrue` | `TrailComplete`, `TrailTrue` |
| | `ValuesAreTrue` | `ValuesTrue`, the part of `TrailTrue` about values |
| `ReportsProofs` | `ReportsInvariant` | `ReportsInv`: what is stored, and what each report has read and concluded |
| | `ComparedOnceHolds`, `DecompositionIsExact` | `ComparedOnce`, `DecompositionExact` |
| | `BillsPayAsStated`, `ReportsAlwaysAgree` | `BilledAsStated`, `ReportsAgree` |
| | `PromotionsArePriced`, `FiguresAlwaysAgree` | `PromotionsPriced`, `FiguresAgree` |
| | `ImportsFollowTheFile` | `ImportFollowsFile` |

**Contracts.** `NoOverlap` is not inductive by itself, and neither is the refinement: both
need to know, at COMMIT, what the transaction wrote and that the rows it validated against
are still there. That is `LocksHold`. For every open transaction `Accepted` says that the
request is one the code accepts for the rows *as it loaded them*, and `Writes` says row by row
what has been written so far, and that the committed row under each update still equals the
row loaded. The second is stable because an UPDATE only succeeds if the version is
the one loaded (`Since`: a row is as it was loaded, or has a larger version, or is gone, so an
equal version means an equal row), and because from then on the row is locked, and no two
transactions hold the same row. With that, COMMIT installs exactly what `ContractOps` says of
the committed rows, which is a step of `Timeline`; the exclusion constraint gives the
condition that `Timeline` puts on it; and every other step leaves the committed rows alone.
`LocksHold` and `TypeOK` are proved action by action (`LoadOK`, `UpdateContractOK`, …);
`OthersOK` says once why the requests that do not move are not disturbed. The assumptions: the
constants' types, that initial timelines do not overlap, that ids are numbers from 1,
that markers such as `NoRow` are not rows, and that a create request carries the fields its
binding requires.

What `Contracts` promises its clients draws on one fact: a commit installs what `ContractOps` makes of the rows as they are at
that moment (`CommittedTimeline`), and only the request's own step answers it. That settles the version and the
omitted fields. Pay needs the assumption `RecordedAssumption`: contracts on record could be paid when they were
written, and end after they start. For seams it is shown day by day that the two new rows cover what the old ones did
(`AmendCovers`, `BoundaryCovers`), which needs that the later row of a boundary move does end after it starts (`RowsValid`).

**Sections.** A unique index compares a new row with the table and with what transactions in
progress have written; that two commits in a row keep the table unique needs more: the
advisory lock has one holder (`OneHolder`), only the holder has uncommitted rows, they differ
from the committed ones in the flag alone, those have not changed since, and at its COMMIT it
sees no default but the promoted section (`Writes`). The last is stable only because nobody else
can make a section the default meanwhile: a rename that writes a flag back would have to wait
(`DefaultPending`). `Respects` states this of a step once for all requests, `StepOK` concludes the
invariant from it, and each action is shown to respect the others (`WriteOK` for the three
statements that commit at once). `PromotionSticks` follows: the only step that answers a request
at its COMMIT is that COMMIT (`CommitsNext`). The assumptions: the organization starts from a table
the indexes allow, a create request has a name, `NoSection`, `NoName` and `NoRequest` are not data.

The two promises about promotions hold unless something else is at work, so their invariant `JInv` argues under
that condition. Without renames and deletes (`~Disturbed`) a promotion finds its section live, has seen every
default there is when it clears them, and then sees none (`Succeeding`). Without promotions (`~Promoted`) no
row changes its flag, so what a rename writes back and what a delete has checked are still so (`Flags`).
That a request is never forgotten (`SentStays`) keeps both conditions true of the whole past. A default is
lost only where neither holds. The assumption: an organization starts with a default section (`DefaultAssumption`).

**Audit queue.** No single property of the queue is inductive: that nothing is written after
the database is closed depends on the worker having ended, that depends on the channel being
closed and empty, and that on no request being between its send and its answer. `Stages` ties
all of these to how far `shutdown` has come; `OnePlace` says that an entry is in the buffer, in the
worker's hands or in the table, and in one place only; `Counted` that a drop was
counted as a fallback first. The assumptions: `Buffer` is a number, `Purge` and `NoEntry` are no
requests. `Requests` may be any set, the number of fallbacks in progress is shown to be finite.

**Periods.** The properties of the tables are inductive once each request is known to remember what its
next statement relies on (`Local`): the body is one the service accepts; the period to be written overlaps none of those
the check found (`NoneOverlaps`); the properties a funding update loaded belong to the period it will
save; an import has deleted all that its snapshot showed. `Local` speaks of one request and of nothing that
another one changes, so `StepOK` keeps the others at once. `OneStill` is the argument for overlaps, shared by
`BudgetCorrect` and `AmbiguousOnlyByRaceCorrect`: a step that writes keeps the days apart if the
constraint stands behind it or if what its check found is still what is there. The assumptions: the
routes that exist, the fields their bindings require, and that schedules start with their foreign keys and
the budget constraint in order.

**Logins.** Every step of a request changes at most a few rows, and each row in one of four ways: it is the same, gone,
created under the next id, or it `Evolves` (`RowStep`): what has been stored for it stays, the last accepted step does not go
back but by the enrolment that writes the secret, a backup code does not return. So a code that was accepted is accepted no more (`Spent`), as long as two enrolments
do not write the same factor (`SecretsApart`) and a request knows of the factor it looked up what its next statement
relies on (`Owned`). `Kinds` ties the statement to the kind of request, `RowOK` says that enabled factors have
something to answer with. For `SecondFactorNeeded` it is added that every factor the login saw when it was sent and that is
gone now cannot return (`Listed`): the one statement that looks finds the others.

Sessions come from two statements only, with the next number, and `Newer` says of one that a request which was not over
when the change was sent inserted it. `Ends` follows a change from its write to the revocation, past which no older session is left.
The counter of a pending login equals the number of requests that have counted a wrong code on it (`Counted`, by cardinalities), and
who has reached the limit goes on to delete the row (`Overrun`). The assumptions: what is on record is in order (`RecordAssumption`:
ids below the next one, an enabled factor has its secret), finitely many requests (`ClientAssumption`), and sizes and sentinels.

**Records.** `Base` is the inductive invariant of the tables: a request fits the statement it is at (`Kinds`), ids are below the
next one, and what a request has loaded existed, so that its id will not be given out again. With that a person or an attendance
that comes back by a `Save` comes back as what it was, and `RecordsConsistent` follows from the database's constraints and the cascade.

`ImportReplaces` concerns old contracts, and only an update of the person can bring one back: by saving the contracts it loaded with the
person. `ImportsSafe` follows them: while the import holds the person's lock nobody saves, whatever is on the person and is not in
its snapshot was written by requests that were not over when it was sent, and so was what a request that was sent after the import has loaded.
`SuperadminSafe` is the argument of `countRemaining`: what a request loaded and counted is still true (`Fresh`), or somebody has
written users since it was sent (`Disturbed`), and when it writes too, there were two of them (`Race`).

`AnsweredHolds` is about answers that are long past, and every later step of every request could make one untrue. The
invariant is therefore stronger in three ways. A row of a voucher or a bill is inserted by its request once (`Sources`), so that one that was
removed cannot return. Ids that were given out are not given out again (`Retired`). And the answer is secure against what others have *loaded*:
if a request that was sent after the answer is about to save what would undo it (`Stale`), there is a third one that excuses both. Then each
statement either leaves the answer true, or its request is itself the excuse. The assumptions: what is on record is in
order (`RecordAssumption`), files name a voucher once, and sentinels.

**Trail.** The handlers differ in their steps only, so the first part shows what their programs have in common (`HandlersGood`):
reads come first, at most one change, its entry after it and of the kind that tells of it, and what can fail in between. `Trailing`
keeps this of what is *left* of each program, together with the tables. `Logged` then says of every request what it has done and
said by now: at each stage of its program (`Phase`), which of its changes are on record and which entries must still follow, and
nothing more once it is over (`Settled`). An entry or a change of one request is never another's, so a step has to be
followed for its own request only. `TrailComplete`'s first part is `Settled` read at the end; for the denials, `Counted` ties
the throttle to the requests that passed it: the sum of what the entries carry is the cardinality of a disjoint union.

The values of an entry (`Valued`) are those read before the change or answered by it. What was read is still what the change finds, or
a request that was not over has written the row meanwhile; and when the client stated the version, it is the change that compares:
a row that still has that version has not been written, and no row is ever behind a version that was given.
This needs `VersionAssumption`, that the rows whose versions are stated are contracts, which are neither saved whole nor found by
name in a file: a `Save` writes the version it loaded.
The files of exports (`Filing`) are followed page by page under what may not have happened meanwhile. Without a deletion, the file is as long as
the offset and no longer than the table; without a creation, what is left to read is enough for what was counted; with neither, and
no two rows of the same names, there is one order only, and the file is its beginning. So a file that
is finished is the table, and an export that waits for rows that do not come has met a deletion and a creation. The other
assumptions: ids on record are below the next one (`RecordAssumption`), and `NoRow`, `Missing` and `Waived` are not data (`TrailSentinels`).

**Reports.** All of it is sums over finite sets, of money that is grouped in one way and added up in another. The first part
proves what is needed of them without an induction theorem: a counterexample would have a smallest set (`Fewest`), and that
set less one element is none. `SumFibres` is the lemma behind every later argument: the sum over a set is the sum, over the classes
it falls into, of what each class comes to. With it a comparison differs by what its entries contribute (`ComparisonBalanced`),
an entry is the sum of its pieces (`EntryIsCut`), and adding up the pieces by category or by issue is the same (`SummaryExact`);
the payments of a line come to its sum by the residual that the meal share carries (`RowReconciles`), those of a bill to the header
(`RowsTotal`), and the entries of its comparison to the same, because every row is in one group (`ComparesOnce`).

None of this depends on the reads of one comparison fitting together, which is why it survives the writes in between. The invariant
says only that what was read of each table is a row that table could have had (`Viewed`), that stored bills are old ones or the
conversion of a file that adds up (`Kept`), that a configuration stays a finite table of periods through every import (`ImportTyped`), and that
the months of a report are ascending, so that no two of its comparisons are of one bill (`Compared`).

`ReportsAgree` is about reports that do read one moment. The comparison groups the rows of a bill by child, the history
goes the other way, from a child to the vouchers that are its own to the rows of every bill; both come to the same because a
row is in the group of a child exactly if its voucher is assigned to it (`HistoryCompared`). A child that has no contract in the
month of the bill is in the two reports by different routes, and is taken apart (`FiguresCases`). The list of all children sums what the
history sums, the entries instead of the payments, by the condition that no bill names two vouchers of the child (`TotalsHold`). The
corrections of the year are the one equation between months *of payments* and months *of bills*: all corrections stand in a table with a row for
each bill and a column for each month, the comparisons sum its rows, `AttributedTotals` its columns (`SumSwap`, `AttributedSum`).

`PromotionsPriced` is an argument about rounding. Granting a promotion changes the step of one contract and nothing a period of the
pay plan or the start of service is found by (`RaisedFacts`), so no further step is due then, and the others cost what they cost
(`OthersCost`). The announced rise of the salary is the difference of the two salaries, each rounded once; the employer's share is
rounded from that difference where the expenses round it from both salaries, and the two are within one cent (`SharesClose`). A sum
of differences of at most a cent for those who are due, and of none for the others, is bounded by how many are due (`SumWithin`).

`FiguresAgree` has four arguments. Within a month, the cells of the occupancy and the buckets of the ages are classes of the same set of
children, and its elements are counted class by class (`CountFibres`, `MonthAddsUp`); a child is in one cell at most because
its care type is one and the first band of its age is taken (`OneCell`). Both ages are compared with the birthdays themselves, the n-th being n years of
months after the birth, and not with each other: the distribution counts a child from its birthday, the occupancy from the
first of the next month if the birthday was not over by then (`BirthdaysFollowed`). Between the statistics and the bill, the comparison reaches
the children by their vouchers and their contracts, the income by who is there that month; both find the same ones, and each
child's rate once (`ComparedWithIncome`). Between two forecasts there is a bijection of persons: whoever leaves is taken on under the id next to the
last, with its contracts, the added one among them, numbered anew, so that in each month the new person has a copy of the contract of the old
(`ExtensionIs`, `StaffReplaced`, `ChildrenReplaced`). Whatever is summed over the staff or the children then depends on that copy and not on an id
(`FinancialsExchanged`, `StaffingExchanged`). Which of two bands with the same lower bound counts a child depends on the order of each
forecast; that one of them does, and the lower bound itself, do not (`OccupancyExchanged`), and so the property compares the total, the unmatched and,
for each lower bound and care type, the sum of the cells (`SameOccupancy`, `ForecastsAgree`). The code promises no more: the cells themselves may
differ between two requests on the same data.

`ImportFollowsFile` is an induction along the file, which the provers have only as a least number of periods at which it would fail
(`Smallest`). After n periods (`Follows`) the rows of the starts named so far are as the file has them, the rest of the old rows is untouched
under its own id, and there is one row for each start named or stored. The step needs what a diff of rates does: if keys tell the rates
apart on both sides, the rates of the file and no others are left (`DiffExact`), and a second diff writes nothing (`DiffSame`). That
gives the second import too: every period is found, none differs, and `ok` is not asked again of what does not change
(`ImportAgain`). The property asks for a configuration in order before the import, starts and keys apart and no two periods
at a time (`InOrder`): two requests at once can leave it otherwise (`AmbiguousOnlyByRace`), and the code keeps no two rates of a period
apart, on record or in a file. An import leaves a configuration in order again.

The assumptions: types of the tables on record and of the requests (`ReportAssumption`), finitely many children, that the staff
have ids and that pay plans hold numbers (`StaffAssumption`), that a forecast adds to each child at most one contract, and to the staff what
leaves each one contract at a time (`AddedAssumption`), that staff and children, on record and when written, have one contract at a
time (`OneAtATime`, which is what `Contracts` proves), and that `NoRow` is no number, contract or cost (`ReportSentinels`). Two of the types say more than a type: a payment belongs to one row of its bill, as a foreign key does
(`RowsApart`), and the lines of a bill are about months the model has, since a correction for another month would be in
the comparison and in no column of the year.

Some of the theorems are about definitions that no run lists, because a stronger property of the same module is
checked instead: the `TypeCorrect`s, `LocksProtect`, `UniqueNames`, `NoDuplicateRow`, `ClosedInOrder`.

Only model-checked: the liveness properties `EveryRequestAnswered` (of contracts, sections and periods), `ShutdownTerminates` and
`EntriesSettle`, since liveness under fairness and ENABLED are out of TLAPS's reach. Every invariant and action
property that a passing run checks is stated by a theorem.

## 5. Not modelled, and the plan

Left out of the modules above, component by component:

 * *Contracts:* the `GetCurrentRecord` helpers and lists. *Periods:* renames, amounts, `CalculateSalary`.
   In `Contracts` the pay plan and the funding are the constants `Payable` and `Funding`.
 * *Persons, members:* files with several persons, the fields beside the name, creation of users, e-mail addresses, lists and filters.
 * *Logins:* labels, last-used and sign-count columns, what the lockout windows contain, cryptography.
 * *Vouchers and bills:* the suggestions for unmatched rows. A history, a summary or a statistic that is *read* while
   others write (they read as the comparison does, but nothing relates their parts afterwards).
   `ChildrenBillingSummary` counts a child's calculated rate once for each voucher a bill names of it, which is why
   `TotalsAreHistory` has its condition.
 * *Figures:* the fields that only restate others (contract months, running difference, averages), sections, limits of
   floating-point hours, hours per employee, the distribution of properties, estimates for one person, warnings.
 * *Sheets, funding files:* locating columns, formats of numbers and dates, the surcharges of the facility; labels, decoding of YAML.
   Of the manual bookings the span of months is modelled, the amount of a correction is what the file says.
 * *Trail:* the fields of an entry beside actor, action, rows and values; binding and formatting.

Not modelled at all: the *rate limiter*, a fixed window per address in a map whose every operation is one critical
section of one mutex; the *tables of authorization rules* and the library that evaluates them (the checks on users, memberships
and organizations are in `Members`); `docs/docs.go`, 16,620 generated lines; the seed data; configuration; the *web frontend*. They
keep no state that more than one step touches.

Worth doing next, in this order:

 1. *Periods with contracts:* `Contracts` composed with `Periods`, so that `Payable` and `Funding` change while a contract is
    validated (`service/payplan.go:295`).
 2. *Several persons in one file*, for the deferred constraint at the COMMIT of the outer transaction.

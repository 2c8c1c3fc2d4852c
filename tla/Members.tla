-------------------------------- MODULE Members --------------------------------
(***************************************************************************)
(* Users, organizations and memberships: who may change whom, and the rule  *)
(* that a superadmin who can sign in remains.  Both are decided by reads     *)
(* that come before the write and are not in one transaction with it.        *)
(***************************************************************************)
EXTENDS Requests

CONSTANTS
    Users, Orgs,
    NoRole       \* no membership

Role == {"admin", "manager", "member", "staff"}
User == [super : BOOLEAN, active : BOOLEAN, deleted : BOOLEAN]
ASSUME MemberSentinels == NoRow \notin User /\ NoRole \notin Role

SuperKinds == {"setSuper", "purgeUser", "deleteOrg", "purgeOrg"}   \* RequireSuperAdmin
UserKinds == {"rename", "setActive", "deleteUser"}
MemberKinds == {"addMember", "setRole", "removeMember"}
MemberRequests ==
    [kind : SuperKinds \cup UserKinds \cup MemberKinds \cup {"updateOrg"}, by : Users,
     user : Users, org : Orgs, role : Role, active : BOOLEAN, super : BOOLEAN]

VARIABLES
    users,      \* the table of users
    orgs,       \* "live", "deleted" (soft) or "gone"
    members,    \* the role of each user in each organization
    loaded      \* per request: the user's row as it was loaded

memberTables == <<users, orgs, members>>
memberVars == <<memberTables, loaded>>

LiveUser(u) == users[u] # NoRow /\ ~users[u].deleted
IsSuperAdmin(u) == LiveUser(u) /\ users[u].super
Usable == {u \in Users : IsSuperAdmin(u) /\ users[u].active}
AdminIn(u) == {o \in Orgs : members[u][o] = "admin"}

\* Only an admin role carries the users permissions.
HasPermissionInAnyOrg(u) == IsSuperAdmin(u) \/ AdminIn(u) # {}

Refuse(r, code) == Answer(r, code) /\ UNCHANGED memberTables
Then(r, stage) == Goto(r, stage) /\ UNCHANGED memberTables

---------------------------------------------------------------------------
(* The checks. *)

\* Session and permission, before the handler runs.  A tombstoned organization is
\* noticed only where the route carries it.
Authorize(r) ==
    LET k == q[r]
    IN  /\ pc[r] = "authorize" /\ UNCHANGED loaded
        /\ IF ~LiveUser(k.by) \/ ~users[k.by].active THEN Refuse(r, "unauthorized")
           ELSE IF k.kind \in SuperKinds
           THEN IF ~IsSuperAdmin(k.by) THEN Refuse(r, "forbidden")
                ELSE Then(r, IF k.kind \in {"deleteOrg", "purgeOrg"} THEN "findOrg" ELSE "load")
           ELSE IF k.kind = "updateOrg"
           THEN IF ~IsSuperAdmin(k.by) /\ k.org \notin AdminIn(k.by) THEN Refuse(r, "forbidden")
                ELSE IF orgs[k.org] # "live" THEN Refuse(r, "notFound") ELSE Then(r, "findOrg")
           ELSE IF ~HasPermissionInAnyOrg(k.by) THEN Refuse(r, "forbidden")
           ELSE Then(r, CASE k.kind \in UserKinds -> "verify"
                          [] k.kind = "addMember" -> "load"
                          [] k.kind = "setRole" -> "findMember"
                          [] k.kind = "removeMember" -> "access")

CanModify(by, u) == by = u \/ IsSuperAdmin(by) \/ \E o \in AdminIn(by) : members[u][o] # NoRole
Protected(by, u) == by # u /\ IsSuperAdmin(u) /\ ~IsSuperAdmin(by)

Verify(r) ==
    LET k == q[r]
    IN  /\ pc[r] = "verify" /\ UNCHANGED loaded
        /\ IF k.kind = "deleteUser" /\ k.by = k.user THEN Refuse(r, "badRequest")
           ELSE IF ~CanModify(k.by, k.user) THEN Refuse(r, "notFound")
           ELSE IF Protected(k.by, k.user) THEN Refuse(r, "forbidden")
           ELSE Then(r, "load")

\* What is done to the user would leave no superadmin, unless another is counted.
Removes(k, u) ==
    /\ u.super
    /\ \/ k.kind \in {"deleteUser", "purgeUser"}
       \/ k.kind = "setActive" /\ ~k.active /\ u.active
       \/ k.kind = "setSuper" /\ ~k.super

AfterLoad(k, u) ==
    IF k.kind = "addMember" THEN "access" ELSE IF Removes(k, u) THEN "count" ELSE "write"

\* Purging finds tombstoned users too; the actor's password may be refused first.
Load(r) ==
    LET k == q[r]
        found == users[k.user] # NoRow /\ (k.kind = "purgeUser" \/ ~users[k.user].deleted)
    IN  /\ pc[r] = "load"
        /\ \/ /\ \/ k.kind = "purgeUser" /\ k.by = k.user /\ Refuse(r, "badRequest")
                 \/ ~found /\ Refuse(r, "notFound")
                 \/ k.kind = "setSuper" /\ Refuse(r, "unauthorized")
              /\ UNCHANGED loaded
           \/ /\ found /\ ~(k.kind = "purgeUser" /\ k.by = k.user)
              /\ loaded' = [loaded EXCEPT ![r] = users[k.user]]
              /\ Then(r, AfterLoad(k, users[k.user]))

\* Mutant: superadmins who were deactivated are counted.
CountAll(u) == Cardinality({v \in Users \ {u} : IsSuperAdmin(v)})

CountUsableSuperAdminsExcluding(u) == Cardinality(Usable \ {u})

Count(r) ==
    /\ pc[r] = "count" /\ UNCHANGED loaded
    /\ IF CountUsableSuperAdminsExcluding(q[r].user) = 0 THEN Refuse(r, "badRequest")
       ELSE Then(r, "write")

---------------------------------------------------------------------------
(* Users. *)

\* Save writes every column of the row as loaded; a row that was tombstoned or
\* purged since is inserted again.
Saved(r) ==
    IF q[r].kind = "setActive" THEN [loaded[r] EXCEPT !.active = q[r].active] ELSE loaded[r]

\* Mutant: every column of the request's empty user is saved.
SaveBlank(r) ==
    /\ q[r].kind \in {"rename", "setActive"} /\ Answer(r, "ok") /\ UNCHANGED <<orgs, members>>
    /\ users' = [users EXCEPT ![q[r].user] = [super |-> FALSE, active |-> TRUE, deleted |-> FALSE]]

SaveUser(r) ==
    /\ q[r].kind \in {"rename", "setActive"} /\ Answer(r, "ok") /\ UNCHANGED <<orgs, members>>
    /\ users' = [users EXCEPT ![q[r].user] = Saved(r)]

\* One column of the row, if it is still live.
SetSuperAdmin(r) ==
    /\ q[r].kind = "setSuper" /\ UNCHANGED <<orgs, members>>
    /\ IF LiveUser(q[r].user)
       THEN users' = [users EXCEPT ![q[r].user].super = q[r].super] /\ Answer(r, "ok")
       ELSE UNCHANGED users /\ Answer(r, "error")

DeleteUser(r) ==
    LET u == q[r].user
    IN  /\ q[r].kind = "deleteUser" /\ Answer(r, "ok") /\ UNCHANGED <<orgs, members>>
        /\ users' = IF users[u] = NoRow THEN users ELSE [users EXCEPT ![u].deleted = TRUE]

PurgeUser(r) ==
    LET u == q[r].user
    IN  /\ q[r].kind = "purgeUser" /\ Answer(r, "ok") /\ UNCHANGED orgs
        /\ users' = [users EXCEPT ![u] = NoRow]
        /\ members' = [members EXCEPT ![u] = [o \in Orgs |-> NoRole]]

WriteUser(r) ==
    pc[r] = "write" /\ UNCHANGED loaded
    /\ (SaveUser(r) \/ SetSuperAdmin(r) \/ DeleteUser(r) \/ PurgeUser(r))

---------------------------------------------------------------------------
(* Memberships. *)

FindMembership(r) ==
    /\ pc[r] = "findMember" /\ UNCHANGED loaded
    /\ IF members[q[r].user][q[r].org] = NoRole THEN Refuse(r, "notFound") ELSE Then(r, "access")

OrgAccess(r) ==
    LET k == q[r]
    IN  /\ pc[r] = "access" /\ UNCHANGED loaded
        /\ IF ~IsSuperAdmin(k.by) /\ k.org \notin AdminIn(k.by) THEN Refuse(r, "forbidden")
           ELSE IF k.kind = "setRole" THEN Then(r, "setRole")
           ELSE IF k.kind = "removeMember" /\ ~LiveUser(k.user) THEN Refuse(r, "notFound")
           ELSE Then(r, "exists")

Exists(r) ==
    LET k == q[r]
        member == members[k.user][k.org] # NoRole
    IN  /\ pc[r] = "exists" /\ UNCHANGED loaded
        /\ IF k.kind = "addMember" /\ member THEN Refuse(r, "badRequest")
           ELSE IF k.kind = "removeMember" /\ ~member THEN Refuse(r, "notFound")
           ELSE Then(r, k.kind)

PutRole(r) ==
    /\ members' = [members EXCEPT ![q[r].user][q[r].org] = q[r].role]
    /\ Answer(r, "ok") /\ UNCHANGED <<users, orgs>>

\* The primary key and the foreign keys, which a tombstone satisfies.
AddMember(r) ==
    LET k == q[r]
    IN  /\ pc[r] = "addMember" /\ UNCHANGED loaded
        /\ IF members[k.user][k.org] # NoRole \/ users[k.user] = NoRow \/ orgs[k.org] = "gone"
           THEN Refuse(r, "error") ELSE PutRole(r)

UpdateRole(r) ==
    /\ pc[r] = "setRole" /\ UNCHANGED loaded
    /\ IF members[q[r].user][q[r].org] = NoRole THEN Refuse(r, "error") ELSE PutRole(r)

RemoveMember(r) ==
    /\ pc[r] = "removeMember" /\ UNCHANGED <<loaded, users, orgs>>
    /\ members' = [members EXCEPT ![q[r].user][q[r].org] = NoRole] /\ Answer(r, "ok")

---------------------------------------------------------------------------
(* Organizations. *)

FindOrg(r) ==
    LET o == q[r].org
    IN  /\ pc[r] = "findOrg" /\ UNCHANGED loaded
        /\ IF orgs[o] = "gone" \/ (q[r].kind # "purgeOrg" /\ orgs[o] = "deleted")
           THEN Refuse(r, "notFound") ELSE Then(r, q[r].kind)

\* Save again: a tombstone is lifted, a purged row is back without its members.
UpdateOrg(r) ==
    /\ pc[r] = "updateOrg" /\ UNCHANGED <<loaded, users, members>>
    /\ orgs' = [orgs EXCEPT ![q[r].org] = "live"] /\ Answer(r, "ok")

DeleteOrg(r) ==
    /\ pc[r] = "deleteOrg" /\ UNCHANGED <<loaded, users, members>> /\ Answer(r, "ok")
    /\ orgs' = [orgs EXCEPT ![q[r].org] = IF @ = "gone" THEN @ ELSE "deleted"]

PurgeOrg(r) ==
    /\ pc[r] = "purgeOrg" /\ UNCHANGED <<loaded, users>> /\ Answer(r, "ok")
    /\ orgs' = [orgs EXCEPT ![q[r].org] = "gone"]
    /\ members' = [u \in Users |-> [members[u] EXCEPT ![q[r].org] = NoRole]]

MemberStep(r) ==
    \/ Authorize(r) \/ Verify(r) \/ Load(r) \/ Count(r) \/ WriteUser(r)
    \/ FindMembership(r) \/ OrgAccess(r) \/ Exists(r)
    \/ AddMember(r) \/ UpdateRole(r) \/ RemoveMember(r)
    \/ FindOrg(r) \/ UpdateOrg(r) \/ DeleteOrg(r) \/ PurgeOrg(r)

---------------------------------------------------------------------------

\* Somebody can sign in as a superadmin, unless two requests that overlapped have
\* both written users: each may have counted the other's user, or saved a row that
\* was promoted meanwhile.  No sequence of requests locks the installation out.
SuperadminLostOnlyByRace ==
    Usable = {} => \E r, s \in Reqs :
        /\ Overlap(r, s) /\ resp[r] = "ok" /\ resp[s] = "ok"
        /\ {q[r].kind, q[s].kind} \subseteq {"rename", "setActive", "setSuper", "deleteUser", "purgeUser"}
=============================================================================

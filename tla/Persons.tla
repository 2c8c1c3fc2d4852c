-------------------------------- MODULE Persons --------------------------------
(***************************************************************************)
(* Children or employees and their contracts, as the person endpoints and   *)
(* the import write them.  Contract edits in place are module Contracts'     *)
(* subject; here contracts come and go as rows.  A transaction is one step    *)
(* except the import's, which takes the row lock of the person it matched     *)
(* and whose reads see what other requests commit meanwhile.                 *)
(***************************************************************************)
EXTENDS Requests

CONSTANTS
    Names,        \* first name, last name and birthdate together
    MaxPerson,    \* person ids: 1..MaxPerson
    MaxContract,  \* contract ids: 1..MaxContract
    MaxDay,       \* days: 1..MaxDay
    Seeded        \* what wrote the rows that were there at the start

ASSUME PersonSizes == MaxPerson \in Nat /\ MaxContract \in Nat /\ MaxDay \in Nat
ASSUME PersonSentinels == Seeded \notin Reqs /\ NoRow \notin Names \cup Nat

PersonId == 1..MaxPerson
ContractId == 1..MaxContract
Day == 1..MaxDay

\* "by" is the request that wrote the row.
Contract == [id : ContractId, person : PersonId, from : Day, to : Day, by : Reqs \cup {Seeded}]

PersonKinds == {"createPerson", "updatePerson", "deletePerson",
                "createContract", "deleteContract", "import"}
PersonRequests ==
    [kind : PersonKinds, who : Names, person : PersonId, contract : ContractId,
     from : Day, to : Day, withContract : BOOLEAN]

VARIABLES
    persons,       \* the person with each id
    contracts,     \* the table of contracts
    nextPerson, nextContract,
    target,        \* per request: the person an import matched or created
    preloaded      \* per request: the contracts it loaded, or deletes when it commits

personTables == <<persons, contracts, nextPerson, nextContract>>
personVars == <<personTables, target, preloaded>>

Of(p) == {c \in contracts : c.person = p}
Found(p) == p # NoRow /\ persons[p] # NoRow
Clash(c, S) == \E d \in S : d.id # c.id /\ d.person = c.person /\ c.from <= d.to /\ d.from <= c.to

\* The deferred exclusion constraint, checked when a transaction commits.
Disjoint(S) == \A c \in S : ~Clash(c, S)

\* An open import holds the row of the person and the contracts it deleted.
Importing(s) == pc[s] \in {"importCheck", "importCommit"}
Locked(p) == \E s \in Reqs : Importing(s) /\ target[s] = p
Vanishing == UNION {preloaded[s] : s \in {t \in Reqs : Importing(t)}}

New(r, p) ==
    [id |-> nextContract, person |-> p, from |-> q[r].from, to |-> q[r].to, by |-> r]

PersonReply(r, code) == Answer(r, code) /\ UNCHANGED personTables
PersonGoto(r, stage) == Goto(r, stage) /\ UNCHANGED personTables

---------------------------------------------------------------------------
(* Create, update and delete. *)

\* The person and its first contract commit together.
CreatePerson(r) ==
    /\ pc[r] = "createPerson" /\ nextPerson \in PersonId
    /\ q[r].withContract => nextContract \in ContractId
    /\ Answer(r, "ok") /\ UNCHANGED <<target, preloaded>>
    /\ persons' = [persons EXCEPT ![nextPerson] = q[r].who] /\ nextPerson' = nextPerson + 1
    /\ IF q[r].withContract
       THEN contracts' = contracts \cup {New(r, nextPerson)} /\ nextContract' = nextContract + 1
       ELSE UNCHANGED <<contracts, nextContract>>

\* Mutant: the person is not looked for before it is saved.
LoadAnyPerson(r) ==
    /\ pc[r] = "updatePerson" /\ PersonGoto(r, "savePerson")
    /\ preloaded' = [preloaded EXCEPT ![r] = Of(q[r].person)] /\ UNCHANGED target

\* The person is loaded with its contracts, outside the transaction.
LoadPerson(r) ==
    /\ pc[r] = "updatePerson" /\ UNCHANGED target
    /\ IF ~Found(q[r].person) THEN PersonReply(r, "notFound") /\ UNCHANGED preloaded
       ELSE /\ PersonGoto(r, "savePerson")
            /\ preloaded' = [preloaded EXCEPT ![r] = Of(q[r].person)]

\* Save writes the row, or inserts it when it is gone, and inserts every loaded
\* contract whose id is free.
SavePerson(r) ==
    LET p == q[r].person
        back == {c \in preloaded[r] : \A d \in contracts : d.id # c.id}
    IN  /\ pc[r] = "savePerson" /\ ~Locked(p)
        /\ preloaded' = [preloaded EXCEPT ![r] = {}] /\ UNCHANGED target
        /\ IF ~Disjoint(contracts \cup back) THEN PersonReply(r, "error")
           ELSE /\ persons' = [persons EXCEPT ![p] = q[r].who]
                /\ contracts' = contracts \cup back
                /\ Answer(r, "ok") /\ UNCHANGED <<nextPerson, nextContract>>

DeletePerson(r) ==
    LET p == q[r].person
    IN  /\ pc[r] = "deletePerson" /\ ~Locked(p) /\ UNCHANGED <<target, preloaded>>
        /\ IF ~Found(p) THEN PersonReply(r, "notFound")
           ELSE /\ persons' = [persons EXCEPT ![p] = NoRow]
                /\ contracts' = contracts \ Of(p)
                /\ Answer(r, "ok") /\ UNCHANGED <<nextPerson, nextContract>>

---------------------------------------------------------------------------
(* One contract. *)

CheckContract(r) ==
    /\ pc[r] = "createContract" /\ UNCHANGED <<target, preloaded>>
    /\ IF ~Found(q[r].person) THEN PersonReply(r, "notFound")
       ELSE IF Clash(New(r, q[r].person), contracts) THEN PersonReply(r, "conflict")
       ELSE PersonGoto(r, "insertContract")

\* Mutant: without the exclusion constraint.
InsertUnchecked(r) ==
    LET c == New(r, q[r].person)
    IN  /\ pc[r] = "insertContract" /\ nextContract \in ContractId /\ UNCHANGED <<target, preloaded>>
        /\ IF ~Found(c.person) THEN PersonReply(r, "error")
           ELSE /\ contracts' = contracts \cup {c} /\ nextContract' = nextContract + 1
                /\ Answer(r, "ok") /\ UNCHANGED <<persons, nextPerson>>

\* Waits for an import that deletes a row it clashes with.
InsertContract(r) ==
    LET c == New(r, q[r].person)
    IN  /\ pc[r] = "insertContract" /\ nextContract \in ContractId
        /\ ~Clash(c, Vanishing) /\ UNCHANGED <<target, preloaded>>
        /\ IF ~Found(c.person) THEN PersonReply(r, "error")
           ELSE IF Clash(c, contracts) THEN PersonReply(r, "conflict")
           ELSE /\ contracts' = contracts \cup {c} /\ nextContract' = nextContract + 1
                /\ Answer(r, "ok") /\ UNCHANGED <<persons, nextPerson>>

DeleteContract(r) ==
    LET gone == {c \in contracts : c.id = q[r].contract}
    IN  /\ pc[r] = "deleteContract" /\ gone \cap Vanishing = {} /\ UNCHANGED <<target, preloaded>>
        /\ IF gone = {} THEN PersonReply(r, "notFound")
           ELSE /\ contracts' = contracts \ gone /\ Answer(r, "ok")
                /\ UNCHANGED <<persons, nextPerson, nextContract>>

---------------------------------------------------------------------------
(* Import of one person with one contract. *)

Matches(who) == {p \in PersonId : persons[p] = who}
First(p, S) == p \in S /\ \A o \in S : p <= o

MatchPerson(r) ==
    /\ pc[r] = "import" /\ UNCHANGED preloaded
    /\ IF Matches(q[r].who) = {}
       THEN PersonGoto(r, "importCheck") /\ target' = [target EXCEPT ![r] = NoRow]
       ELSE \E p \in PersonId : First(p, Matches(q[r].who)) /\ PersonGoto(r, "clear") /\ target' = [target EXCEPT ![r] = p]

\* Mutant: only the contracts the file replaces are deleted.
ClearOverlapping(r) ==
    /\ pc[r] = "clear" /\ ~Locked(target[r]) /\ PersonGoto(r, "importCheck")
    /\ preloaded' = [preloaded EXCEPT ![r] =
                       {c \in Of(target[r]) : Clash(c, {New(r, target[r])})}]
    /\ UNCHANGED target

\* Save of the matched row, which takes its lock, and the deletion of its
\* contracts; the row is inserted again when it is gone.
ClearContracts(r) ==
    /\ pc[r] = "clear" /\ ~Locked(target[r]) /\ PersonGoto(r, "importCheck")
    /\ preloaded' = [preloaded EXCEPT ![r] = Of(target[r])] /\ UNCHANGED target

Imported(r) == IF target[r] = NoRow THEN nextPerson ELSE target[r]

CheckImport(r) ==
    /\ pc[r] = "importCheck" /\ UNCHANGED target
    /\ IF Clash(New(r, Imported(r)), contracts \ preloaded[r])
       THEN PersonReply(r, "conflict") /\ preloaded' = [preloaded EXCEPT ![r] = {}]
       ELSE PersonGoto(r, "importCommit") /\ UNCHANGED preloaded

\* The constraint fires at the outer commit, where no handler maps it to a 409.
CommitImport(r) ==
    LET p == Imported(r)
        after == (contracts \ preloaded[r]) \cup {New(r, p)}
    IN  /\ pc[r] = "importCommit" /\ p \in PersonId /\ nextContract \in ContractId
        /\ preloaded' = [preloaded EXCEPT ![r] = {}] /\ target' = [target EXCEPT ![r] = p]
        /\ IF ~Disjoint(after) THEN PersonReply(r, "error")
           ELSE /\ persons' = [persons EXCEPT ![p] = q[r].who] /\ contracts' = after
                /\ nextContract' = nextContract + 1
                /\ nextPerson' = IF target[r] = NoRow THEN nextPerson + 1 ELSE nextPerson
                /\ Answer(r, "ok")

PersonStep(r) ==
    \/ CreatePerson(r) \/ LoadPerson(r) \/ SavePerson(r) \/ DeletePerson(r)
    \/ CheckContract(r) \/ InsertContract(r) \/ DeleteContract(r)
    \/ MatchPerson(r) \/ ClearContracts(r) \/ CheckImport(r) \/ CommitImport(r)

---------------------------------------------------------------------------

PersonsConsistent ==
    /\ Disjoint(contracts)
    /\ \A c \in contracts : Found(c.person)

\* An import that was answered replaced the person's timeline: what is there comes
\* from its file or from a request that was not over when it was sent.  An update of
\* the person that overlapped it may have put back the contracts it had loaded.
ImportReplaces ==
    \A r \in Reqs :
        resp[r] = "ok" /\ q[r].kind = "import" =>
            \A c \in Of(target[r]) :
                \/ c.by \in Reqs \ prior[r]
                \/ \E s \in Reqs : Overlap(r, s) /\ resp[s] = "ok" /\ q[s].kind = "updatePerson"
=============================================================================

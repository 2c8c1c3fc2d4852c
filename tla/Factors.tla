------------------------------- MODULE Factors -------------------------------
(***************************************************************************)
(* The second factors of one user: TOTP apps, security keys and the single *)
(* factor of backup codes, with the requests that enrol, activate, delete  *)
(* and regenerate them.  No operation but the replacement of backup codes  *)
(* is a transaction, so each statement is a step, and a request may stop   *)
(* between two of them.  Logins composes this module with the sessions.    *)
(***************************************************************************)
EXTENDS Integers, FiniteSets

CONSTANTS
    Reqs,             \* in-flight requests
    MaxFactor,        \* factor ids the sequence hands out: 1..MaxFactor
    MaxCode,          \* ids of backup code rows: 1..MaxCode
    BatchSize,        \* backup codes issued together; 10 in the code
    MaxStep,          \* TOTP time steps: 1..MaxStep
    ActivationLimit,  \* FactorActivationFailureLimit
    Passwords, Keys,  \* security keys
    NoKey, NoRow, NoUser, NoCode, NoRequest

Factor == 1..MaxFactor
CodeId == 1..MaxCode
Step == 1..MaxStep
Unused == 0                    \* last_used_step IS NULL
NoSecret == -1                 \* no row in the subtable
TotpSkew == 1

User == [pw : Passwords, active : BOOLEAN, deleted : BOOLEAN]

\* A code names the factor it was made for, and the time step or the code's row.
Code == [factor : Factor, n : Step \cup CodeId]

\* A factor with its subtable rows: "last" is the TOTP secret's last_used_step, or
\* Unused once backup codes have been inserted; "key" is the credential.
FactorRow == [type : {"totp", "webauthn", "backup"}, on : BOOLEAN, fails : Nat,
              challenge : BOOLEAN, last : Step \cup {Unused, NoSecret},
              key : Keys \cup {NoKey}, codes : SUBSET CodeId]

ASSUME FactorSizes ==
    /\ MaxFactor \in Nat /\ MaxCode \in Nat /\ MaxStep \in Nat
    /\ BatchSize \in Nat \ {0} /\ ActivationLimit \in Nat \ {0}
ASSUME FactorSentinels ==
    /\ NoKey \notin Keys /\ NoRow \notin FactorRow /\ NoUser \notin User /\ NoCode \notin Code

VARIABLES
    user,        \* the row of users
    factors,     \* the committed factors
    nextFactor, nextCode,   \* the sequences
    now,         \* the current TOTP time step
    pc, q,       \* per request: its next statement; its body
    seen,        \* the active primary factors it last listed
    fid, old,    \* the factor it has looked up or created; the row as loaded
    used,        \* the code it had accepted
    failed,      \* a statement of it failed and the error was only logged
    resp

factorTables == <<user, factors, nextFactor, nextCode>>
factorLocals == <<q, seen, fid, old, used, failed>>
factorVars == <<factorTables, now, pc, factorLocals, resp>>

Present == {f \in Factor : factors[f] # NoRow}
Active == {f \in Present : factors[f].on}
Primary == {f \in Active : factors[f].type # "backup"}
Backups == {f \in Present : factors[f].type = "backup"}
Without(S) == [f \in Factor |-> IF f \in S THEN NoRow ELSE factors[f]]
UserLive == user # NoUser /\ ~user.deleted

Answer(r, code) == pc' = [pc EXCEPT ![r] = "done"] /\ resp' = [resp EXCEPT ![r] = code]
Reject(r, code) == Answer(r, code) /\ UNCHANGED factorTables
Goto(r, stage) == pc' = [pc EXCEPT ![r] = stage] /\ UNCHANGED resp
Continue(r, stage) == Goto(r, stage) /\ UNCHANGED factorTables

---------------------------------------------------------------------------
(* Step-up: the password, and a code once a primary factor is active. *)

AfterStepUp(k) ==
    CASE k.kind = "enrol" -> "replace"
      [] k.kind = "deleteFactor" -> "delete"
      [] k.kind = "regenerate" -> "regenerate"
      [] k.kind = "verify" -> "consume"

CheckPassword(r) ==
    /\ pc[r] = "password" /\ UNCHANGED factorLocals
    /\ IF ~UserLive THEN Reject(r, "notFound")
       ELSE IF user.pw # q[r].pw THEN Reject(r, "unauthorized")
       ELSE Continue(r, IF q[r].kind = "deleteFactor" THEN "survey" ELSE "stepUp")

\* A deletion reads its factor and lists the active ones first.
Survey(r) ==
    LET f == q[r].factor
    IN  /\ pc[r] = "survey" /\ UNCHANGED <<q, fid, used, failed>>
        /\ IF factors[f] = NoRow THEN Reject(r, "notFound") /\ UNCHANGED <<seen, old>>
           ELSE /\ seen' = [seen EXCEPT ![r] = Primary] /\ old' = [old EXCEPT ![r] = factors[f]]
                /\ Continue(r, IF Primary = {} THEN "delete" ELSE "stepUp")

StepUp(r) ==
    /\ pc[r] = "stepUp" /\ UNCHANGED factorLocals
    /\ IF Primary = {} THEN Continue(r, AfterStepUp(q[r]))
       ELSE IF q[r].code = NoCode THEN Reject(r, "badRequest")
       ELSE Continue(r, "spend")

\* The login goes on to count a wrong code; a step-up ends.
WrongCode(r) ==
    IF q[r].kind = "verify" THEN Continue(r, "bump") ELSE Reject(r, "unauthorized")

\* Mutant: a step that was used is accepted once more.
FreshOrSame(f, n) == n \in now - TotpSkew .. now + TotpSkew /\ factors[f].last # NoSecret
                     /\ factors[f].last <= n

\* The code of step n is in the skew window, and AcceptTOTPStep's compare-and-set
\* finds no step as late.  The compare-and-set decides: a factor that is gone by
\* then has taken its secret along.
Acceptable(f, n) ==
    /\ n \in now - TotpSkew .. now + TotpSkew
    /\ factors[f].last # NoSecret /\ factors[f].last < n

SpendStep(r, c) ==
    /\ factors' = [factors EXCEPT ![c.factor].last = c.n]
    /\ used' = [used EXCEPT ![r] = c]
    /\ UNCHANGED <<user, nextFactor, nextCode>>

\* A code is tried against the factors S: TOTP is decided here, a backup code is
\* found in the list of unused ones and has still to be claimed.
TryCode(r, S) ==
    LET c == q[r].code
        kind == IF c # NoCode /\ c.factor \in S THEN factors[c.factor].type ELSE "none"
    IN  /\ UNCHANGED <<q, seen, fid, old, failed>>
        /\ IF kind = "totp" /\ Acceptable(c.factor, c.n)
           THEN SpendStep(r, c) /\ Goto(r, AfterStepUp(q[r]))
           ELSE /\ UNCHANGED used
                /\ IF kind = "backup" /\ c.n \in factors[c.factor].codes
                   THEN Continue(r, "claim") ELSE WrongCode(r)

Spend(r) == pc[r] = "spend" /\ TryCode(r, Active)

\* Mutant: the UPDATE does not look at used_at.
ClaimAgain(r) ==
    /\ pc[r] = "claim" /\ UNCHANGED <<q, seen, fid, old, failed>>
    /\ used' = [used EXCEPT ![r] = q[r].code]
    /\ Continue(r, AfterStepUp(q[r]))

\* MarkBackupCodeUsed: UPDATE ... WHERE used_at IS NULL.
Claim(r) ==
    LET c == q[r].code
    IN  /\ pc[r] = "claim" /\ UNCHANGED <<q, seen, fid, old, failed>>
        /\ IF factors[c.factor] # NoRow /\ c.n \in factors[c.factor].codes
           THEN /\ factors' = [factors EXCEPT ![c.factor].codes = @ \ {c.n}]
                /\ used' = [used EXCEPT ![r] = c]
                /\ Goto(r, AfterStepUp(q[r])) /\ UNCHANGED <<user, nextFactor, nextCode>>
           ELSE WrongCode(r) /\ UNCHANGED used

---------------------------------------------------------------------------
(* Enrolment. *)

\* A pending factor of the type is replaced: found here, deleted by the next step.
Replace(r) ==
    LET pending == {f \in Present \ Active : factors[f].type = q[r].type}
    IN  /\ pc[r] = "replace" /\ UNCHANGED <<q, seen, old, used, failed>>
        /\ IF pending = {} THEN Continue(r, "create") /\ UNCHANGED fid
           ELSE /\ Continue(r, "dropPending")
                /\ fid' = [fid EXCEPT ![r] = CHOOSE f \in pending : \A g \in pending : f <= g]

\* By id, whether or not the factor has been activated since.
DropPending(r) ==
    /\ pc[r] = "dropPending" /\ factors' = Without({fid[r]})
    /\ Goto(r, "create") /\ UNCHANGED <<user, nextFactor, nextCode, factorLocals>>

NewFactor(type, on) ==
    [type |-> type, on |-> on, fails |-> 0, challenge |-> FALSE,
     last |-> NoSecret, key |-> NoKey, codes |-> {}]

\* The parent row; a user who is gone is refused by the foreign key.
CreateFactor(r) ==
    /\ pc[r] = "create" /\ UNCHANGED <<q, seen, old, used, failed>>
    /\ IF user = NoUser THEN Reject(r, "error") /\ UNCHANGED fid
       ELSE /\ nextFactor \in Factor /\ nextFactor' = nextFactor + 1
            /\ factors' = [factors EXCEPT ![nextFactor] = NewFactor(q[r].type, FALSE)]
            /\ fid' = [fid EXCEPT ![r] = nextFactor]
            /\ Goto(r, "secret") /\ UNCHANGED <<user, nextCode>>

\* The TOTP secret needs its parent; the challenge is an UPDATE that may find no row.
WriteSecret(r) ==
    LET f == fid[r]
    IN  /\ pc[r] = "secret" /\ UNCHANGED factorLocals
        /\ IF factors[f] = NoRow THEN Reject(r, IF q[r].type = "totp" THEN "error" ELSE "ok")
           ELSE /\ factors' = [factors EXCEPT ![f] = IF q[r].type = "totp" THEN [@ EXCEPT !.last = Unused]
                                                     ELSE [@ EXCEPT !.challenge = TRUE]]
                /\ Answer(r, "ok") /\ UNCHANGED <<user, nextFactor, nextCode>>

---------------------------------------------------------------------------
(* Activation. *)

\* Mutant: a security key is enabled without its attestation.
FindUnattested(r) ==
    LET f == q[r].factor
    IN  /\ pc[r] = "find" /\ UNCHANGED <<q, seen, used, failed>>
        /\ IF factors[f] = NoRow THEN Reject(r, "notFound") /\ UNCHANGED <<fid, old>>
           ELSE /\ fid' = [fid EXCEPT ![r] = f] /\ old' = [old EXCEPT ![r] = factors[f]]
                /\ Continue(r, IF factors[f].type = "totp" THEN "prove" ELSE "enable")

FindFactor(r) ==
    LET f == q[r].factor
    IN  /\ pc[r] = "find" /\ UNCHANGED <<q, seen, used, failed>>
        /\ IF factors[f] = NoRow THEN Reject(r, "notFound") /\ UNCHANGED <<fid, old>>
           ELSE IF factors[f].on THEN Reject(r, "conflict") /\ UNCHANGED <<fid, old>>
           ELSE /\ fid' = [fid EXCEPT ![r] = f] /\ old' = [old EXCEPT ![r] = factors[f]]
                /\ Continue(r, IF factors[f].type = "totp" THEN "prove" ELSE "attest")

\* The activation code uses up its step like a login's.
ProveTotp(r) ==
    LET f == fid[r]
        c == q[r].code
    IN  /\ pc[r] = "prove" /\ UNCHANGED <<q, seen, fid, old, failed>>
        /\ IF c # NoCode /\ (factors[f] = NoRow \/ factors[f].last = NoSecret)
           THEN Reject(r, "notFound") /\ UNCHANGED used
           ELSE IF c # NoCode /\ c.factor = f /\ Acceptable(f, c.n)
           THEN SpendStep(r, c) /\ Goto(r, "enable")
           ELSE Continue(r, "countFailure") /\ UNCHANGED used

\* The increment, which leaves active factors alone.
CountFailure(r) ==
    LET f == fid[r]
    IN  /\ pc[r] = "countFailure" /\ UNCHANGED factorLocals
        /\ IF factors[f] = NoRow \/ factors[f].on THEN Reject(r, "unauthorized")
           ELSE /\ factors' = [factors EXCEPT ![f].fails = @ + 1]
                /\ Goto(r, "readFailures") /\ UNCHANGED <<user, nextFactor, nextCode>>

ReadFailures(r) ==
    LET f == fid[r]
    IN  /\ pc[r] = "readFailures" /\ UNCHANGED factorLocals
        /\ IF factors[f] # NoRow /\ factors[f].fails >= ActivationLimit
           THEN Continue(r, "dropLocked") ELSE Reject(r, "unauthorized")

DropLocked(r) ==
    /\ pc[r] = "dropLocked" /\ factors' = Without({fid[r]})
    /\ Answer(r, "tooMany") /\ UNCHANGED <<user, nextFactor, nextCode, factorLocals>>

\* The challenge of the row as loaded; it may have expired, and then the factor goes.
\* Any refusal of the credential's row is answered as a key already registered.
Attest(r) ==
    LET f == fid[r]
        registered == \E g \in Present : factors[g].key = q[r].key
    IN  /\ pc[r] = "attest" /\ UNCHANGED factorLocals
        /\ IF ~old[r].challenge THEN Reject(r, "badRequest")
           ELSE \/ /\ factors' = Without({f})
                   /\ Answer(r, "unauthorized") /\ UNCHANGED <<user, nextFactor, nextCode>>
                \/ ~UserLive /\ Reject(r, "notFound")
                \/ UserLive /\ q[r].key = NoKey /\ Reject(r, "unauthorized")
                \/ /\ UserLive /\ q[r].key # NoKey
                   /\ IF factors[f] = NoRow \/ factors[f].key # NoKey \/ registered
                      THEN Reject(r, "conflict")
                      ELSE /\ factors' = [factors EXCEPT ![f].key = q[r].key]
                           /\ Goto(r, "clearChallenge") /\ UNCHANGED <<user, nextFactor, nextCode>>

ClearChallenge(r) ==
    LET f == fid[r]
    IN  /\ pc[r] = "clearChallenge" /\ UNCHANGED <<user, nextFactor, nextCode, factorLocals>>
        /\ factors' = IF factors[f] = NoRow THEN factors ELSE [factors EXCEPT ![f].challenge = FALSE]
        /\ Goto(r, "enable")

\* Compare-and-set on enabled_at.
Enable(r) ==
    LET f == fid[r]
    IN  /\ pc[r] = "enable" /\ UNCHANGED factorLocals
        /\ IF factors[f] = NoRow \/ factors[f].on THEN Reject(r, "conflict")
           ELSE /\ factors' = [factors EXCEPT ![f].on = TRUE]
                /\ Goto(r, "findBackup") /\ UNCHANGED <<user, nextFactor, nextCode>>

\* Backup codes come with the first primary factor; errors are only logged.
FindBackup(r) ==
    /\ pc[r] = "findBackup" /\ UNCHANGED factorLocals
    /\ IF Backups # {} THEN Reject(r, "ok") ELSE Continue(r, "createBackup")

\* The unique index allows the user one factor of backup codes.
CreateBackup(r) ==
    /\ pc[r] = "createBackup" /\ UNCHANGED <<q, seen, old, used, failed>>
    /\ IF user = NoUser \/ Backups # {} THEN Reject(r, "ok") /\ UNCHANGED fid
       ELSE /\ nextFactor \in Factor /\ nextFactor' = nextFactor + 1
            /\ factors' = [factors EXCEPT ![nextFactor] = NewFactor("backup", TRUE)]
            /\ fid' = [fid EXCEPT ![r] = nextFactor]
            /\ Goto(r, "insertCodes") /\ UNCHANGED <<user, nextCode>>

\* A fresh batch for factor f.
IssueCodes(f) ==
    LET batch == nextCode .. nextCode + BatchSize - 1
    IN  /\ batch \subseteq CodeId /\ nextCode' = nextCode + BatchSize
        /\ factors' = [factors EXCEPT ![f].codes = batch, ![f].last = Unused]
        /\ UNCHANGED <<user, nextFactor>>

InsertCodes(r) ==
    /\ pc[r] = "insertCodes" /\ UNCHANGED factorLocals
    /\ IF factors[fid[r]] = NoRow THEN Reject(r, "ok") ELSE IssueCodes(fid[r]) /\ Answer(r, "ok")

---------------------------------------------------------------------------
(* Deletion, and new backup codes. *)

DeleteFactor(r) ==
    LET f == q[r].factor
        last == old[r].type # "backup" /\ seen[r] \subseteq {f}
    IN  /\ pc[r] = "delete" /\ UNCHANGED factorLocals
        /\ IF factors[f] = NoRow THEN Reject(r, "notFound")
           ELSE /\ factors' = Without({f}) /\ UNCHANGED <<user, nextFactor, nextCode>>
                /\ IF last THEN Goto(r, "sweepFind") ELSE Answer(r, "ok")

\* The backup codes go with the last primary factor.
SweepFind(r) ==
    /\ pc[r] = "sweepFind" /\ UNCHANGED <<q, seen, old, used, failed>>
    /\ IF Backups = {} THEN Reject(r, "ok") /\ UNCHANGED fid
       ELSE Continue(r, "sweep") /\ fid' = [fid EXCEPT ![r] = CHOOSE f \in Backups : TRUE]

Sweep(r) ==
    /\ pc[r] = "sweep" /\ factors' = Without({fid[r]})
    /\ Answer(r, "ok") /\ UNCHANGED <<user, nextFactor, nextCode, factorLocals>>

\* One transaction under the lock of the parent row.
Regenerate(r) ==
    LET f == q[r].factor
    IN  /\ pc[r] = "regenerate" /\ UNCHANGED factorLocals
        /\ IF factors[f] = NoRow THEN Reject(r, "notFound")
           ELSE IF factors[f].type # "backup" THEN Reject(r, "badRequest")
           ELSE IssueCodes(f) /\ Answer(r, "ok")

---------------------------------------------------------------------------

StepUpStep(r) == CheckPassword(r) \/ Survey(r) \/ StepUp(r) \/ Spend(r) \/ Claim(r)
EnrolStep(r) == Replace(r) \/ DropPending(r) \/ CreateFactor(r) \/ WriteSecret(r)
ProveStep(r) ==
    ProveTotp(r) \/ CountFailure(r) \/ ReadFailures(r) \/ DropLocked(r) \/ Attest(r) \/ ClearChallenge(r)
ActivateStep(r) ==
    FindFactor(r) \/ ProveStep(r) \/ Enable(r) \/ FindBackup(r) \/ CreateBackup(r) \/ InsertCodes(r)
DeleteStep(r) == DeleteFactor(r) \/ SweepFind(r) \/ Sweep(r) \/ Regenerate(r)

FactorStep(r) == StepUpStep(r) \/ EnrolStep(r) \/ ActivateStep(r) \/ DeleteStep(r)

\* The hourly job removes factors pending for longer than an hour, so none that a
\* request is still enrolling.
CleanUpFactors ==
    /\ \E S \in (SUBSET (Present \ Active)) \ {{}} :
         /\ \A r \in Reqs : pc[r] = "secret" => fid[r] \notin S
         /\ factors' = Without(S)
    /\ UNCHANGED <<user, nextFactor, nextCode, now, pc, factorLocals, resp>>

Tick ==
    /\ now < MaxStep /\ now' = now + 1
    /\ UNCHANGED <<factorTables, pc, factorLocals, resp>>

---------------------------------------------------------------------------
(* Properties. *)

\* A code lets one request through: whichever logins, activations and step-ups are
\* given the same TOTP or backup code, at once or one after the other, at most one
\* of them has it accepted.
CodesSpentOnce == \A r, s \in Reqs : r # s /\ used[r] # NoCode => used[r] # used[s]

\* An active factor can be used: its secret or credential is there, and the backup
\* codes too unless the request that creates them is on its way or was stopped.
ActiveFactorsUsable ==
    \A f \in Active :
        CASE factors[f].type = "webauthn" -> factors[f].key # NoKey
          [] factors[f].type = "totp" -> factors[f].last # NoSecret
          [] OTHER -> \/ factors[f].last # NoSecret
                      \/ \E r \in Reqs : fid[r] = f /\ (pc[r] = "insertCodes" \/ resp[r] = "error")
=============================================================================

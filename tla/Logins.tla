-------------------------------- MODULE Logins --------------------------------
(***************************************************************************)
(* Sessions of one user: login with password and second factor, the check  *)
(* of the session in front of every other request, logout, revocation, the *)
(* change of the password, and what an administrator does to the account.  *)
(* The factor requests of module Factors run behind the same check.        *)
(* Statements of different requests interleave; the lockouts count entries *)
(* of the asynchronous audit log and may refuse at any time.               *)
(***************************************************************************)
EXTENDS Factors

CONSTANTS
    MaxToken,        \* session tokens handed out: 1..MaxToken
    MaxNonce,        \* WebAuthn challenges: 1..MaxNonce
    ChallengeLimit,  \* MFAChallengeFailureLimit
    Scenarios,       \* tables to start from, with the requests each client may send
    NoReq

Token == 1..MaxToken
Nonce == 0..MaxNonce               \* 0: challenge_nonce IS NULL

FactorKinds == {"enrol", "activate", "deleteFactor", "regenerate"}
SelfKinds == FactorKinds \cup {"logout", "revoke", "change"}      \* behind RequireAuth
AdminKinds == {"reset", "setActive", "delete", "purge"}           \* on another session
LoginKinds == {"login", "verify", "challenge"}                    \* without one

Request == [kind : SelfKinds \cup AdminKinds \cup LoginKinds,
            token : Token,                 \* the session or pending token presented
            pw : Passwords, newPw : Passwords, active : BOOLEAN,
            factor : Factor, type : {"totp", "webauthn"}, code : Code \cup {NoCode},
            key : Keys \cup {NoKey}, nonce : Nonce,   \* the assertion's challenge
            target : Token]                \* the session to revoke

\* "by" is the request that issued the session.
Session == [kind : {"regular", "pending"}, expired : BOOLEAN, fails : Nat,
            nonce : Nonce, by : Reqs \cup {NoReq}]

ASSUME ClientAssumption == IsFiniteSet(Reqs)
ASSUME LoginSizes == MaxToken \in Nat /\ MaxNonce \in Nat /\ ChallengeLimit \in Nat \ {0}
ASSUME LoginSentinels == NoRow \notin Session /\ NoReq \notin Reqs
ASSUME ScenarioAssumption ==
    \A c \in Scenarios :
        /\ c.user \in User \cup {NoUser} /\ c.menu \in [Reqs -> SUBSET Request]
        /\ c.factors \in [Factor -> FactorRow \cup {NoRow}]
        /\ c.sessions \in [Token -> Session \cup {NoRow}]
        /\ c.nextFactor \in 1..(MaxFactor + 1) /\ c.nextCode \in 1..(MaxCode + 1)
        /\ c.nextToken \in 1..(MaxToken + 1)

\* What is on record: rows have ids that were handed out, backup codes belong to the factor
\* of backup codes, which is active from the start, active factors have their subtable rows,
\* and no session is of a request yet to come.
ASSUME RecordAssumption ==
    \A c \in Scenarios :
        /\ \A f \in Factor : c.factors[f] # NoRow =>
             LET x == c.factors[f]
             IN  /\ f < c.nextFactor /\ \A n \in x.codes : x.type = "backup" /\ n < c.nextCode
                 /\ x.type = "backup" => x.on
                 /\ x.on => IF x.type = "webauthn" THEN x.key # NoKey ELSE x.last # NoSecret
        /\ \A t \in Token : c.sessions[t] # NoRow =>
             t < c.nextToken /\ c.sessions[t].by = NoReq /\ c.sessions[t].fails = 0

VARIABLES
    menu,        \* what each client may send
    sessions, nextToken, nextNonce,
    loaded,      \* the user's row as the request loaded it
    noted,       \* the pending row's challenge as the request loaded it
    bumped,      \* what its increment of the failure counter returned
    plan,        \* the answer that follows the deletion of a pending row
    prior        \* the requests that were over when this one was sent

sessionTables == <<sessions, nextToken, nextNonce>>
loginLocals == <<loaded, noted, bumped, plan, prior>>
vars == <<factorVars, menu, sessionTables, loginLocals>>

Live == {t \in Token : sessions[t] # NoRow}
Drop(S) == sessions' = [t \in Token |-> IF t \in S THEN NoRow ELSE sessions[t]]
FactorsKept == UNCHANGED <<factorTables, now, seen, fid, old, used, q>>

Refuse(r, code) == Answer(r, code) /\ UNCHANGED <<factorTables, sessionTables>>
Pass(r, stage) == Goto(r, stage) /\ UNCHANGED <<factorTables, sessionTables>>

\* A row that satisfies the lookup of this kind: unexpired, the user not tombstoned.
Usable(t, kind) ==
    sessions[t] # NoRow /\ sessions[t].kind = kind /\ ~sessions[t].expired /\ UserLive

---------------------------------------------------------------------------
(* Sending, and the session check. *)

FirstStage(k) ==
    CASE k.kind \in {"enrol", "deleteFactor", "regenerate"} -> "password"
      [] k.kind = "activate" -> "find"
      [] k.kind = "change" -> "compare"
      [] k.kind \in AdminKinds -> "target"
      [] k.kind \in {"verify", "challenge"} -> "lookup"
      [] OTHER -> k.kind                   \* login, logout, revoke

Send(r) ==
    /\ pc[r] = "idle"
    /\ \E k \in menu[r] :
         /\ q' = [q EXCEPT ![r] = k]
         /\ Pass(r, IF k.kind \in SelfKinds THEN "auth" ELSE FirstStage(k))
    /\ prior' = [prior EXCEPT ![r] = {s \in Reqs : pc[s] = "done"}]
    /\ seen' = [seen EXCEPT ![r] = Primary]
    /\ UNCHANGED <<now, fid, old, used, failed, loaded, noted, bumped, plan>>

\* An inactive user's session is refused and pruned.
RequireAuth(r) ==
    LET t == q[r].token
    IN  /\ pc[r] = "auth" /\ FactorsKept /\ UNCHANGED <<sessionTables, failed, loginLocals>>
        /\ IF ~Usable(t, "regular") THEN Answer(r, "unauthorized")
           ELSE IF ~user.active THEN Goto(r, "prune")
           ELSE Goto(r, FirstStage(q[r]))

Prune(r) ==
    /\ pc[r] = "prune" /\ FactorsKept /\ UNCHANGED <<nextToken, nextNonce, failed, loginLocals>>
    /\ Drop({q[r].token}) /\ Answer(r, "unauthorized")

---------------------------------------------------------------------------
(* Login. *)

NewSession(r, kind) ==
    [kind |-> kind, expired |-> FALSE, fails |-> 0, nonce |-> 0, by |-> r]

Insert(r, kind) ==
    /\ nextToken \in Token /\ nextToken' = nextToken + 1
    /\ sessions' = [sessions EXCEPT ![nextToken] = NewSession(r, kind)]
    /\ UNCHANGED nextNonce

\* Email lookup, which misses tombstoned users; the lockout; the password.
Login(r) ==
    /\ pc[r] = "login" /\ FactorsKept /\ UNCHANGED <<sessionTables, failed, loginLocals>>
    /\ \/ Answer(r, "tooMany")
       \/ IF UserLive /\ user.active /\ user.pw = q[r].pw
          THEN Goto(r, "primary") ELSE Answer(r, "unauthorized")

\* Mutant: security keys are not looked at.
TotpOnly(r) ==
    /\ pc[r] = "primary" /\ FactorsKept /\ UNCHANGED <<sessionTables, failed, loginLocals>>
    /\ Goto(r, IF \E f \in Active : factors[f].type = "totp" THEN "pend" ELSE "issue")

HasActivePrimaryFactor(r) ==
    /\ pc[r] = "primary" /\ FactorsKept /\ UNCHANGED <<sessionTables, failed, loginLocals>>
    /\ Goto(r, IF Primary # {} THEN "pend" ELSE "issue")

IssuePending(r) ==
    /\ pc[r] = "pend" /\ FactorsKept /\ UNCHANGED <<failed, loginLocals>>
    /\ IF user = NoUser THEN Refuse(r, "error") ELSE Insert(r, "pending") /\ Answer(r, "mfa")

\* The foreign key needs the user's row, be it inactive or tombstoned.
IssueSession(r) ==
    /\ pc[r] = "issue" /\ FactorsKept /\ UNCHANGED <<failed, loginLocals>>
    /\ IF user = NoUser THEN Refuse(r, "error") ELSE Insert(r, "regular") /\ Answer(r, "ok")

Lookup(r) ==
    LET t == q[r].token
    IN  /\ pc[r] = "lookup" /\ FactorsKept /\ UNCHANGED <<sessionTables, failed, loaded, bumped, prior>>
        /\ IF ~Usable(t, "pending") THEN Answer(r, "unauthorized") /\ UNCHANGED <<noted, plan>>
           ELSE /\ noted' = [noted EXCEPT ![r] = sessions[t].nonce]
                /\ IF ~user.active
                   THEN Goto(r, "dropPending_") /\ plan' = [plan EXCEPT ![r] = "unauthorized"]
                   ELSE IF q[r].kind = "challenge" THEN Goto(r, "options") /\ UNCHANGED plan
                   ELSE \/ Goto(r, "dispatch") /\ UNCHANGED plan
                        \/ Goto(r, "dropPending_") /\ plan' = [plan EXCEPT ![r] = "tooMany"]

\* The assertion fits the challenge and the claimed factor's credential.  An
\* unknown or inactive factor counts as a wrong code.
VerifyFactor(r) ==
    LET f == q[r].factor
    IN  /\ pc[r] = "dispatch" /\ UNCHANGED <<now, sessionTables, loginLocals>>
        /\ IF f \notin Active THEN Continue(r, "bump") /\ UNCHANGED factorLocals
           ELSE IF factors[f].type # "webauthn" THEN TryCode(r, {f})
           ELSE /\ UNCHANGED factorLocals
                /\ IF noted[r] = 0 THEN Reject(r, "badRequest")
                   ELSE IF ~UserLive THEN Continue(r, "bump")
                   ELSE Continue(r, IF q[r].nonce = noted[r] /\ q[r].key = factors[f].key
                                    THEN "consume" ELSE "bump")

\* Mutant: the counter is written from the value before another request's increment.
LosingBump(r) ==
    LET t == q[r].token
    IN  /\ pc[r] = "bump" /\ FactorsKept
        /\ UNCHANGED <<nextToken, nextNonce, failed, loaded, noted, prior>>
        /\ IF sessions[t] = NoRow THEN Answer(r, "unauthorized") /\ UNCHANGED <<sessions, bumped, plan>>
           ELSE /\ sessions' = [sessions EXCEPT ![t].fails = 1]
                /\ bumped' = [bumped EXCEPT ![r] = 1]
                /\ Answer(r, "unauthorized") /\ UNCHANGED plan

\* UPDATE ... RETURNING, on an unexpired pending row.
Bump(r) ==
    LET t == q[r].token
        n == sessions[t].fails + 1
    IN  /\ pc[r] = "bump" /\ FactorsKept
        /\ UNCHANGED <<nextToken, nextNonce, failed, loaded, noted, prior>>
        /\ IF sessions[t] = NoRow \/ sessions[t].expired
           THEN Answer(r, "unauthorized") /\ UNCHANGED <<sessions, bumped, plan>>
           ELSE /\ sessions' = [sessions EXCEPT ![t].fails = n]
                /\ bumped' = [bumped EXCEPT ![r] = n]
                /\ IF n >= ChallengeLimit
                   THEN Goto(r, "dropPending_") /\ plan' = [plan EXCEPT ![r] = "tooMany"]
                   ELSE Answer(r, "unauthorized") /\ UNCHANGED plan

\* Errors of a deletion that only tidies up are logged at most.
Attempted(r, S) ==
    /\ \/ Drop(S) /\ UNCHANGED failed
       \/ UNCHANGED sessions /\ failed' = [failed EXCEPT ![r] = TRUE]
    /\ UNCHANGED <<nextToken, nextNonce>>

DropPendingSession(r) ==
    /\ pc[r] = "dropPending_" /\ FactorsKept /\ UNCHANGED loginLocals
    /\ Attempted(r, {q[r].token}) /\ Answer(r, plan[r])

\* The code was right; that the row is still there is not checked.
Consume(r) ==
    /\ pc[r] = "consume" /\ FactorsKept /\ UNCHANGED loginLocals
    /\ Attempted(r, {q[r].token}) /\ Goto(r, "issue")

Options(r) ==
    LET f == q[r].factor
    IN  /\ pc[r] = "options" /\ FactorsKept /\ UNCHANGED <<sessionTables, failed, loginLocals>>
        /\ IF factors[f] = NoRow \/ ~UserLive THEN Answer(r, "notFound")
           ELSE IF f \in Active /\ factors[f].type = "webauthn" THEN Goto(r, "setNonce")
           ELSE Answer(r, "badRequest")

\* A new challenge replaces the last one, on an expired row too.
SetPendingMFAChallenge(r) ==
    LET t == q[r].token
    IN  /\ pc[r] = "setNonce" /\ FactorsKept /\ UNCHANGED <<nextToken, failed, loginLocals>>
        /\ IF sessions[t] = NoRow THEN Answer(r, "error") /\ UNCHANGED <<sessions, nextNonce>>
           ELSE /\ nextNonce \in Nonce /\ nextNonce' = nextNonce + 1
                /\ sessions' = [sessions EXCEPT ![t].nonce = nextNonce] /\ Answer(r, "ok")

---------------------------------------------------------------------------
(* Ending sessions, and the password. *)

Logout(r) ==
    /\ pc[r] = "logout" /\ FactorsKept /\ UNCHANGED <<nextToken, nextNonce, failed, loginLocals>>
    /\ Drop({q[r].token}) /\ Answer(r, "ok")

RevokeSession(r) ==
    /\ pc[r] = "revoke" /\ FactorsKept /\ UNCHANGED <<nextToken, nextNonce, failed, loginLocals>>
    /\ Drop({q[r].target})
    /\ Answer(r, IF sessions[q[r].target] = NoRow THEN "notFound" ELSE "ok")

\* The row is loaded, and the lockout and the current password decide.
ComparePassword(r) ==
    /\ pc[r] = "compare" /\ FactorsKept /\ UNCHANGED <<sessionTables, failed, noted, bumped, plan, prior>>
    /\ loaded' = [loaded EXCEPT ![r] = user]
    /\ IF ~UserLive THEN Answer(r, "notFound")
       ELSE \/ Answer(r, "tooMany")
            \/ IF user.pw = q[r].pw THEN Goto(r, "save") ELSE Answer(r, "unauthorized")

\* The administrator's own checks may refuse; purging finds tombstoned users too.
LoadTarget(r) ==
    /\ pc[r] = "target" /\ FactorsKept /\ UNCHANGED <<sessionTables, failed, noted, bumped, plan, prior>>
    /\ loaded' = [loaded EXCEPT ![r] = user]
    /\ \/ Answer(r, "forbidden")
       \/ IF user = NoUser \/ (user.deleted /\ q[r].kind # "purge") THEN Answer(r, "notFound")
          ELSE Goto(r, CASE q[r].kind = "delete" -> "tombstone" [] q[r].kind = "purge" -> "purge"
                         [] OTHER -> "save")

Changes(r) ==
    IF q[r].kind = "setActive" THEN [loaded[r] EXCEPT !.active = q[r].active]
    ELSE [loaded[r] EXCEPT !.pw = q[r].newPw]

\* gorm's Save writes every column of the row as loaded, and puts back a row that
\* was deleted since.
SaveUser(r) ==
    /\ pc[r] = "save" /\ UNCHANGED <<factors, nextFactor, nextCode, now, factorLocals, sessionTables, loginLocals>>
    /\ user' = Changes(r)
    /\ CASE q[r].kind = "change" -> Goto(r, "revokeOthers")
         [] q[r].kind = "setActive" /\ (q[r].active \/ ~loaded[r].active) -> Answer(r, "ok")
         [] OTHER -> Goto(r, "revokeAll")

\* Mutant: the caller's own session is kept.
RevokeOthersOnly(r) ==
    /\ pc[r] = "revokeOthers" /\ FactorsKept /\ UNCHANGED loginLocals
    /\ Attempted(r, Token \ {q[r].token}) /\ Goto(r, "issue")

\* A failed revocation is logged, and the change of the password succeeds.
RevokeOthers(r) ==
    /\ pc[r] = "revokeOthers" /\ FactorsKept /\ UNCHANGED loginLocals
    /\ Attempted(r, Token \ {q[r].token}) /\ Goto(r, "rotate")

Rotate(r) ==
    /\ pc[r] = "rotate" /\ FactorsKept /\ UNCHANGED loginLocals
    /\ Attempted(r, {q[r].token}) /\ Goto(r, "issue")

\* After a reset a failed revocation is answered; after the rest it is logged.
RevokeAll(r) ==
    /\ pc[r] = "revokeAll" /\ FactorsKept /\ UNCHANGED loginLocals
    /\ Attempted(r, Token)
    /\ Answer(r, IF q[r].kind = "reset" /\ failed'[r] THEN "error" ELSE "ok")

Tombstone(r) ==
    /\ pc[r] = "tombstone"
    /\ UNCHANGED <<factors, nextFactor, nextCode, now, factorLocals, sessionTables, loginLocals>>
    /\ user' = IF user = NoUser THEN user ELSE [user EXCEPT !.deleted = TRUE]
    /\ Goto(r, "revokeAll")

\* The foreign keys cascade to sessions and factors.
Purge(r) ==
    /\ pc[r] = "purge" /\ UNCHANGED <<nextFactor, nextCode, now, factorLocals, nextToken, nextNonce, loginLocals>>
    /\ user' = NoUser /\ factors' = Without(Factor) /\ Drop(Token) /\ Answer(r, "ok")

---------------------------------------------------------------------------

Init ==
    /\ \E c \in Scenarios :
         /\ menu = c.menu /\ user = c.user /\ factors = c.factors /\ sessions = c.sessions
         /\ nextFactor = c.nextFactor /\ nextCode = c.nextCode /\ nextToken = c.nextToken
    /\ now = 1 /\ nextNonce = 1
    /\ pc = [r \in Reqs |-> "idle"] /\ q = [r \in Reqs |-> NoRequest]
    /\ resp = [r \in Reqs |-> "none"]
    /\ seen = [r \in Reqs |-> {}] /\ prior = [r \in Reqs |-> {}]
    /\ fid = [r \in Reqs |-> 0] /\ old = [r \in Reqs |-> NoRow]
    /\ used = [r \in Reqs |-> NoCode] /\ failed = [r \in Reqs |-> FALSE]
    /\ loaded = [r \in Reqs |-> NoUser] /\ noted = [r \in Reqs |-> 0]
    /\ bumped = [r \in Reqs |-> 0] /\ plan = [r \in Reqs |-> "none"]

LoginStep(r) ==
    Login(r) \/ HasActivePrimaryFactor(r) \/ IssuePending(r) \/ IssueSession(r)
ChallengeStep(r) ==
    \/ Lookup(r) \/ VerifyFactor(r) \/ Bump(r) \/ DropPendingSession(r) \/ Consume(r)
    \/ Options(r) \/ SetPendingMFAChallenge(r)
SessionStep(r) ==
    RequireAuth(r) \/ Prune(r) \/ Logout(r) \/ RevokeSession(r)
AccountStep(r) ==
    \/ ComparePassword(r) \/ LoadTarget(r) \/ SaveUser(r) \/ RevokeOthers(r) \/ Rotate(r)
    \/ RevokeAll(r) \/ Tombstone(r) \/ Purge(r)

Serve(r) ==
    /\ \/ FactorStep(r) /\ UNCHANGED <<now, sessionTables, loginLocals>>
       \/ LoginStep(r) \/ ChallengeStep(r) \/ SessionStep(r) \/ AccountStep(r)
    /\ UNCHANGED menu

\* The client goes away or the request's deadline passes between two statements.
Interrupted(r) ==
    /\ pc[r] \notin {"idle", "done"} /\ Refuse(r, "error")
    /\ UNCHANGED <<now, factorLocals, loginLocals>>

Expire(t) ==
    /\ t \in Live /\ ~sessions[t].expired
    /\ sessions' = [sessions EXCEPT ![t].expired = TRUE]
    /\ UNCHANGED <<factorVars, nextToken, nextNonce, loginLocals>>

\* The hourly job deletes expired sessions of either kind.
CleanUpSessions ==
    /\ \E t \in Live : sessions[t].expired
    /\ Drop({t \in Live : sessions[t].expired})
    /\ UNCHANGED <<factorVars, nextToken, nextNonce, loginLocals>>

Finished == (\A r \in Reqs : pc[r] = "done" \/ (pc[r] = "idle" /\ menu[r] = {})) /\ UNCHANGED vars

Next ==
    \/ \E r \in Reqs : (Send(r) /\ UNCHANGED menu) \/ Serve(r) \/ (Interrupted(r) /\ UNCHANGED menu)
    \/ UNCHANGED menu /\ (CleanUpSessions \/ \E t \in Token : Expire(t))
    \/ UNCHANGED <<menu, sessionTables, loginLocals>> /\ (Tick \/ CleanUpFactors)
    \/ Finished

Spec == Init /\ [][Next]_vars

---------------------------------------------------------------------------
(* Properties. *)

\* Every wrong code given for a pending login is counted, however many requests try
\* at once, and a row that has reached the limit is about to be deleted, unless
\* that deletion failed or its request was stopped.
WrongCodesCounted ==
    \A t \in Live : sessions[t].kind = "pending" =>
        LET tries == {r \in Reqs : bumped[r] > 0 /\ q[r].token = t}
        IN  /\ sessions[t].fails = Cardinality(tries)
            /\ sessions[t].fails >= ChallengeLimit =>
                 \E r \in tries : /\ bumped[r] >= ChallengeLimit
                                  /\ pc[r] = "dropPending_" \/ resp[r] = "error" \/ failed[r]

\* Once a change or reset of the password, a deactivation or a deletion has been
\* answered, the user has no session older than that request, unless a revocation
\* failed: a login that overlaps it may still leave one, no earlier request does.
EndsSessions(s) ==
    /\ resp[s] = "ok" /\ ~failed[s]
    /\ \/ q[s].kind \in {"change", "reset", "delete"}
       \/ q[s].kind = "setActive" /\ ~q[s].active /\ loaded[s].active
OldSessionsEnd ==
    \A s \in Reqs : EndsSessions(s) =>
        \A t \in Live : sessions[t].by # NoReq /\ sessions[t].by \notin prior[s]

\* A login is answered with a session on the password alone only if every primary
\* factor that was active when it was sent has gone: a factor removed and another
\* enrolled meanwhile do not matter, one that stays active does.
LoginsNeedSecondFactor ==
    \A r \in Reqs :
        q[r] # NoRequest /\ q[r].kind = "login" /\ (pc[r] = "issue" \/ resp[r] = "ok")
        => seen[r] \cap Primary = {}
=============================================================================

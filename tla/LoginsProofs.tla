----------------------------- MODULE LoginsProofs -----------------------------
(***************************************************************************)
(* Theorems about Logins and Factors, for every number of clients, factors,  *)
(* codes and sessions.                                                       *)
(***************************************************************************)
EXTENDS Logins, FiniteSetTheorems, TLAPS

FRow == [type : {"totp", "webauthn", "backup"}, on : BOOLEAN, fails : Nat,
         challenge : BOOLEAN, last : Int, key : Keys \cup {NoKey}, codes : SUBSET Int]

LocalsKnown ==
    /\ DOMAIN pc = Reqs /\ DOMAIN q = Reqs /\ DOMAIN seen = Reqs /\ DOMAIN fid = Reqs
    /\ DOMAIN old = Reqs /\ DOMAIN used = Reqs /\ DOMAIN failed = Reqs /\ DOMAIN resp = Reqs
    /\ DOMAIN loaded = Reqs /\ DOMAIN noted = Reqs /\ DOMAIN bumped = Reqs
    /\ DOMAIN plan = Reqs /\ DOMAIN prior = Reqs

\* The types of the tables; the locals are known for the requests there are.
FTypes ==
    /\ factors \in [Factor -> FRow \cup {NoRow}]
    /\ nextFactor \in Nat /\ nextCode \in Nat /\ now \in Nat
    /\ \A r \in Reqs : menu[r] \subseteq Request
    /\ LocalsKnown

\* A step of a request, to its end if the client goes away.
Act(r) == Send(r) \/ Serve(r) \/ Interrupted(r)

\* A step of r moves r alone.
Moves(r) ==
    \A s \in Reqs \ {r} :
        /\ pc'[s] = pc[s] /\ q'[s] = q[s] /\ seen'[s] = seen[s] /\ fid'[s] = fid[s]
        /\ old'[s] = old[s] /\ used'[s] = used[s] /\ failed'[s] = failed[s] /\ resp'[s] = resp[s]
        /\ loaded'[s] = loaded[s] /\ noted'[s] = noted[s] /\ bumped'[s] = bumped[s]
        /\ plan'[s] = plan[s] /\ prior'[s] = prior[s]

\* Every step of a request answers it or goes on to its next statement.
LEMMA AnswersOrGoes ==
    ASSUME NEW r \in Reqs, Act(r)
    PROVE  \E v : Answer(r, v) \/ Goto(r, v)
<1>1. CASE Send(r) \/ Interrupted(r)
  BY <1>1 DEF Send, Interrupted, Pass, Refuse
<1>2. ASSUME NEW S, TryCode(r, S) PROVE \E v : Answer(r, v) \/ Goto(r, v)
  BY <1>2 DEF TryCode, WrongCode, Reject, Continue
<1>3. CASE StepUpStep(r)
  BY <1>2, <1>3 DEF StepUpStep, CheckPassword, Survey, StepUp, Spend, Claim, WrongCode, Reject, Continue
<1>4. CASE EnrolStep(r)
  BY <1>4 DEF EnrolStep, Replace, DropPending, CreateFactor, WriteSecret, Reject, Continue
<1>5. CASE ActivateStep(r)
  BY <1>5 DEF ActivateStep, ProveStep, FindFactor, ProveTotp, CountFailure, ReadFailures, DropLocked, Attest,
              ClearChallenge, Enable, FindBackup, CreateBackup, InsertCodes, Reject, Continue
<1>6. CASE DeleteStep(r)
  BY <1>6 DEF DeleteStep, DeleteFactor, SweepFind, Sweep, Regenerate, Reject, Continue
<1>7. CASE LoginStep(r) \/ SessionStep(r)
  BY <1>7 DEF LoginStep, SessionStep, Login, HasActivePrimaryFactor, IssuePending, IssueSession, RequireAuth,
              Prune, Logout, RevokeSession, Refuse
<1>8. CASE ChallengeStep(r)
  BY <1>2, <1>8 DEF ChallengeStep, Lookup, VerifyFactor, Bump, DropPendingSession, Consume, Options,
                    SetPendingMFAChallenge, Reject, Continue
<1>9. CASE AccountStep(r)
  BY <1>9 DEF AccountStep, ComparePassword, LoadTarget, SaveUser, RevokeOthers, Rotate, RevokeAll, Tombstone, Purge
<1> QED  BY <1>1, <1>3, <1>4, <1>5, <1>6, <1>7, <1>8, <1>9 DEF Act, Serve, FactorStep

\* The locals of the factor requests, one request at a time.
LEMMA FactorLocals ==
    ASSUME LocalsKnown, NEW r \in Reqs, FactorStep(r) \/ ChallengeStep(r)
    PROVE  /\ q' = q
           /\ DOMAIN fid' = Reqs /\ DOMAIN old' = Reqs /\ DOMAIN used' = Reqs /\ DOMAIN seen' = Reqs
           /\ DOMAIN failed' = Reqs
           /\ \A s \in Reqs \ {r} :
                /\ fid'[s] = fid[s] /\ old'[s] = old[s] /\ used'[s] = used[s] /\ seen'[s] = seen[s]
                /\ failed'[s] = failed[s]
<1>1. CASE StepUpStep(r)
  BY <1>1 DEF StepUpStep, CheckPassword, Survey, StepUp, Spend, Claim, WrongCode, Reject, Continue,
              TryCode, SpendStep, LocalsKnown, factorLocals
<1>2. CASE EnrolStep(r)
  BY <1>2 DEF EnrolStep, Replace, DropPending, CreateFactor, WriteSecret, LocalsKnown, factorLocals
<1>3. CASE ActivateStep(r)
  BY <1>3 DEF ActivateStep, ProveStep, FindFactor, ProveTotp, CountFailure, ReadFailures, DropLocked, Attest,
              ClearChallenge, Enable, FindBackup, CreateBackup, InsertCodes, SpendStep, LocalsKnown, factorLocals
<1>4. CASE DeleteStep(r)
  BY <1>4 DEF DeleteStep, DeleteFactor, SweepFind, Sweep, Regenerate, LocalsKnown, factorLocals
<1>5. CASE ChallengeStep(r)
  BY <1>5 DEF ChallengeStep, Lookup, VerifyFactor, Bump, DropPendingSession, Consume, Options,
              SetPendingMFAChallenge, FactorsKept, TryCode, SpendStep, Attempted, LocalsKnown, factorLocals
<1> QED  BY <1>1, <1>2, <1>3, <1>4, <1>5 DEF FactorStep

\* The locals of the login requests, one request at a time.
LEMMA LoginLocals ==
    ASSUME LocalsKnown, NEW r \in Reqs, ChallengeStep(r) \/ AccountStep(r)
    PROVE  /\ DOMAIN loaded' = Reqs /\ DOMAIN noted' = Reqs /\ DOMAIN bumped' = Reqs
           /\ DOMAIN plan' = Reqs /\ prior' = prior
           /\ \A s \in Reqs \ {r} :
                /\ loaded'[s] = loaded[s] /\ noted'[s] = noted[s] /\ bumped'[s] = bumped[s]
                /\ plan'[s] = plan[s]
<1>1. CASE ChallengeStep(r)
  BY <1>1 DEF ChallengeStep, Lookup, VerifyFactor, Bump, DropPendingSession, Consume, Options,
              SetPendingMFAChallenge, LocalsKnown, loginLocals
<1>2. CASE AccountStep(r)
  BY <1>2 DEF AccountStep, ComparePassword, LoadTarget, SaveUser, RevokeOthers, Rotate, RevokeAll,
              Tombstone, Purge, LocalsKnown, loginLocals
<1> QED  BY <1>1, <1>2

\* The account requests keep the locals of factor requests, apart from the note of a failure.
LEMMA AccountLocals ==
    ASSUME LocalsKnown, NEW r \in Reqs, AccountStep(r) \/ LoginStep(r) \/ SessionStep(r)
    PROVE  /\ UNCHANGED <<q, seen, fid, old, used>> /\ DOMAIN failed' = Reqs
           /\ \A s \in Reqs \ {r} : failed'[s] = failed[s]
<1>1. CASE AccountStep(r)
  BY <1>1 DEF AccountStep, ComparePassword, LoadTarget, SaveUser, RevokeOthers, Rotate, RevokeAll,
              Tombstone, Purge, FactorsKept, Attempted, LocalsKnown, factorLocals
<1>2. CASE LoginStep(r)
  BY <1>2 DEF LoginStep, Login, HasActivePrimaryFactor, IssuePending, IssueSession, FactorsKept, LocalsKnown
<1>3. CASE SessionStep(r)
  BY <1>3 DEF SessionStep, RequireAuth, Prune, Logout, RevokeSession, FactorsKept, LocalsKnown
<1> QED  BY <1>1, <1>2, <1>3

\* Neither login nor the session check touches a local of the login requests.
LEMMA LoginKeeps ==
    ASSUME NEW r, LoginStep(r) \/ SessionStep(r) PROVE UNCHANGED loginLocals
BY DEF LoginStep, Login, HasActivePrimaryFactor, IssuePending, IssueSession,
       SessionStep, RequireAuth, Prune, Logout, RevokeSession

\* A request's step changes its own locals only.
LEMMA ActMoves ==
    ASSUME LocalsKnown, NEW r \in Reqs, Act(r)
    PROVE  LocalsKnown' /\ Moves(r) /\ (~Send(r) => q' = q /\ prior' = prior)
<1>1. /\ DOMAIN pc' = Reqs /\ DOMAIN resp' = Reqs
      /\ \A s \in Reqs \ {r} : pc'[s] = pc[s] /\ resp'[s] = resp[s]
  <2>1. PICK v : Answer(r, v) \/ Goto(r, v)
    BY AnswersOrGoes
  <2> QED  BY <2>1 DEF Answer, Goto, LocalsKnown
<1>2. CASE Send(r)
  BY <1>1, <1>2 DEF Send, LocalsKnown, Moves
<1>3. CASE Interrupted(r) /\ ~Send(r)
  BY <1>1, <1>3 DEF Interrupted, factorLocals, loginLocals, LocalsKnown, Moves
<1>4. CASE FactorStep(r) /\ UNCHANGED loginLocals
  BY <1>1, <1>4, FactorLocals DEF loginLocals, LocalsKnown, Moves
<1>5. CASE ChallengeStep(r)
  BY <1>1, <1>5, FactorLocals, LoginLocals DEF LocalsKnown, Moves
<1>6. CASE AccountStep(r)
  BY <1>1, <1>6, AccountLocals, LoginLocals DEF LocalsKnown, Moves
<1>7. CASE LoginStep(r) \/ SessionStep(r)
  BY <1>1, <1>7, AccountLocals, LoginKeeps DEF loginLocals, LocalsKnown, Moves
<1> QED  BY <1>2, <1>3, <1>4, <1>5, <1>6, <1>7 DEF Act, Serve

\* A request that is over does nothing more, and one that has not been sent is only sent.
LEMMA ActsOnce ==
    ASSUME NEW r \in Reqs, Act(r)
    PROVE  pc[r] # "done" /\ (~Send(r) => pc[r] # "idle") /\ (Send(r) => pc[r] = "idle")
BY DEF Act, Send, Interrupted, Serve, FactorStep, StepUpStep, EnrolStep, ActivateStep, ProveStep, DeleteStep, LoginStep,
       ChallengeStep, SessionStep, AccountStep, CheckPassword, Survey, StepUp, Spend, Claim, Replace, DropPending,
       CreateFactor, WriteSecret, FindFactor, ProveTotp, CountFailure, ReadFailures, DropLocked, Attest,
       ClearChallenge, Enable, FindBackup, CreateBackup, InsertCodes, DeleteFactor, SweepFind, Sweep,
       Regenerate, Login, HasActivePrimaryFactor, IssuePending, IssueSession, Lookup, VerifyFactor, Bump,
       DropPendingSession, Consume, Options, SetPendingMFAChallenge, RequireAuth, Prune, Logout,
       RevokeSession, ComparePassword, LoadTarget, SaveUser, RevokeOthers, Rotate, RevokeAll, Tombstone, Purge

---------------------------------------------------------------------------
(* The statements of each kind of request. *)

\* The kinds of request that reach a statement.
Fits(kind, stage) ==
    /\ stage \in {"auth", "prune"} => kind \in SelfKinds
    /\ stage \in {"password", "stepUp", "spend"} => kind \in {"enrol", "deleteFactor", "regenerate"}
    /\ stage = "claim" => kind \in {"enrol", "deleteFactor", "regenerate", "verify"}
    /\ stage \in {"survey", "delete", "sweepFind", "sweep"} => kind = "deleteFactor"
    /\ stage \in {"replace", "dropPending", "create", "secret"} => kind = "enrol"
    /\ stage \in {"find", "prove", "countFailure", "readFailures", "dropLocked", "attest", "clearChallenge",
                  "enable", "findBackup", "createBackup", "insertCodes"} => kind = "activate"
    /\ stage \in {"compare", "revokeOthers", "rotate"} => kind = "change"
    /\ stage = "save" => kind \in {"change", "reset", "setActive"}
    /\ stage = "revokeAll" => kind \in {"reset", "setActive", "delete"}
    /\ stage = "target" => kind \in AdminKinds
    /\ stage = "tombstone" => kind = "delete"
    /\ stage \in {"lookup", "dropPending_"} => kind \in {"verify", "challenge"}
    /\ stage \in {"dispatch", "bump", "consume"} => kind = "verify"
    /\ stage \in {"options", "setNonce"} => kind = "challenge"
    /\ stage \in {"login", "primary", "pend"} => kind = "login"
    /\ stage = "issue" => kind \in {"login", "change", "verify"}
    /\ stage \in {"purge", "logout", "revoke", "regenerate"} => kind = stage

Kinds(r) == pc[r] # "idle" => q[r] \in Request /\ Fits(q[r].kind, pc[r])

\* Where a request stands after it is answered or goes on.
LEMMA Stands ==
    ASSUME LocalsKnown, NEW r \in Reqs
    PROVE  /\ \A v : Answer(r, v) \/ Reject(r, v) \/ Refuse(r, v) => pc'[r] = "done" /\ resp'[r] = v
           /\ \A v : Goto(r, v) \/ Continue(r, v) \/ Pass(r, v) => pc'[r] = v /\ resp'[r] = resp[r]
BY DEF Answer, Reject, Refuse, Goto, Continue, Pass, LocalsKnown

\* The step-up serves four kinds of request.
LEMMA StepUpKinds ==
    ASSUME LocalsKnown, NEW r \in Reqs, Kinds(r), StepUpStep(r)
    PROVE  Fits(q[r].kind, pc'[r])
<1>1. ASSUME pc[r] \in {"password", "stepUp", "spend", "claim", "survey"}
      PROVE  q[r].kind \in {"enrol", "deleteFactor", "regenerate", "verify"}
             /\ (pc[r] # "claim" => q[r].kind # "verify")
             /\ (pc[r] = "survey" => q[r].kind = "deleteFactor")
  BY <1>1 DEF Kinds, Fits
<1>2. ASSUME q[r].kind \in {"enrol", "deleteFactor", "regenerate", "verify"}
      PROVE  Fits(q[r].kind, AfterStepUp(q[r]))
  BY <1>2 DEF AfterStepUp, Fits
<1>3. ASSUME WrongCode(r) PROVE Fits(q[r].kind, pc'[r])
  BY <1>3, Stands DEF WrongCode, Fits
<1>4. CASE CheckPassword(r)
  BY <1>1, <1>4, Stands DEF CheckPassword, Fits
<1>5. CASE Survey(r)
  BY <1>1, <1>5, Stands DEF Survey, Fits
<1>6. CASE StepUp(r)
  BY <1>1, <1>2, <1>6, Stands DEF StepUp, Fits
<1>7. CASE Spend(r)
  <2>1. q[r].kind \in {"enrol", "deleteFactor", "regenerate"}
    BY <1>1, <1>7 DEF Spend
  <2> QED  BY <1>2, <1>3, <1>7, <2>1, Stands DEF Spend, TryCode, Fits
<1>8. CASE Claim(r)
  BY <1>1, <1>2, <1>3, <1>8, Stands DEF Claim
<1> QED  BY <1>4, <1>5, <1>6, <1>7, <1>8 DEF StepUpStep

\* The statements of enrolment, activation and deletion follow each other.
LEMMA FactorKindsFit ==
    ASSUME LocalsKnown, NEW r \in Reqs, Kinds(r), EnrolStep(r) \/ ActivateStep(r) \/ DeleteStep(r)
    PROVE  Fits(q[r].kind, pc'[r])
<1>1. \A v : Reject(r, v) \/ Answer(r, v) => Fits(q[r].kind, pc'[r])
  BY Stands DEF Fits
<1>2. CASE EnrolStep(r)
  <2>1. pc[r] \in {"replace", "dropPending", "create", "secret"}
    BY <1>2 DEF EnrolStep, Replace, DropPending, CreateFactor, WriteSecret
  <2>2. q[r].kind = "enrol"
    BY <2>1 DEF Kinds, Fits
  <2>3. (\E v : Reject(r, v) \/ Answer(r, v)) \/ pc'[r] \in {"dropPending", "create", "secret"}
    BY <1>2, Stands DEF EnrolStep, Replace, DropPending, CreateFactor, WriteSecret
  <2> QED  BY <1>1, <2>2, <2>3 DEF Fits
<1>3. CASE ActivateStep(r)
  <2>1. pc[r] \in {"find", "prove", "countFailure", "readFailures", "dropLocked", "attest", "clearChallenge",
                  "enable", "findBackup", "createBackup", "insertCodes"}
    BY <1>3 DEF ActivateStep, ProveStep, FindFactor, ProveTotp, CountFailure, ReadFailures, DropLocked, Attest,
                ClearChallenge, Enable, FindBackup, CreateBackup, InsertCodes
  <2>2. q[r].kind = "activate"
    BY <2>1 DEF Kinds, Fits
  <2>3. \/ \E v : Reject(r, v) \/ Answer(r, v)
        \/ pc'[r] \in {"prove", "countFailure", "readFailures", "dropLocked", "attest", "clearChallenge",
                      "enable", "findBackup", "createBackup", "insertCodes"}
    BY <1>3, Stands DEF ActivateStep, ProveStep, FindFactor, ProveTotp, CountFailure, ReadFailures, DropLocked,
                Attest, ClearChallenge, Enable, FindBackup, CreateBackup, InsertCodes
  <2> QED  BY <1>1, <2>2, <2>3 DEF Fits
<1>4. CASE DeleteStep(r)
  <2>1. \/ \E v : Reject(r, v) \/ Answer(r, v)
        \/ pc[r] \in {"delete", "sweepFind"} /\ pc'[r] \in {"sweepFind", "sweep"}
    BY <1>4, Stands DEF DeleteStep, DeleteFactor, SweepFind, Sweep, Regenerate
  <2> QED  BY <1>1, <2>1 DEF Kinds, Fits
<1> QED  BY <1>2, <1>3, <1>4

\* So do those of login and its challenge.
LEMMA LoginKindsFit ==
    ASSUME LocalsKnown, NEW r \in Reqs, Kinds(r), LoginStep(r) \/ ChallengeStep(r)
    PROVE  Fits(q[r].kind, pc'[r])
<1>1. \A v : Refuse(r, v) \/ Reject(r, v) \/ Answer(r, v) => Fits(q[r].kind, pc'[r])
  BY Stands DEF Fits
<1>2. CASE LoginStep(r)
  <2>1. \/ \E v : Refuse(r, v) \/ Answer(r, v)
        \/ pc[r] \in {"login", "primary"} /\ pc'[r] \in {"primary", "pend", "issue"}
    BY <1>2, Stands DEF LoginStep, Login, HasActivePrimaryFactor, IssuePending, IssueSession
  <2> QED  BY <1>1, <2>1 DEF Kinds, Fits
<1>3. CASE VerifyFactor(r)
  <2>1. pc[r] = "dispatch" /\ q[r].kind = "verify"
    BY <1>3 DEF VerifyFactor, Kinds, Fits
  <2>2. Fits("verify", AfterStepUp(q[r])) /\ Fits("verify", "claim") /\ Fits("verify", "bump")
        /\ Fits("verify", "consume")
    BY <2>1 DEF AfterStepUp, Fits
  <2>3. ASSUME NEW S, TryCode(r, S)
        PROVE  (\E v : Reject(r, v)) \/ pc'[r] \in {AfterStepUp(q[r]), "claim", "bump"}
    BY <2>3, Stands DEF TryCode, WrongCode
  <2>4. (\E v : Reject(r, v)) \/ pc'[r] \in {AfterStepUp(q[r]), "claim", "bump", "consume"}
    BY <1>3, <2>3, Stands DEF VerifyFactor
  <2> QED  BY <1>1, <2>1, <2>2, <2>4
<1>4. CASE Lookup(r)
  <2>1. pc[r] = "lookup" /\ q[r].kind \in {"verify", "challenge"}
    BY <1>4 DEF Lookup, Kinds, Fits
  <2>2. \/ \E v : Answer(r, v)
        \/ pc'[r] = "dropPending_"
        \/ q[r].kind = "challenge" /\ pc'[r] = "options"
        \/ q[r].kind # "challenge" /\ pc'[r] = "dispatch"
    BY <1>4, Stands DEF Lookup
  <2> QED  BY <1>1, <2>1, <2>2 DEF Fits
<1>5. CASE Bump(r) \/ DropPendingSession(r) \/ Consume(r)
  <2>1. \/ \E v : Answer(r, v)
        \/ pc[r] \in {"bump", "consume"} /\ pc'[r] \in {"dropPending_", "issue"}
    BY <1>5, Stands DEF Bump, DropPendingSession, Consume
  <2> QED  BY <1>1, <2>1 DEF Kinds, Fits
<1>6. CASE Options(r) \/ SetPendingMFAChallenge(r)
  <2>1. (\E v : Answer(r, v)) \/ (pc[r] = "options" /\ pc'[r] = "setNonce")
    BY <1>6, Stands DEF Options, SetPendingMFAChallenge
  <2> QED  BY <1>1, <2>1 DEF Kinds, Fits
<1> QED  BY <1>2, <1>3, <1>4, <1>5, <1>6 DEF ChallengeStep

\* And those of the sessions and of the account.
LEMMA AccountKindsFit ==
    ASSUME LocalsKnown, NEW r \in Reqs, Kinds(r), SessionStep(r) \/ AccountStep(r)
    PROVE  Fits(q[r].kind, pc'[r])
<1>1. \A v : Answer(r, v) => Fits(q[r].kind, pc'[r])
  BY Stands DEF Fits
<1>2. CASE RequireAuth(r)
  <2>1. pc[r] = "auth" /\ q[r].kind \in SelfKinds
    BY <1>2 DEF RequireAuth, Kinds, Fits
  <2>2. (\E v : Answer(r, v)) \/ pc'[r] \in {"prune", FirstStage(q[r])}
    BY <1>2, Stands DEF RequireAuth
  <2>3. Fits(q[r].kind, FirstStage(q[r])) /\ Fits(q[r].kind, "prune")
    BY <2>1 DEF Fits, FirstStage, SelfKinds, FactorKinds, AdminKinds
  <2> QED  BY <1>1, <2>2, <2>3
<1>3. CASE Prune(r) \/ Logout(r) \/ RevokeSession(r) \/ RevokeAll(r) \/ Purge(r)
  BY <1>1, <1>3 DEF Prune, Logout, RevokeSession, RevokeAll, Purge
<1>4. CASE ComparePassword(r)
  <2>1. pc[r] = "compare" /\ ((\E v : Answer(r, v)) \/ pc'[r] = "save")
    BY <1>4, Stands DEF ComparePassword
  <2> QED  BY <1>1, <2>1 DEF Kinds, Fits
<1>5. CASE LoadTarget(r)
  <2>1. pc[r] = "target" /\ q[r].kind \in AdminKinds
    BY <1>5 DEF LoadTarget, Kinds, Fits
  <2>2. \/ \E v : Answer(r, v)
        \/ q[r].kind = "delete" /\ pc'[r] = "tombstone"
        \/ q[r].kind = "purge" /\ pc'[r] = "purge"
        \/ q[r].kind \notin {"delete", "purge"} /\ pc'[r] = "save"
    BY <1>5, Stands DEF LoadTarget
  <2> QED  BY <1>1, <2>1, <2>2 DEF Fits, AdminKinds
<1>6. CASE SaveUser(r)
  <2>1. pc[r] = "save" /\ q[r].kind \in {"change", "reset", "setActive"}
    BY <1>6 DEF SaveUser, Kinds, Fits
  <2>2. \/ \E v : Answer(r, v)
        \/ q[r].kind = "change" /\ pc'[r] = "revokeOthers"
        \/ q[r].kind # "change" /\ pc'[r] = "revokeAll"
    BY <1>6, Stands DEF SaveUser
  <2> QED  BY <1>1, <2>1, <2>2 DEF Fits
<1>7. CASE RevokeOthers(r) \/ Rotate(r)
  <2>1. pc[r] \in {"revokeOthers", "rotate"} /\ pc'[r] \in {"rotate", "issue"}
    BY <1>7, Stands DEF RevokeOthers, Rotate
  <2> QED  BY <2>1 DEF Kinds, Fits
<1>8. CASE Tombstone(r)
  <2>1. pc[r] = "tombstone" /\ pc'[r] = "revokeAll"
    BY <1>8, Stands DEF Tombstone
  <2> QED  BY <2>1 DEF Kinds, Fits
<1> QED  BY <1>2, <1>3, <1>4, <1>5, <1>6, <1>7, <1>8 DEF SessionStep, AccountStep

\* Requests stay with the statements of their kind.
LEMMA KindsStep ==
    ASSUME LocalsKnown, \A s \in Reqs : menu[s] \subseteq Request /\ Kinds(s), NEW r \in Reqs, Act(r)
    PROVE  \A s \in Reqs : Kinds(s)'
<1>1. ASSUME NEW s \in Reqs \ {r} PROVE Kinds(s)'
  BY ActMoves DEF Moves, Kinds
<1>2. CASE Send(r)
  <2>1. PICK k \in menu[r] :
          q' = [q EXCEPT ![r] = k] /\ Pass(r, IF k.kind \in SelfKinds THEN "auth" ELSE FirstStage(k))
    BY <1>2 DEF Send
  <2>2. /\ q'[r] = k /\ k \in Request
        /\ pc'[r] = IF k.kind \in SelfKinds THEN "auth" ELSE FirstStage(k)
    BY <2>1, Stands DEF LocalsKnown
  <2>3. k.kind \in SelfKinds \cup AdminKinds \cup LoginKinds
    BY <2>2 DEF Request
  <2>4. Fits(k.kind, pc'[r])
    BY <2>2, <2>3 DEF Fits, FirstStage, SelfKinds, FactorKinds, AdminKinds, LoginKinds
  <2> QED  BY <1>1, <2>2, <2>4 DEF Kinds
<1>3. CASE Interrupted(r)
  <2>1. pc'[r] = "done" /\ q' = q /\ pc[r] # "idle"
    BY <1>3, Stands DEF Interrupted, factorLocals
  <2>2. q[r] \in Request
    BY <2>1 DEF Kinds
  <2> QED  BY <1>1, <2>1, <2>2 DEF Kinds, Fits
<1>4. CASE Serve(r) /\ ~Send(r)
  <2>1. ~Send(r) => q' = q
    BY ActMoves
  <2>2. pc[r] # "idle"
    BY <1>4, ActsOnce
  <2>3. Fits(q[r].kind, pc'[r])
    BY <1>4, StepUpKinds, FactorKindsFit, LoginKindsFit, AccountKindsFit DEF Serve, FactorStep
  <2> QED  BY <1>1, <1>4, <2>1, <2>2, <2>3 DEF Kinds
<1> QED  BY <1>2, <1>3, <1>4 DEF Act

---------------------------------------------------------------------------
(* What becomes of a factor. *)

\* A TOTP step or a backup code is spent once its factor accepts it no more, for good.
Spent(c) ==
    LET x == factors[c.factor]
    IN  /\ c.factor < nextFactor
        /\ \/ x = NoRow
           \/ x.type = "totp" /\ x.last >= c.n
           \/ x.type = "backup" /\ c.n \notin x.codes /\ c.n < nextCode

\* Codes are of the factor of backup codes, which is active; an active primary factor has
\* what it needs to be used.
RowOK(f) ==
    factors[f] # NoRow =>
        LET x == factors[f]
        IN  /\ f < nextFactor /\ \A n \in x.codes : x.type = "backup" /\ n < nextCode
            /\ x.type = "backup" => x.on
            /\ x.on /\ x.type = "webauthn" => x.key # NoKey
            /\ x.on /\ x.type = "totp" => x.last # NoSecret
            /\ x.on /\ x.type = "backup" =>
                 \/ x.last # NoSecret
                 \/ \E r \in Reqs : fid[r] = f /\ (pc[r] = "insertCodes" \/ resp[r] = "error")

\* What a request may rely on of the factor it has created or looked up, while it is there.
Owned(r) ==
    LET f == fid[r]
        x == factors[f]
    IN  /\ pc[r] \in {"secret", "prove", "attest", "clearChallenge", "enable", "insertCodes"} =>
             f \in Factor /\ f < nextFactor
        /\ pc[r] = "secret" /\ x # NoRow => x.type = q[r].type /\ (x.type = "totp" => x.last = NoSecret)
        /\ pc[r] = "prove" /\ x # NoRow => x.type = "totp"
        /\ pc[r] = "attest" /\ x # NoRow => x.type = "webauthn"
        /\ pc[r] = "clearChallenge" /\ x # NoRow => x.type = "webauthn" /\ x.key # NoKey
        /\ pc[r] = "enable" /\ x # NoRow =>
             (x.type = "totp" /\ x.last # NoSecret) \/ (x.type = "webauthn" /\ x.key # NoKey)
        /\ pc[r] = "insertCodes" /\ x # NoRow => x.type = "backup"
        /\ pc[r] = "claim" => q[r].code \in Code

\* Two enrolments write the secrets of different factors.
SecretsApart == \A r, s \in Reqs : r # s /\ pc[r] = "secret" /\ pc[s] = "secret" => fid[r] # fid[s]

\* A new factor: the parent row only.
Created(r, f) ==
    /\ f = nextFactor /\ nextFactor' = nextFactor + 1 /\ fid'[r] = f
    /\ \/ pc'[r] = "secret" /\ q[r].type \in {"totp", "webauthn"} /\ factors'[f] = NewFactor(q[r].type, FALSE)
       \/ pc'[r] = "insertCodes" /\ factors'[f] = NewFactor("backup", TRUE)

\* A factor that stays: its type does not change, nothing is taken back, a used step is
\* never accepted again, and codes are numbered anew.
Evolves(r, f) ==
    LET x == factors[f]
        y == factors'[f]
    IN  /\ x # NoRow /\ y.type = x.type /\ (x.on => y.on)
        /\ x.key # NoKey => y.key # NoKey
        /\ x.last # NoSecret => y.last # NoSecret
        /\ \A n \in y.codes : n \in x.codes \/ (x.type = "backup" /\ nextCode <= n /\ n < nextCode')
        /\ x.type = "totp" => \/ y.last = x.last \/ (x.last # NoSecret /\ y.last > x.last)
                              \/ pc[r] = "secret" /\ fid[r] = f
        /\ y.on /\ ~x.on => \/ x.type = "totp" /\ y.last # NoSecret
                            \/ x.type = "webauthn" /\ y.key # NoKey

RowStep(r, f) ==
    \/ factors'[f] = factors[f]
    \/ factors'[f] = NoRow
    \/ Created(r, f)
    \/ Evolves(r, f)

Rows(r) ==
    /\ factors' \in [Factor -> FRow \cup {NoRow}]
    /\ nextFactor' \in Nat /\ nextCode' \in Nat /\ nextFactor <= nextFactor' /\ nextCode <= nextCode'
    /\ \A f \in Factor : RowStep(r, f)

\* What the invariant says of the factors and the locals.
FInv ==
    /\ FTypes /\ SecretsApart /\ CodesSpentOnce
    /\ \A f \in Factor : RowOK(f)
    /\ \A r \in Reqs :
         /\ Kinds(r) /\ Owned(r)
         /\ pc[r] # "done" => resp[r] = "none"
         /\ used[r] # NoCode => used[r] \in Code /\ Spent(used[r])

\* The last used step of a factor is written.
LEMMA SetLast ==
    ASSUME NEW x \in FRow, NEW n \in Int
    PROVE  LET y == [x EXCEPT !.last = n]
           IN  /\ y \in FRow /\ y.type = x.type /\ y.on = x.on /\ y.last = n
               /\ y.key = x.key /\ y.codes = x.codes
BY DEF FRow

\* Its failures are counted.
LEMMA SetFails ==
    ASSUME NEW x \in FRow, NEW n \in Nat
    PROVE  LET y == [x EXCEPT !.fails = n]
           IN  /\ y \in FRow /\ y.type = x.type /\ y.on = x.on /\ y.last = x.last
               /\ y.key = x.key /\ y.codes = x.codes
BY DEF FRow

\* Its challenge comes and goes.
LEMMA SetChallenge ==
    ASSUME NEW x \in FRow, NEW b \in BOOLEAN
    PROVE  LET y == [x EXCEPT !.challenge = b]
           IN  /\ y \in FRow /\ y.type = x.type /\ y.on = x.on /\ y.last = x.last
               /\ y.key = x.key /\ y.codes = x.codes
BY DEF FRow

\* Its credential is stored.
LEMMA SetKey ==
    ASSUME NEW x \in FRow, NEW k \in Keys
    PROVE  LET y == [x EXCEPT !.key = k]
           IN  /\ y \in FRow /\ y.type = x.type /\ y.on = x.on /\ y.last = x.last
               /\ y.key = k /\ y.codes = x.codes
BY DEF FRow

\* It is enabled.
LEMMA SetOn ==
    ASSUME NEW x \in FRow
    PROVE  LET y == [x EXCEPT !.on = TRUE]
           IN  /\ y \in FRow /\ y.type = x.type /\ y.on = TRUE /\ y.last = x.last
               /\ y.key = x.key /\ y.codes = x.codes
BY DEF FRow

\* Its codes change.
LEMMA SetCodes ==
    ASSUME NEW x \in FRow, NEW S \in SUBSET Int
    PROVE  LET y == [x EXCEPT !.codes = S]
           IN  /\ y \in FRow /\ y.type = x.type /\ y.on = x.on /\ y.last = x.last
               /\ y.key = x.key /\ y.codes = S
BY DEF FRow

\* A request body's fields.
LEMMA Body ==
    ASSUME FInv, NEW r \in Reqs, pc[r] # "idle"
    PROVE  /\ q[r] \in Request /\ q[r].factor \in Factor /\ q[r].type \in {"totp", "webauthn"}
           /\ q[r].code \in Code \cup {NoCode} /\ q[r].key \in Keys \cup {NoKey}
BY DEF FInv, Kinds, Request

\* A code's number and factor.
LEMMA CodeType ==
    ASSUME NEW c \in Code PROVE c.factor \in Factor /\ c.factor \in Nat /\ c.n \in Nat /\ c.n > 0
BY FactorSizes DEF Code, Factor, Step, CodeId

\* Steps that leave the factors alone.
LEMMA RowsSame ==
    ASSUME FInv, NEW r \in Reqs, UNCHANGED <<factors, nextFactor, nextCode>>
    PROVE  Rows(r)
BY DEF Rows, RowStep, FInv, FTypes

\* Steps that remove factors.
LEMMA RowsRemoved ==
    ASSUME FInv, NEW r \in Reqs, UNCHANGED <<nextFactor, nextCode>>, NEW S, factors' = Without(S)
    PROVE  Rows(r)
BY DEF Rows, RowStep, FInv, FTypes, Without

\* A factor's row is written.
Sets(f, y) == f \in Factor /\ y \in FRow /\ factors' = [factors EXCEPT ![f] = y]

\* It is then the row of that factor.
LEMMA SetsRow ==
    ASSUME FInv, NEW f, NEW y, Sets(f, y) PROVE factors'[f] = y
BY DEF Sets, FInv, FTypes

\* Steps that change one factor.
LEMMA RowsOne ==
    ASSUME FInv, NEW r \in Reqs, NEW f, NEW y, Sets(f, y),
           nextFactor' = nextFactor, nextCode' = nextCode \/ nextCode' = nextCode + BatchSize, Evolves(r, f)
    PROVE  Rows(r)
BY FactorSizes DEF Rows, RowStep, FInv, FTypes, Sets

\* A TOTP code is spent on its factor.
LEMMA RowsSpend ==
    ASSUME FInv, NEW r \in Reqs, NEW c \in Code, SpendStep(r, c),
           factors[c.factor] # NoRow, factors[c.factor].type = "totp", Acceptable(c.factor, c.n)
    PROVE  Rows(r) /\ used'[r] = c /\ ~Spent(c) /\ Spent(c)'
<1>1. PICK f \in Factor : f = c.factor
  BY CodeType
<1>2. PICK x \in FRow : x = factors[f]
  BY <1>1 DEF FInv, FTypes
<1> DEFINE z == [x EXCEPT !.last = c.n]
<1>2a. z \in FRow /\ z.type = x.type /\ z.on = x.on /\ z.last = c.n /\ z.key = x.key /\ z.codes = x.codes
  BY CodeType, SetLast
<1>3. PICK y \in FRow : y = z /\ y.type = x.type /\ y.on = x.on /\ y.last = c.n /\ y.key = x.key /\ y.codes = x.codes
  BY <1>2a
<1>4. c.n \in Nat /\ c.n > 0 /\ f \in Nat /\ x.last \in Int /\ nextCode \in Nat
  BY <1>1, CodeType DEF FInv, FTypes, FRow
<1>5. x # NoRow /\ x.type = "totp" /\ x.last # NoSecret /\ x.last < c.n
  BY <1>1, <1>2 DEF Acceptable
<1>6. Sets(f, y) /\ nextFactor' = nextFactor /\ nextCode' = nextCode /\ used' = [used EXCEPT ![r] = c]
  BY <1>1, <1>2, <1>3 DEF SpendStep, Sets
<1>7. factors'[f] = y /\ used'[r] = c
  BY <1>6, SetsRow DEF FInv, FTypes, LocalsKnown
<1>8. Evolves(r, f)
  BY <1>2, <1>3, <1>4, <1>5, <1>7 DEF Evolves, NoSecret
<1>9. Rows(r)
  BY <1>6, <1>8, RowsOne
<1>10. ~Spent(c)
  BY <1>1, <1>2, <1>4, <1>5 DEF Spent
<1>11. f < nextFactor
  BY <1>2, <1>5 DEF FInv, RowOK
<1>12. Spent(c)'
  BY <1>1, <1>3, <1>4, <1>5, <1>6, <1>7, <1>11 DEF Spent
<1> QED  BY <1>7, <1>9, <1>10, <1>12

\* What a step does to the record of the code a request had accepted.
Uses(r) == used'[r] = used[r] \/ \E c \in Code : used'[r] = c /\ ~Spent(c) /\ Spent(c)'

\* A wrong code changes nothing.
LEMMA RowsWrong ==
    ASSUME FInv, NEW r \in Reqs, WrongCode(r)
    PROVE  Rows(r)
BY RowsSame DEF WrongCode, Reject, Continue, factorTables

\* A code is tried against some active factors.
LEMMA RowsTry ==
    ASSUME FInv, NEW r \in Reqs, pc[r] # "idle", NEW S \in SUBSET Active, TryCode(r, S)
    PROVE  Rows(r) /\ Uses(r) /\ (pc'[r] = "claim" => q[r].code \in Code) /\ q' = q /\ fid' = fid
<1>1. PICK c \in Code \cup {NoCode} : c = q[r].code
  BY Body
<1>2. q' = q /\ fid' = fid
  BY DEF TryCode
<1>3. CASE c \in Code /\ c.factor \in S /\ factors[c.factor].type = "totp" /\ SpendStep(r, c)
           /\ Acceptable(c.factor, c.n)
  <2>1. factors[c.factor] # NoRow
    BY <1>3 DEF Active, Present
  <2>2. Rows(r) /\ used'[r] = c /\ ~Spent(c) /\ Spent(c)'
    BY <1>3, <2>1, RowsSpend
  <2>3. Uses(r)
    BY <1>3, <2>2 DEF Uses
  <2> QED  BY <1>1, <1>2, <1>3, <2>2, <2>3
<1>4. CASE Continue(r, "claim") /\ used' = used /\ c # NoCode
  <2>1. Rows(r)
    BY <1>4, RowsSame DEF Continue, factorTables
  <2> QED  BY <1>1, <1>2, <1>4, <2>1 DEF Uses
<1>5. CASE WrongCode(r) /\ used' = used
  <2>1. pc'[r] # "claim"
    BY <1>5, Stands DEF WrongCode, FInv, FTypes
  <2> QED  BY <1>2, <1>5, <2>1, RowsWrong DEF Uses
<1> QED  BY <1>1, <1>3, <1>4, <1>5 DEF TryCode

\* A backup code is claimed once.
LEMMA RowsClaim ==
    ASSUME FInv, NEW r \in Reqs, Claim(r)
    PROVE  Rows(r) /\ Uses(r)
<1>1. pc[r] = "claim" /\ q[r].code \in Code
  BY DEF Claim, FInv, Owned
<1>2. PICK c \in Code : c = q[r].code
  BY <1>1
<1>3. PICK f \in Factor : f = c.factor
  BY CodeType
<1>4. CASE factors[f] # NoRow /\ c.n \in factors[f].codes
  <2>1. PICK x \in FRow : x = factors[f]
    BY <1>4 DEF FInv, FTypes
  <2>2. x.codes \ {c.n} \in SUBSET Int /\ c.n \in Nat /\ f \in Nat /\ nextCode \in Nat
    BY <1>3, CodeType DEF FInv, FTypes, FRow
  <2>3. PICK y \in FRow : /\ y = [x EXCEPT !.codes = x.codes \ {c.n}]
                          /\ y.type = x.type /\ y.on = x.on /\ y.last = x.last /\ y.key = x.key
                          /\ y.codes = x.codes \ {c.n}
    BY <2>2, SetCodes
  <2>4. Sets(f, y) /\ used' = [used EXCEPT ![r] = c] /\ nextFactor' = nextFactor /\ nextCode' = nextCode
    BY <1>2, <1>3, <1>4, <2>1, <2>3 DEF Claim, Sets
  <2>5. x # NoRow /\ x.type = "backup" /\ c.n < nextCode /\ f < nextFactor
    BY <1>4, <2>1 DEF FInv, RowOK
  <2>6. factors'[f] = y /\ used'[r] = c
    BY <2>4, SetsRow DEF FInv, FTypes, LocalsKnown
  <2>7. Evolves(r, f)
    BY <2>1, <2>3, <2>5, <2>6 DEF Evolves
  <2>8. Rows(r)
    BY <2>4, <2>7, RowsOne
  <2>9. ~Spent(c) /\ Spent(c)'
    BY <1>3, <1>4, <2>1, <2>2, <2>3, <2>4, <2>5, <2>6 DEF Spent
  <2> QED  BY <2>6, <2>8, <2>9 DEF Uses
<1>5. CASE WrongCode(r) /\ used' = used
  BY <1>5, RowsWrong DEF Uses
<1> QED  BY <1>2, <1>3, <1>4, <1>5 DEF Claim

\* The statements before which Owned says something.
Relies == {"secret", "prove", "attest", "clearChallenge", "enable", "insertCodes", "claim"}

\* What a step of r does, as far as the invariant goes.
Keeps(r) ==
    /\ Rows(r) /\ Uses(r) /\ Owned(r)'
    /\ pc'[r] = "secret" => Created(r, fid'[r])
    /\ pc[r] = "insertCodes" =>
         \/ fid'[r] = fid[r] /\ resp'[r] = "error"
         \/ factors'[fid[r]] = NoRow \/ factors'[fid[r]].last # NoSecret

\* Nothing more is to be shown where a request relies on no factor.
LEMMA KeepsPlain ==
    ASSUME NEW r \in Reqs, Rows(r), Uses(r), pc[r] # "insertCodes", pc'[r] \notin Relies
    PROVE  Keeps(r)
BY DEF Keeps, Owned, Relies

\* Sending, being stopped, logging in, and the requests on sessions and the account.
LEMMA KeepsElsewhere ==
    ASSUME FInv, NEW r \in Reqs,
           Send(r) \/ Interrupted(r) \/ LoginStep(r) \/ SessionStep(r) \/ AccountStep(r)
    PROVE  Keeps(r)
<1>1. \A v : (Answer(r, v) => pc'[r] = "done" /\ resp'[r] = v) /\ (Goto(r, v) => pc'[r] = v)
  BY Stands DEF FInv, FTypes
<1>2. CASE Send(r)
  <2>1. UNCHANGED <<factors, nextFactor, nextCode, used>>
    BY <1>2 DEF Send, Pass, factorTables
  <2>2. PICK k \in menu[r] : Pass(r, IF k.kind \in SelfKinds THEN "auth" ELSE FirstStage(k))
    BY <1>2 DEF Send
  <2>3. k.kind \in SelfKinds \cup AdminKinds \cup LoginKinds
    BY <2>2 DEF FInv, FTypes, Request
  <2>4. FirstStage(k) \notin Relies
    BY <2>3 DEF FirstStage, Relies, SelfKinds, FactorKinds, AdminKinds, LoginKinds
  <2>5. pc'[r] \notin Relies
    BY <1>1, <2>2, <2>4 DEF Pass, Relies
  <2> QED  BY <1>2, <2>1, <2>5, RowsSame, KeepsPlain DEF Uses, Send
<1>3. CASE Interrupted(r)
  <2>1. UNCHANGED <<factors, nextFactor, nextCode, used, fid>>
    BY <1>3 DEF Interrupted, Refuse, factorTables, factorLocals
  <2>2. pc'[r] = "done" /\ resp'[r] = "error"
    BY <1>1, <1>3 DEF Interrupted, Refuse
  <2> QED  BY <2>1, <2>2, RowsSame DEF Uses, Keeps, Owned
<1>4. CASE Purge(r)
  <2>1. UNCHANGED <<nextFactor, nextCode, used>> /\ factors' = Without(Factor)
    BY <1>4 DEF Purge, factorLocals
  <2>2. pc[r] = "purge" /\ pc'[r] = "done"
    BY <1>1, <1>4 DEF Purge
  <2> QED  BY <2>1, <2>2, RowsRemoved, KeepsPlain DEF Uses, Relies
<1>5. CASE LoginStep(r)
  <2>1. UNCHANGED <<factors, nextFactor, nextCode, used>>
    BY <1>5 DEF LoginStep, Login, HasActivePrimaryFactor, IssuePending, IssueSession, FactorsKept, factorTables
  <2>2. pc[r] # "insertCodes" /\ pc'[r] \notin Relies
    BY <1>1, <1>5 DEF LoginStep, Login, HasActivePrimaryFactor, IssuePending, IssueSession, Refuse, Relies
  <2> QED  BY <2>1, <2>2, RowsSame, KeepsPlain DEF Uses
<1>6. CASE RequireAuth(r)
  <2>1. UNCHANGED <<factors, nextFactor, nextCode, used>> /\ pc[r] = "auth"
    BY <1>6 DEF RequireAuth, FactorsKept, factorTables
  <2>2. q[r].kind \in SelfKinds
    BY <2>1 DEF FInv, Kinds, Fits
  <2>3. FirstStage(q[r]) \notin Relies
    BY <2>2 DEF FirstStage, Relies, SelfKinds, FactorKinds, AdminKinds
  <2>4. pc'[r] \in {"done", "prune", FirstStage(q[r])}
    BY <1>1, <1>6 DEF RequireAuth
  <2> QED  BY <2>1, <2>3, <2>4, RowsSame, KeepsPlain DEF Uses, Relies
<1>8. CASE Prune(r) \/ Logout(r) \/ RevokeSession(r)
  <2>1. UNCHANGED <<factors, nextFactor, nextCode, used>>
    BY <1>8 DEF Prune, Logout, RevokeSession, FactorsKept, factorTables
  <2>2. pc[r] # "insertCodes" /\ pc'[r] = "done"
    BY <1>1, <1>8 DEF Prune, Logout, RevokeSession
  <2> QED  BY <2>1, <2>2, RowsSame, KeepsPlain DEF Uses, Relies
<1>7. CASE AccountStep(r) /\ ~Purge(r)
  <2>1. UNCHANGED <<factors, nextFactor, nextCode, used>>
    BY <1>7 DEF AccountStep, ComparePassword, LoadTarget, SaveUser, RevokeOthers, Rotate, RevokeAll,
                Tombstone, FactorsKept, factorTables, factorLocals
  <2>2. /\ pc[r] # "insertCodes"
        /\ \/ \E v : Answer(r, v)
           \/ \E v \in {"save", "tombstone", "purge", "revokeOthers", "revokeAll", "rotate", "issue"} : Goto(r, v)
    BY <1>7 DEF AccountStep, ComparePassword, LoadTarget, SaveUser, RevokeOthers, Rotate, RevokeAll, Tombstone
  <2>3. pc'[r] \notin Relies
    BY <1>1, <2>2 DEF Relies
  <2> QED  BY <2>1, <2>2, <2>3, RowsSame, KeepsPlain DEF Uses
<1> QED  BY <1>2, <1>3, <1>4, <1>5, <1>6, <1>7, <1>8 DEF SessionStep

\* Where a step-up leads.
LEMMA AfterStepUpPlain ==
    ASSUME NEW k, k.kind \in {"enrol", "deleteFactor", "regenerate", "verify"}
    PROVE  AfterStepUp(k) \notin Relies
BY DEF AfterStepUp, Relies

\* The step-up, and the code given at login.
LEMMA KeepsCodes ==
    ASSUME FInv, NEW r \in Reqs, StepUpStep(r) \/ ChallengeStep(r)
    PROVE  Keeps(r)
<1>1. \A v : /\ Answer(r, v) \/ Reject(r, v) => pc'[r] = "done"
             /\ Goto(r, v) \/ Continue(r, v) => pc'[r] = v
  BY Stands DEF FInv, FTypes
<1>2. pc[r] # "insertCodes" /\ pc[r] # "idle"
  BY DEF StepUpStep, CheckPassword, Survey, StepUp, Spend, Claim, ChallengeStep, Lookup, VerifyFactor, Bump,
         DropPendingSession, Consume, Options, SetPendingMFAChallenge
<1>3. pc[r] \in {"stepUp", "spend", "claim", "dispatch"} => AfterStepUp(q[r]) \notin Relies
  BY AfterStepUpPlain DEF FInv, Kinds, Fits
<1>4. ASSUME WrongCode(r) PROVE pc'[r] \notin Relies
  BY <1>1, <1>4 DEF WrongCode, Relies
<1>5. ASSUME NEW S \in SUBSET Active, TryCode(r, S), pc[r] \in {"spend", "dispatch"} PROVE Keeps(r)
  <2>1. Rows(r) /\ Uses(r) /\ (pc'[r] = "claim" => q'[r].code \in Code)
    BY <1>2, <1>5, RowsTry
  <2>2. pc'[r] = "claim" \/ pc'[r] \notin Relies
    BY <1>1, <1>3, <1>4, <1>5 DEF TryCode
  <2>3. CASE pc'[r] = "claim"
    BY <1>2, <2>1, <2>3 DEF Keeps, Owned
  <2> QED  BY <1>2, <2>1, <2>2, <2>3, KeepsPlain
<1>6. CASE Claim(r)
  <2>1. pc'[r] \notin Relies
    BY <1>1, <1>3, <1>4, <1>6 DEF Claim
  <2> QED  BY <1>2, <1>6, <2>1, RowsClaim, KeepsPlain
<1>7. CASE Spend(r)
  BY <1>5, <1>7 DEF Spend
<1>8. CASE CheckPassword(r) \/ Survey(r) \/ StepUp(r)
  <2>1. UNCHANGED <<factors, nextFactor, nextCode, used>>
    BY <1>8 DEF CheckPassword, Survey, StepUp, Reject, Continue, factorTables, factorLocals
  <2>2. pc'[r] \notin Relies
    BY <1>1, <1>3, <1>8 DEF CheckPassword, Survey, StepUp, Relies
  <2> QED  BY <1>2, <2>1, <2>2, RowsSame, KeepsPlain DEF Uses
<1>9. CASE VerifyFactor(r)
  <2>1. CASE UNCHANGED factorLocals
    <3>1. UNCHANGED <<factors, nextFactor, nextCode, used>> \/ (\E S \in SUBSET Active : TryCode(r, S))
      BY <1>9, <2>1 DEF VerifyFactor, Reject, Continue, factorTables, factorLocals
    <3>2. pc[r] = "dispatch"
      BY <1>9 DEF VerifyFactor
    <3>3. pc'[r] \notin Relies \/ (\E S \in SUBSET Active : TryCode(r, S))
      BY <1>1, <1>9 DEF VerifyFactor, Relies
    <3> QED  BY <1>2, <1>5, <3>1, <3>2, <3>3, RowsSame, KeepsPlain DEF Uses
  <2>2. CASE \E S \in SUBSET Active : TryCode(r, S)
    BY <1>5, <1>9, <2>2 DEF VerifyFactor
  <2> QED  BY <1>9, <2>1, <2>2 DEF VerifyFactor
<1>10. CASE ChallengeStep(r) /\ ~VerifyFactor(r)
  <2>1. UNCHANGED <<factors, nextFactor, nextCode, used>>
    BY <1>10 DEF ChallengeStep, Lookup, Bump, DropPendingSession, Consume, Options, SetPendingMFAChallenge,
                 FactorsKept, factorTables
  <2>2. pc'[r] \notin Relies
    BY <1>1, <1>10 DEF ChallengeStep, Lookup, Bump, DropPendingSession, Consume, Options, SetPendingMFAChallenge,
                       Relies
  <2> QED  BY <1>2, <2>1, <2>2, RowsSame, KeepsPlain DEF Uses
<1> QED  BY <1>6, <1>7, <1>8, <1>9, <1>10 DEF StepUpStep

\* A new factor's row.
LEMMA NewRow ==
    ASSUME NEW type \in {"totp", "webauthn", "backup"}, NEW on \in BOOLEAN
    PROVE  LET y == NewFactor(type, on)
           IN  /\ y \in FRow /\ y.type = type /\ y.on = on /\ y.last = NoSecret
               /\ y.key = NoKey /\ y.codes = {}
BY DEF NewFactor, FRow, NoSecret

\* Steps that add a factor.
LEMMA RowsNew ==
    ASSUME FInv, NEW r \in Reqs, NEW f, NEW y, Sets(f, y), nextCode' = nextCode, Created(r, f)
    PROVE  Rows(r)
<1>1. nextFactor' = nextFactor + 1
  BY DEF Created
<1>2. \A g \in Factor \ {f} : factors'[g] = factors[g]
  BY DEF Sets, FInv, FTypes
<1>3. factors' \in [Factor -> FRow \cup {NoRow}]
  BY DEF Sets, FInv, FTypes
<1> QED  BY <1>1, <1>2, <1>3 DEF Rows, RowStep, FInv, FTypes

\* Enrolment.
LEMMA KeepsEnrol ==
    ASSUME FInv, NEW r \in Reqs, EnrolStep(r)
    PROVE  Keeps(r)
<1>1. \A v : /\ Answer(r, v) \/ Reject(r, v) => pc'[r] = "done"
             /\ Goto(r, v) \/ Continue(r, v) => pc'[r] = v
  BY Stands DEF FInv, FTypes
<1>2. pc[r] \in {"replace", "dropPending", "create", "secret"}
  BY DEF EnrolStep, Replace, DropPending, CreateFactor, WriteSecret
<1>3. used' = used
  BY DEF EnrolStep, Replace, DropPending, CreateFactor, WriteSecret, factorLocals
<1>4. CASE Replace(r)
  <2>1. UNCHANGED <<factors, nextFactor, nextCode>> /\ pc'[r] \in {"create", "dropPending"}
    BY <1>1, <1>4 DEF Replace, Continue, factorTables
  <2> QED  BY <1>2, <1>3, <2>1, RowsSame, KeepsPlain DEF Uses, Relies
<1>5. CASE DropPending(r)
  <2>1. UNCHANGED <<nextFactor, nextCode>> /\ factors' = Without({fid[r]}) /\ pc'[r] = "create"
    BY <1>1, <1>5 DEF DropPending
  <2> QED  BY <1>2, <1>3, <2>1, RowsRemoved, KeepsPlain DEF Uses, Relies
<1>6. CASE Reject(r, "error") /\ CreateFactor(r)
  <2>1. UNCHANGED <<factors, nextFactor, nextCode>> /\ pc'[r] = "done"
    BY <1>1, <1>6 DEF Reject, factorTables
  <2> QED  BY <1>2, <1>3, <2>1, RowsSame, KeepsPlain DEF Uses, Relies
<1>7. CASE CreateFactor(r) /\ ~Reject(r, "error")
  <2>1. q[r].type \in {"totp", "webauthn"}
    BY <1>2, Body
  <2>2. /\ nextFactor \in Factor /\ nextFactor' = nextFactor + 1 /\ nextCode' = nextCode
        /\ factors' = [factors EXCEPT ![nextFactor] = NewFactor(q[r].type, FALSE)]
        /\ fid' = [fid EXCEPT ![r] = nextFactor] /\ q' = q /\ pc'[r] = "secret"
    BY <1>1, <1>7 DEF CreateFactor
  <2>3. PICK f \in Factor : f = nextFactor
    BY <2>2
  <2>4. PICK y : y = NewFactor(q[r].type, FALSE)
    OBVIOUS
  <2>5. y \in FRow /\ y.type = q[r].type /\ y.last = NoSecret
    BY <2>1, <2>4, NewRow
  <2>6. Sets(f, y)
    BY <2>2, <2>3, <2>4, <2>5 DEF Sets
  <2>7. /\ factors'[f] = y
        /\ fid'[r] = f
        /\ nextFactor \in Nat /\ f < nextFactor'
    <3>1. factors'[f] = y
      BY <2>6, SetsRow
    <3>2. DOMAIN fid = Reqs /\ nextFactor \in Nat
      BY DEF FInv, FTypes, LocalsKnown
    <3>3. f < nextFactor'
      BY <2>2, <2>3, <3>2
    <3>4. fid'[r] = f
      BY <2>2, <2>3, <3>2
    <3> QED  BY <3>1, <3>2, <3>3, <3>4
  <2>8. Created(r, f)
    BY <2>1, <2>2, <2>3, <2>4, <2>7 DEF Created
  <2>9. Rows(r)
    BY <2>2, <2>6, <2>8, RowsNew
  <2>10. Owned(r)'
    BY <2>2, <2>3, <2>5, <2>7 DEF Owned
  <2> QED  BY <1>2, <1>3, <2>7, <2>8, <2>9, <2>10 DEF Keeps, Uses
<1>8. CASE WriteSecret(r) /\ (\E v : Reject(r, v))
  <2>1. UNCHANGED <<factors, nextFactor, nextCode>> /\ pc'[r] = "done"
    BY <1>1, <1>8 DEF Reject, factorTables
  <2> QED  BY <1>2, <1>3, <2>1, RowsSame, KeepsPlain DEF Uses, Relies
<1>9. CASE WriteSecret(r) /\ ~(\E v : Reject(r, v))
  <2>1. PICK f : f = fid[r]
    OBVIOUS
  <2>2. PICK x : x = factors[f]
    OBVIOUS
  <2>3. /\ pc[r] = "secret" /\ x # NoRow /\ nextFactor' = nextFactor /\ nextCode' = nextCode /\ pc'[r] = "done"
        /\ factors' = [factors EXCEPT ![f] = IF q[r].type = "totp" THEN [x EXCEPT !.last = Unused]
                                             ELSE [x EXCEPT !.challenge = TRUE]]
    BY <1>1, <1>9, <2>1, <2>2 DEF WriteSecret
  <2>4. f \in Factor /\ x.type = q[r].type /\ (x.type = "totp" => x.last = NoSecret)
    BY <2>1, <2>2, <2>3 DEF FInv, Owned
  <2>5. x \in FRow /\ nextCode \in Nat
    BY <2>2, <2>3, <2>4 DEF FInv, FTypes
  <2>6. PICK y : y = IF q[r].type = "totp" THEN [x EXCEPT !.last = Unused] ELSE [x EXCEPT !.challenge = TRUE]
    OBVIOUS
  <2>7. ASSUME q[r].type = "totp"
        PROVE  /\ y \in FRow /\ y.type = x.type /\ y.on = x.on /\ y.key = x.key /\ y.codes = x.codes
               /\ y.last = Unused
    BY <2>5, <2>6, <2>7, SetLast DEF Unused
  <2>8. ASSUME q[r].type # "totp"
        PROVE  /\ y \in FRow /\ y.type = x.type /\ y.on = x.on /\ y.key = x.key /\ y.codes = x.codes
               /\ y.last = x.last
    BY <2>5, <2>6, <2>8, SetChallenge
  <2>9. /\ y \in FRow /\ y.type = x.type /\ y.on = x.on /\ y.key = x.key /\ y.codes = x.codes
        /\ y.last = x.last \/ (x.type = "totp" /\ y.last = Unused)
    BY <2>4, <2>7, <2>8
  <2>10. Sets(f, y)
    BY <2>3, <2>4, <2>6, <2>9 DEF Sets
  <2>11. factors'[f] = y
    BY <2>10, SetsRow
  <2>12. Evolves(r, f)
    BY <2>1, <2>2, <2>3, <2>4, <2>9, <2>11 DEF Evolves, Unused, NoSecret
  <2>13. Rows(r)
    BY <2>3, <2>10, <2>12, RowsOne
  <2> QED  BY <1>3, <2>3, <2>13, KeepsPlain DEF Uses, Relies
<1> QED  BY <1>4, <1>5, <1>6, <1>7, <1>8, <1>9 DEF EnrolStep

\* A failed try, its count, and the locks that follow from it.
LEMMA KeepsFailures ==
    ASSUME FInv, NEW r \in Reqs, CountFailure(r) \/ ReadFailures(r) \/ DropLocked(r) \/ FindBackup(r)
    PROVE  Keeps(r)
<1>1. \A v : /\ Answer(r, v) \/ Reject(r, v) => pc'[r] = "done"
             /\ Goto(r, v) \/ Continue(r, v) => pc'[r] = v
  BY Stands DEF FInv, FTypes
<1>2. /\ used' = used
      /\ pc[r] # "insertCodes" /\ pc'[r] \in {"done", "readFailures", "dropLocked", "createBackup"}
  BY <1>1 DEF CountFailure, ReadFailures, DropLocked, FindBackup, factorLocals
<1>3. CASE UNCHANGED <<factors, nextFactor, nextCode>>
  BY <1>2, <1>3, RowsSame, KeepsPlain DEF Uses, Relies
<1>4. CASE DropLocked(r)
  <2>1. UNCHANGED <<nextFactor, nextCode>> /\ factors' = Without({fid[r]})
    BY <1>4 DEF DropLocked
  <2> QED  BY <1>2, <2>1, RowsRemoved, KeepsPlain DEF Uses, Relies
<1>5. CASE CountFailure(r) /\ ~UNCHANGED <<factors, nextFactor, nextCode>>
  <2>1. PICK f : f = fid[r]
    OBVIOUS
  <2>2. PICK x : x = factors[f]
    OBVIOUS
  <2>3. /\ x # NoRow /\ nextFactor' = nextFactor /\ nextCode' = nextCode
        /\ factors' = [factors EXCEPT ![f] = [x EXCEPT !.fails = x.fails + 1]]
    BY <1>5, <2>1, <2>2 DEF CountFailure, Reject, factorTables
  <2>4. f \in Factor
    BY <1>5, <2>3 DEF FInv, FTypes
  <2>5. x \in FRow
    BY <2>2, <2>3, <2>4 DEF FInv, FTypes
  <2>6. x.fails + 1 \in Nat
    BY <2>5 DEF FRow
  <2>7. PICK y : y = [x EXCEPT !.fails = x.fails + 1]
    OBVIOUS
  <2>8. y \in FRow /\ y.type = x.type /\ y.on = x.on /\ y.last = x.last /\ y.key = x.key /\ y.codes = x.codes
    BY <2>5, <2>6, <2>7, SetFails
  <2>9. Sets(f, y)
    BY <2>3, <2>4, <2>7, <2>8 DEF Sets
  <2>10. factors'[f] = y
    BY <2>9, SetsRow
  <2>11. Evolves(r, f)
    BY <2>2, <2>3, <2>8, <2>10 DEF Evolves
  <2>12. Rows(r)
    BY <2>3, <2>9, <2>11, RowsOne
  <2> QED  BY <1>2, <2>12, KeepsPlain DEF Uses, Relies
<1> QED  BY <1>3, <1>4, <1>5 DEF ReadFailures, FindBackup, Reject, Continue, factorTables

\* The factor to activate, and the code that proves it.
LEMMA KeepsProve ==
    ASSUME FInv, NEW r \in Reqs, FindFactor(r) \/ ProveTotp(r)
    PROVE  Keeps(r)
<1>1. \A v : /\ Answer(r, v) \/ Reject(r, v) => pc'[r] = "done"
             /\ Goto(r, v) \/ Continue(r, v) => pc'[r] = v
  BY Stands DEF FInv, FTypes
<1>2. CASE FindFactor(r) /\ pc'[r] \in Relies
  <2> DEFINE f == q[r].factor
  <2>1. /\ factors[f] # NoRow /\ fid' = [fid EXCEPT ![r] = f] /\ ~factors[f].on
        /\ UNCHANGED <<factors, nextFactor, nextCode, used>> /\ pc[r] = "find"
        /\ pc'[r] = IF factors[f].type = "totp" THEN "prove" ELSE "attest"
    BY <1>1, <1>2 DEF FindFactor, Continue, factorTables, Relies
  <2>2. f \in Factor /\ f < nextFactor
    BY <2>1, Body DEF FInv, RowOK
  <2>3. factors[f].type = "totp" \/ factors[f].type = "webauthn"
    <3>1. factors[f] \in FRow
      BY <2>1, <2>2 DEF FInv, FTypes
    <3>2. factors[f].type # "backup"
      BY <2>1, <2>2 DEF FInv, RowOK
    <3> QED  BY <3>1, <3>2 DEF FRow
  <2>4. fid'[r] = f
    BY <2>1 DEF FInv, FTypes, LocalsKnown
  <2> HIDE DEF f
  <2>5. Owned(r)'
    BY <2>1, <2>2, <2>3, <2>4 DEF Owned
  <2> QED  BY <2>1, <2>5, RowsSame DEF Keeps, Uses
<1>3. CASE FindFactor(r) /\ pc'[r] \notin Relies
  <2>1. UNCHANGED <<factors, nextFactor, nextCode, used>> /\ pc[r] = "find"
    BY <1>3 DEF FindFactor, Reject, Continue, factorTables
  <2> QED  BY <1>3, <2>1, RowsSame, KeepsPlain DEF Uses
<1>4. CASE ProveTotp(r) /\ used' = used /\ ((\E v : Reject(r, v)) \/ Continue(r, "countFailure"))
  <2>1. UNCHANGED <<factors, nextFactor, nextCode>> /\ pc[r] = "prove" /\ pc'[r] \in {"done", "countFailure"}
    BY <1>1, <1>4 DEF ProveTotp, Reject, Continue, factorTables
  <2> QED  BY <1>4, <2>1, RowsSame, KeepsPlain DEF Uses, Relies
<1>5. CASE ProveTotp(r) /\ ~(used' = used /\ ((\E v : Reject(r, v)) \/ Continue(r, "countFailure")))
  <2>1. PICK c : c = q[r].code
    OBVIOUS
  <2>2. PICK f : f = fid[r]
    OBVIOUS
  <2>3. /\ pc[r] = "prove" /\ c # NoCode /\ factors[f] # NoRow /\ c.factor = f /\ Acceptable(f, c.n)
        /\ SpendStep(r, c) /\ Goto(r, "enable") /\ fid' = fid
    BY <1>5, <2>1, <2>2 DEF ProveTotp
  <2>4. c \in Code /\ f \in Factor /\ factors[f].type = "totp" /\ f < nextFactor
    BY <2>1, <2>2, <2>3, Body DEF FInv, Owned
  <2>5. pc'[r] = "enable" /\ fid'[r] = f
    BY <1>1, <2>2, <2>3
  <2>6. factors[f] \in FRow /\ factors[f].type = "totp"
    BY <2>3, <2>4 DEF FInv, FTypes
  <2>7. Rows(r) /\ used'[r] = c /\ ~Spent(c) /\ Spent(c)'
    BY <2>3, <2>4, RowsSpend
  <2>8. factors' = [factors EXCEPT ![f].last = c.n] /\ nextFactor' = nextFactor
    BY <2>3 DEF SpendStep
  <2>9. factors'[f].type = "totp" /\ factors'[f].last = c.n
    BY <2>4, <2>6, <2>8, SetLast DEF FInv, FTypes, FRow
  <2>10. c.n # NoSecret
    BY <2>4, CodeType DEF NoSecret
  <2>11. Owned(r)'
    BY <2>4, <2>5, <2>8, <2>9, <2>10 DEF Owned
  <2>12. Uses(r)
    BY <2>4, <2>7 DEF Uses
  <2> QED  BY <2>3, <2>5, <2>7, <2>11, <2>12 DEF Keeps
<1> QED  BY <1>2, <1>3, <1>4, <1>5

\* The attestation: the credential is stored, or the factor goes.
LEMMA KeepsAttest ==
    ASSUME FInv, NEW r \in Reqs, Attest(r)
    PROVE  Keeps(r)
<1>1. \A v : /\ Answer(r, v) \/ Reject(r, v) => pc'[r] = "done"
             /\ Goto(r, v) => pc'[r] = v
  BY Stands DEF FInv, FTypes
<1>2. /\ pc[r] = "attest" /\ q' = q /\ fid' = fid /\ used' = used
  BY DEF Attest, factorLocals
<1>3. CASE \E v : Reject(r, v)
  <2>1. UNCHANGED <<factors, nextFactor, nextCode>> /\ pc'[r] = "done"
    BY <1>1, <1>3 DEF Reject, factorTables
  <2> QED  BY <1>2, <2>1, RowsSame, KeepsPlain DEF Uses, Relies
<1>4. CASE (\E v : Answer(r, v)) /\ factors' = Without({fid[r]}) /\ UNCHANGED <<nextFactor, nextCode>>
  BY <1>1, <1>2, <1>4, RowsRemoved, KeepsPlain DEF Uses, Relies
<1>5. CASE /\ q[r].key # NoKey /\ factors[fid[r]] # NoRow /\ UNCHANGED <<nextFactor, nextCode>>
           /\ factors' = [factors EXCEPT ![fid[r]].key = q[r].key] /\ Goto(r, "clearChallenge")
  <2>1. PICK f : f = fid[r]
    OBVIOUS
  <2>2. PICK x : x = factors[f]
    OBVIOUS
  <2>3. PICK k : k = q[r].key
    OBVIOUS
  <2>4. k \in Keys /\ k # NoKey
    BY <1>2, <1>5, <2>3, Body
  <2>5. f \in Factor /\ f < nextFactor /\ x # NoRow /\ x.type = "webauthn"
    BY <1>2, <1>5, <2>1, <2>2 DEF FInv, Owned
  <2>6. x \in FRow
    BY <2>2, <2>5 DEF FInv, FTypes
  <2>7. PICK y : y = [x EXCEPT !.key = k]
    OBVIOUS
  <2>8. y \in FRow /\ y.type = x.type /\ y.on = x.on /\ y.last = x.last /\ y.key = k /\ y.codes = x.codes
    BY <2>4, <2>6, <2>7, SetKey
  <2>9. Sets(f, y)
    BY <1>5, <2>1, <2>2, <2>3, <2>5, <2>7, <2>8 DEF Sets
  <2>10. factors'[f] = y
    BY <2>9, SetsRow
  <2>11. Evolves(r, f)
    BY <2>2, <2>4, <2>5, <2>8, <2>10 DEF Evolves
  <2>12. Rows(r)
    BY <1>5, <2>9, <2>11, RowsOne
  <2>13. pc'[r] = "clearChallenge" /\ fid'[r] = f
    BY <1>1, <1>2, <1>5, <2>1
  <2>14. Owned(r)'
    BY <1>5, <2>4, <2>5, <2>8, <2>10, <2>13 DEF Owned
  <2> QED  BY <1>2, <2>12, <2>13, <2>14 DEF Keeps, Uses
<1> QED  BY <1>3, <1>4, <1>5 DEF Attest

\* The challenge is forgotten.
LEMMA KeepsClear ==
    ASSUME FInv, NEW r \in Reqs, ClearChallenge(r)
    PROVE  Keeps(r)
<1>1. PICK f : f = fid[r]
  OBVIOUS
<1>2. PICK x : x = factors[f]
  OBVIOUS
<1>3. /\ pc[r] = "clearChallenge" /\ q' = q /\ fid' = fid /\ used' = used
      /\ UNCHANGED <<nextFactor, nextCode>> /\ pc'[r] = "enable"
      /\ factors' = IF x = NoRow THEN factors ELSE [factors EXCEPT ![f] = [x EXCEPT !.challenge = FALSE]]
  BY <1>1, <1>2, Stands DEF ClearChallenge, factorLocals, FInv, FTypes
<1>4. f \in Factor /\ f < nextFactor /\ (x # NoRow => x.type = "webauthn" /\ x.key # NoKey)
  BY <1>1, <1>2, <1>3 DEF FInv, Owned
<1>5. CASE x = NoRow
  <2>1. Owned(r)'
    BY <1>1, <1>2, <1>3, <1>4, <1>5 DEF Owned
  <2> QED  BY <1>3, <1>5, <2>1, RowsSame DEF Keeps, Uses
<1>6. CASE x # NoRow
  <2>1. x \in FRow
    BY <1>2, <1>4, <1>6 DEF FInv, FTypes
  <2>2. PICK y : y = [x EXCEPT !.challenge = FALSE]
    OBVIOUS
  <2>3. y \in FRow /\ y.type = x.type /\ y.on = x.on /\ y.last = x.last /\ y.key = x.key /\ y.codes = x.codes
    BY <2>1, <2>2, SetChallenge
  <2>4. Sets(f, y)
    BY <1>3, <1>4, <1>6, <2>2, <2>3 DEF Sets
  <2>5. factors'[f] = y
    BY <2>4, SetsRow
  <2>6. Evolves(r, f)
    BY <1>2, <1>6, <2>3, <2>5 DEF Evolves
  <2>7. Rows(r)
    BY <1>3, <2>4, <2>6, RowsOne
  <2>8. Owned(r)'
    BY <1>1, <1>3, <1>4, <1>6, <2>3, <2>5 DEF Owned
  <2> QED  BY <1>3, <2>7, <2>8 DEF Keeps, Uses
<1> QED  BY <1>5, <1>6

\* The factor is switched on.
LEMMA KeepsEnable ==
    ASSUME FInv, NEW r \in Reqs, Enable(r)
    PROVE  Keeps(r)
<1>1. \A v : /\ Answer(r, v) \/ Reject(r, v) => pc'[r] = "done"
             /\ Goto(r, v) => pc'[r] = v
  BY Stands DEF FInv, FTypes
<1>2. PICK f : f = fid[r]
  OBVIOUS
<1>3. PICK x : x = factors[f]
  OBVIOUS
<1>4. pc[r] = "enable" /\ used' = used
  BY DEF Enable, factorLocals
<1>5. CASE Reject(r, "conflict")
  <2>1. UNCHANGED <<factors, nextFactor, nextCode>> /\ pc'[r] = "done"
    BY <1>1, <1>5 DEF Reject, factorTables
  <2> QED  BY <1>4, <2>1, RowsSame, KeepsPlain DEF Uses, Relies
<1>6. CASE ~Reject(r, "conflict")
  <2>1. /\ x # NoRow /\ UNCHANGED <<nextFactor, nextCode>> /\ pc'[r] = "findBackup"
        /\ factors' = [factors EXCEPT ![f] = [x EXCEPT !.on = TRUE]]
    BY <1>1, <1>2, <1>3, <1>6 DEF Enable
  <2>2. f \in Factor /\ ((x.type = "totp" /\ x.last # NoSecret) \/ (x.type = "webauthn" /\ x.key # NoKey))
    BY <1>2, <1>3, <1>4, <2>1 DEF FInv, Owned
  <2>3. x \in FRow
    BY <1>3, <2>1, <2>2 DEF FInv, FTypes
  <2>4. PICK y : y = [x EXCEPT !.on = TRUE]
    OBVIOUS
  <2>5. /\ y \in FRow /\ y.type = x.type /\ y.on = TRUE /\ y.last = x.last /\ y.key = x.key /\ y.codes = x.codes
    BY <2>3, <2>4, SetOn
  <2>6. Sets(f, y)
    BY <2>1, <2>2, <2>4, <2>5 DEF Sets
  <2>7. factors'[f] = y
    BY <2>6, SetsRow
  <2>8. Evolves(r, f)
    BY <1>3, <2>1, <2>2, <2>5, <2>7 DEF Evolves
  <2>9. Rows(r)
    BY <2>1, <2>6, <2>8, RowsOne
  <2> QED  BY <1>4, <2>1, <2>9, KeepsPlain DEF Uses, Relies
<1> QED  BY <1>5, <1>6

\* The factor of backup codes is created.
LEMMA KeepsBackup ==
    ASSUME FInv, NEW r \in Reqs, CreateBackup(r)
    PROVE  Keeps(r)
<1>1. \A v : /\ Answer(r, v) \/ Reject(r, v) => pc'[r] = "done"
             /\ Goto(r, v) => pc'[r] = v
  BY Stands DEF FInv, FTypes
<1>2. pc[r] = "createBackup" /\ used' = used /\ q' = q
  BY DEF CreateBackup
<1>3. CASE Reject(r, "ok")
  <2>1. UNCHANGED <<factors, nextFactor, nextCode>> /\ pc'[r] = "done"
    BY <1>1, <1>3 DEF Reject, factorTables
  <2> QED  BY <1>2, <2>1, RowsSame, KeepsPlain DEF Uses, Relies
<1>4. CASE ~Reject(r, "ok")
  <2>1. /\ nextFactor \in Factor /\ nextFactor' = nextFactor + 1 /\ nextCode' = nextCode
        /\ factors' = [factors EXCEPT ![nextFactor] = NewFactor("backup", TRUE)]
        /\ fid' = [fid EXCEPT ![r] = nextFactor] /\ pc'[r] = "insertCodes"
    BY <1>1, <1>4 DEF CreateBackup
  <2>2. PICK f \in Factor : f = nextFactor
    BY <2>1
  <2>3. PICK y : y = NewFactor("backup", TRUE)
    OBVIOUS
  <2>4. y \in FRow /\ y.type = "backup" /\ y.last = NoSecret
    BY <2>3, NewRow
  <2>5. Sets(f, y)
    BY <2>1, <2>2, <2>3, <2>4 DEF Sets
  <2>6. factors'[f] = y
    BY <2>5, SetsRow
  <2>7. DOMAIN fid = Reqs /\ nextFactor \in Nat
    BY DEF FInv, FTypes, LocalsKnown
  <2>8. f < nextFactor'
    BY <2>1, <2>2, <2>7
  <2>9. fid'[r] = f
    BY <2>1, <2>2, <2>7
  <2>10. Created(r, f)
    BY <2>1, <2>2, <2>3, <2>6, <2>9 DEF Created
  <2>11. Rows(r)
    BY <2>1, <2>5, <2>10, RowsNew
  <2>12. Owned(r)'
    BY <2>1, <2>2, <2>4, <2>6, <2>8, <2>9 DEF Owned
  <2> QED  BY <1>2, <2>1, <2>11, <2>12 DEF Keeps, Uses
<1> QED  BY <1>3, <1>4

\* A fresh batch is above every code handed out.
LEMMA RowsIssue ==
    ASSUME FInv, NEW r \in Reqs, NEW f \in Factor, factors[f] # NoRow, factors[f].type = "backup", IssueCodes(f)
    PROVE  Rows(r) /\ factors'[f].last # NoSecret
<1>1. PICK x : x = factors[f]
  OBVIOUS
<1>2. PICK batch : batch = nextCode .. nextCode + BatchSize - 1
  OBVIOUS
<1>3. PICK z : z = [x EXCEPT !.codes = batch]
  OBVIOUS
<1>4. PICK y : y = [z EXCEPT !.last = Unused]
  OBVIOUS
<1>5. x \in FRow /\ x # NoRow /\ x.type = "backup"
  BY <1>1 DEF FInv, FTypes
<1>6. nextCode \in Nat /\ BatchSize \in Nat
  BY FactorSizes DEF FInv, FTypes
<1>7. batch \in SUBSET Int /\ \A n \in batch : nextCode <= n /\ n < nextCode + BatchSize
  BY <1>2, <1>6
<1>8. z \in FRow /\ z.type = x.type /\ z.on = x.on /\ z.last = x.last /\ z.key = x.key /\ z.codes = batch
  BY <1>3, <1>5, <1>7, SetCodes
<1>9. y \in FRow /\ y.type = x.type /\ y.on = x.on /\ y.last = Unused /\ y.key = x.key /\ y.codes = batch
  BY <1>4, <1>8, SetLast DEF Unused
<1>10. factors' = [factors EXCEPT ![f] = y] /\ nextFactor' = nextFactor /\ nextCode' = nextCode + BatchSize
  BY <1>1, <1>2, <1>3, <1>4 DEF IssueCodes
<1>11. Sets(f, y)
  BY <1>9, <1>10 DEF Sets
<1>12. factors'[f] = y
  BY <1>11, SetsRow
<1>13. Evolves(r, f)
  BY <1>1, <1>5, <1>7, <1>9, <1>10, <1>12 DEF Evolves, Unused, NoSecret
<1>14. Rows(r)
  BY <1>10, <1>11, <1>13, RowsOne
<1> QED  BY <1>9, <1>12, <1>14 DEF Unused, NoSecret

\* Its codes are inserted.
LEMMA KeepsInsert ==
    ASSUME FInv, NEW r \in Reqs, InsertCodes(r)
    PROVE  Keeps(r)
<1>1. \A v : Answer(r, v) \/ Reject(r, v) => pc'[r] = "done"
  BY Stands DEF FInv, FTypes
<1>2. pc[r] = "insertCodes" /\ used' = used /\ pc'[r] = "done"
  BY <1>1 DEF InsertCodes, factorLocals
<1>3. PICK f : f = fid[r]
  OBVIOUS
<1>4. CASE factors[f] = NoRow
  <2>1. UNCHANGED <<factors, nextFactor, nextCode>>
    BY <1>3, <1>4 DEF InsertCodes, Reject, factorTables
  <2> QED  BY <1>2, <1>3, <1>4, <2>1, RowsSame DEF Keeps, Uses, Owned
<1>5. CASE factors[f] # NoRow
  <2>1. f \in Factor /\ factors[f].type = "backup" /\ IssueCodes(f)
    BY <1>2, <1>3, <1>5 DEF InsertCodes, FInv, Owned
  <2>2. Rows(r) /\ factors'[f].last # NoSecret
    BY <1>5, <2>1, RowsIssue
  <2> QED  BY <1>2, <1>3, <2>2 DEF Keeps, Uses, Owned
<1> QED  BY <1>4, <1>5

\* Deletion, and new backup codes.
LEMMA KeepsDelete ==
    ASSUME FInv, NEW r \in Reqs, DeleteStep(r)
    PROVE  Keeps(r)
<1>1. \A v : /\ Answer(r, v) \/ Reject(r, v) => pc'[r] = "done"
             /\ Goto(r, v) \/ Continue(r, v) => pc'[r] = v
  BY Stands DEF FInv, FTypes
<1>2. used' = used /\ pc[r] # "insertCodes" /\ pc[r] # "idle"
  BY DEF DeleteStep, DeleteFactor, SweepFind, Sweep, Regenerate, factorLocals
<1>3. pc'[r] \notin Relies
  BY <1>1 DEF DeleteStep, DeleteFactor, SweepFind, Sweep, Regenerate, Relies
<1>4. CASE UNCHANGED <<factors, nextFactor, nextCode>>
  BY <1>2, <1>3, <1>4, RowsSame, KeepsPlain DEF Uses
<1>5. CASE DeleteFactor(r) \/ Sweep(r)
  <2>1. \/ UNCHANGED <<factors, nextFactor, nextCode>>
        \/ UNCHANGED <<nextFactor, nextCode>> /\ \E S : factors' = Without(S)
    BY <1>5 DEF DeleteFactor, Sweep, Reject, factorTables
  <2> QED  BY <1>2, <1>3, <1>4, <2>1, RowsRemoved, KeepsPlain DEF Uses
<1>6. CASE Regenerate(r)
  <2>1. PICK f : f = q[r].factor
    OBVIOUS
  <2>2. \/ UNCHANGED <<factors, nextFactor, nextCode>>
        \/ factors[f] # NoRow /\ factors[f].type = "backup" /\ IssueCodes(f)
    BY <1>6, <2>1 DEF Regenerate, Reject, factorTables
  <2>3. f \in Factor
    BY <1>2, <2>1, Body
  <2> QED  BY <1>2, <1>3, <1>4, <2>2, <2>3, RowsIssue, KeepsPlain DEF Uses
<1> QED  BY <1>4, <1>5, <1>6 DEF DeleteStep, SweepFind, Reject, Continue, factorTables

\* Every step of a request keeps what the invariant asks of it.
LEMMA ActKeeps ==
    ASSUME FInv, NEW r \in Reqs, Act(r)
    PROVE  Keeps(r)
BY KeepsElsewhere, KeepsCodes, KeepsEnrol, KeepsFailures, KeepsProve, KeepsAttest, KeepsClear, KeepsEnable,
   KeepsBackup, KeepsInsert, KeepsDelete DEF Act, Serve, FactorStep, ActivateStep, ProveStep

---------------------------------------------------------------------------
(* The invariant. *)

\* Steps of no request: the hourly jobs, the clock, and sessions that expire.
Aside ==
    /\ UNCHANGED <<nextFactor, nextCode, menu, pc, factorLocals, resp, loginLocals>>
    /\ now' \in Nat
    /\ factors' \in [Factor -> FRow \cup {NoRow}]
    /\ \A f \in Factor : factors'[f] = factors[f] \/ factors'[f] = NoRow

\* Only the next id is created.
LEMMA CreatedNext ==
    ASSUME NEW r, NEW f, Created(r, f) PROVE f = nextFactor
BY DEF Created

\* A factor a request has created or looked up was there before a step of another creates one.
LEMMA OwnedStays ==
    ASSUME FInv, NEW r \in Reqs, Act(r), NEW s \in Reqs \ {r}
    PROVE  Owned(s)'
<1>1. /\ pc'[s] = pc[s] /\ q'[s] = q[s] /\ fid'[s] = fid[s] /\ Rows(r) /\ Owned(s)
  BY ActMoves, ActKeeps DEF Moves, Keeps, FInv, FTypes
<1>2. PICK f : f = fid[s]
  OBVIOUS
<1>3. CASE pc[s] \in {"secret", "prove", "attest", "clearChallenge", "enable", "insertCodes"}
  <2>1. f \in Factor /\ f < nextFactor /\ f \in Nat
    BY <1>1, <1>2, <1>3, FactorSizes DEF Owned, Factor
  <2>2. f < nextFactor' /\ nextFactor \in Nat
    BY <1>1, <2>1 DEF Rows, FInv, FTypes
  <2>3. ~Created(r, f)
    BY <2>1, <2>2, CreatedNext
  <2>4. factors'[f] = factors[f] \/ factors'[f] = NoRow \/ Evolves(r, f)
    BY <1>1, <2>1, <2>3 DEF Rows, RowStep
  <2>5. CASE factors'[f] = factors[f] \/ factors'[f] = NoRow
    BY <1>1, <1>2, <1>3, <2>1, <2>2, <2>5 DEF Owned
  <2>6. CASE Evolves(r, f)
    <3>1. pc[s] = "secret" => ~(pc[r] = "secret" /\ fid[r] = f)
      BY <1>2 DEF FInv, SecretsApart
    <3>2. /\ factors'[f].type = factors[f].type /\ factors[f] # NoRow
          /\ factors[f].key # NoKey => factors'[f].key # NoKey
          /\ factors[f].last # NoSecret => factors'[f].last # NoSecret
          /\ pc[s] = "secret" /\ factors[f].type = "totp" /\ factors[f].last = NoSecret =>
               factors'[f].last = NoSecret
      BY <2>6, <3>1 DEF Evolves
    <3> QED  BY <1>1, <1>2, <1>3, <2>1, <2>2, <3>2 DEF Owned
  <2> QED  BY <2>4, <2>5, <2>6
<1>4. CASE pc[s] \notin {"secret", "prove", "attest", "clearChallenge", "enable", "insertCodes"}
  BY <1>1, <1>4 DEF Owned
<1> QED  BY <1>3, <1>4

\* What is spent stays spent.
LEMMA SpentStays ==
    ASSUME FInv, NEW r \in Reqs, Act(r), NEW c \in Code, Spent(c)
    PROVE  Spent(c)'
<1>1. Rows(r)
  BY ActKeeps DEF Keeps
<1>2. PICK f \in Factor : f = c.factor
  BY CodeType
<1>3. /\ f \in Nat /\ c.n \in Nat /\ c.n > 0 /\ f < nextFactor /\ nextFactor \in Nat /\ nextFactor' \in Nat
      /\ nextFactor <= nextFactor' /\ nextCode \in Nat /\ nextCode' \in Nat /\ nextCode <= nextCode'
  BY <1>1, <1>2, CodeType DEF Spent, Rows, FInv, FTypes
<1>4. f < nextFactor'
  BY <1>3
<1>5. ~Created(r, f)
  BY <1>3, CreatedNext
<1>6. factors'[f] = factors[f] \/ factors'[f] = NoRow \/ Evolves(r, f)
  BY <1>1, <1>5 DEF Rows, RowStep
<1>7. CASE factors'[f] = factors[f] \/ factors'[f] = NoRow
  BY <1>2, <1>3, <1>4, <1>7 DEF Spent
<1>8. CASE Evolves(r, f)
  <2>1. factors[f] # NoRow /\ factors'[f].type = factors[f].type
    BY <1>8 DEF Evolves
  <2>2. CASE factors[f].type = "totp" /\ factors[f].last >= c.n
    <3>1. ~(pc[r] = "secret" /\ fid[r] = f)
      BY <1>3, <2>1, <2>2 DEF FInv, Owned, NoSecret
    <3>2. factors'[f].last = factors[f].last \/ factors'[f].last > factors[f].last
      BY <1>8, <2>2, <3>1 DEF Evolves
    <3>3. factors[f].last \in Int
      BY <2>1 DEF FInv, FTypes, FRow
    <3>4. factors'[f] # NoRow => factors'[f].last \in Int
      BY <1>1 DEF Rows, FRow
    <3>5. factors'[f] # NoRow => factors'[f].last >= c.n
      BY <1>3, <2>2, <3>2, <3>3, <3>4
    <3> QED  BY <1>2, <1>4, <2>1, <2>2, <3>5 DEF Spent
  <2>3. CASE factors[f].type = "backup" /\ c.n \notin factors[f].codes /\ c.n < nextCode
    <3>1. c.n \notin factors'[f].codes
      BY <1>3, <1>8, <2>3 DEF Evolves
    <3> QED  BY <1>2, <1>3, <1>4, <2>1, <2>3, <3>1 DEF Spent
  <2> QED  BY <1>2, <2>1, <2>2, <2>3 DEF Spent
<1> QED  BY <1>6, <1>7, <1>8

\* A row stays in order.
LEMMA RowStays ==
    ASSUME FInv, NEW r \in Reqs, Act(r), NEW f \in Factor
    PROVE  RowOK(f)'
<1>1. Keeps(r) /\ Moves(r) /\ LocalsKnown'
  BY ActKeeps, ActMoves DEF FInv, FTypes
<1>2. Rows(r) /\ RowStep(r, f)
  BY <1>1 DEF Keeps, Rows
<1>3. /\ f \in Nat /\ nextFactor \in Nat /\ nextFactor' \in Nat /\ nextFactor <= nextFactor'
      /\ nextCode \in Nat /\ nextCode' \in Nat /\ nextCode <= nextCode'
  BY <1>2, FactorSizes DEF Rows, FInv, FTypes, Factor
<1>4. PICK x : x = factors[f]
  OBVIOUS
<1>5. PICK y : y = factors'[f]
  OBVIOUS
<1>6. x # NoRow => x \in FRow
  BY <1>4 DEF FInv, FTypes
\* The request that creates the codes is still on its way, was stopped, or has inserted them.
<1>7. ASSUME NEW s \in Reqs, fid[s] = f, pc[s] = "insertCodes" \/ resp[s] = "error"
      PROVE  \/ fid'[s] = f /\ (pc'[s] = "insertCodes" \/ resp'[s] = "error")
             \/ y = NoRow \/ y.last # NoSecret
  <2>1. CASE s # r
    BY <1>1, <1>7, <2>1 DEF Moves
  <2>2. CASE s = r
    <3>1. resp[r] # "error"
      BY ActsOnce DEF FInv
    <3> QED  BY <1>1, <1>5, <1>7, <2>2, <3>1 DEF Keeps
  <2> QED  BY <2>1, <2>2
<1>8. CASE y = x
  <2>1. CASE x = NoRow
    BY <1>4, <1>5, <1>8, <2>1 DEF RowOK
  <2>2. CASE x # NoRow
    <3>1. /\ f < nextFactor /\ \A n \in x.codes : x.type = "backup" /\ n < nextCode
          /\ x.type = "backup" => x.on
          /\ x.on /\ x.type = "webauthn" => x.key # NoKey
          /\ x.on /\ x.type = "totp" => x.last # NoSecret
          /\ x.on /\ x.type = "backup" =>
               \/ x.last # NoSecret
               \/ \E s \in Reqs : fid[s] = f /\ (pc[s] = "insertCodes" \/ resp[s] = "error")
      BY <1>4, <2>2 DEF FInv, RowOK
    <3>2. x.codes \in SUBSET Int
      BY <1>6, <2>2 DEF FRow
    <3>3. \A n \in x.codes : n < nextCode'
      BY <1>3, <3>1, <3>2
    <3>4. x.on /\ x.type = "backup" /\ x.last = NoSecret =>
            \E s \in Reqs : fid'[s] = f /\ (pc'[s] = "insertCodes" \/ resp'[s] = "error")
      BY <1>7, <1>8, <2>2, <3>1
    <3>5. f < nextFactor'
      BY <1>3, <3>1
    <3> QED  BY <1>5, <1>8, <3>1, <3>3, <3>4, <3>5 DEF RowOK
  <2> QED  BY <2>1, <2>2
<1>9. CASE y = NoRow
  BY <1>5, <1>9 DEF RowOK
<1>10. CASE Created(r, f)
  <2>1. f = nextFactor /\ nextFactor' = nextFactor + 1 /\ fid'[r] = f
    BY <1>10 DEF Created
  <2>2. PICK type \in {"totp", "webauthn", "backup"}, on \in BOOLEAN :
          y = NewFactor(type, on) /\ (on <=> type = "backup") /\ (on => pc'[r] = "insertCodes")
    BY <1>5, <1>10 DEF Created
  <2>3. y.type = type /\ y.on = on /\ y.codes = {}
    BY <2>2, NewRow
  <2>4. f < nextFactor'
    BY <1>3, <2>1
  <2> QED  BY <1>5, <2>1, <2>2, <2>3, <2>4 DEF RowOK
<1>11. CASE Evolves(r, f)
  <2>1. /\ x # NoRow /\ y.type = x.type /\ (x.on => y.on)
        /\ x.key # NoKey => y.key # NoKey
        /\ x.last # NoSecret => y.last # NoSecret
        /\ \A n \in y.codes : n \in x.codes \/ (x.type = "backup" /\ nextCode <= n /\ n < nextCode')
        /\ y.on /\ ~x.on => \/ x.type = "totp" /\ y.last # NoSecret
                            \/ x.type = "webauthn" /\ y.key # NoKey
    BY <1>4, <1>5, <1>11 DEF Evolves
  <2>2. /\ f < nextFactor /\ \A n \in x.codes : x.type = "backup" /\ n < nextCode
        /\ x.type = "backup" => x.on
        /\ x.on /\ x.type = "webauthn" => x.key # NoKey
        /\ x.on /\ x.type = "totp" => x.last # NoSecret
        /\ x.on /\ x.type = "backup" =>
             \/ x.last # NoSecret
             \/ \E s \in Reqs : fid[s] = f /\ (pc[s] = "insertCodes" \/ resp[s] = "error")
    BY <1>4, <2>1 DEF FInv, RowOK
  <2>3. x.codes \in SUBSET Int
    BY <1>6, <2>1 DEF FRow
  <2>4. \A n \in y.codes : y.type = "backup" /\ n < nextCode'
    BY <1>3, <2>1, <2>2, <2>3
  <2>5. y.on /\ y.type = "backup" /\ y.last = NoSecret /\ y # NoRow =>
          \E s \in Reqs : fid'[s] = f /\ (pc'[s] = "insertCodes" \/ resp'[s] = "error")
    BY <1>7, <2>1, <2>2
  <2>6. f < nextFactor'
    BY <1>3, <2>2
  <2>7. (y.type = "backup" => y.on) /\ (y.on /\ y.type = "webauthn" => y.key # NoKey)
        /\ (y.on /\ y.type = "totp" => y.last # NoSecret)
    BY <2>1, <2>2
  <2> QED  BY <1>5, <2>4, <2>5, <2>6, <2>7 DEF RowOK
<1> QED  BY <1>2, <1>4, <1>5, <1>8, <1>9, <1>10, <1>11 DEF RowStep

\* A request's step keeps the invariant.
LEMMA ActInv ==
    ASSUME FInv, NEW r \in Reqs, Act(r), menu' = menu, now' = now
    PROVE  FInv'
<1>1. Keeps(r) /\ Moves(r) /\ LocalsKnown'
  BY ActKeeps, ActMoves DEF FInv, FTypes
<1>2. FTypes'
  BY <1>1 DEF Keeps, Rows, FInv, FTypes
<1>3. SecretsApart'
  <2>1. ASSUME NEW s \in Reqs \ {r}, pc'[s] = "secret", pc'[r] = "secret" PROVE fid'[r] # fid'[s]
    <3>1. pc[s] = "secret" /\ fid'[s] = fid[s]
      BY <1>1, <2>1 DEF Moves
    <3>2. fid[s] \in Nat /\ fid[s] < nextFactor /\ nextFactor \in Nat
      BY <3>1, FactorSizes DEF FInv, Owned, FTypes, Factor
    <3>3. fid'[r] = nextFactor
      BY <1>1, <2>1, CreatedNext DEF Keeps
    <3> QED  BY <3>1, <3>2, <3>3
  <2> QED  BY <1>1, <2>1 DEF SecretsApart, FInv, Moves
<1>4. ASSUME NEW c \in Code, Spent(c) PROVE Spent(c)'
  BY <1>4, SpentStays
<1>5. \A s \in Reqs \ {r} : used'[s] = used[s] /\ (used[s] # NoCode => used[s] \in Code /\ Spent(used[s]))
  BY <1>1 DEF Moves, FInv
<1>6. ASSUME NEW s \in Reqs PROVE (used[s] # NoCode => used[s] \in Code /\ Spent(used[s]))'
  <2>1. PICK c : c = used'[s]
    OBVIOUS
  <2>2. CASE used'[s] = used[s]
    <3>1. c # NoCode => c \in Code /\ Spent(c)
      BY <2>1, <2>2 DEF FInv
    <3>2. c # NoCode => c \in Code /\ Spent(c)'
      BY <1>4, <3>1
    <3> QED  BY <2>1, <3>2 DEF Spent
  <2>3. CASE \E d \in Code : c = d /\ Spent(d)'
    BY <2>1, <2>3 DEF Spent
  <2> QED  BY <1>1, <1>5, <2>1, <2>2, <2>3 DEF Keeps, Uses
<1>7. CodesSpentOnce'
  <2>1. CASE used'[r] = used[r]
    BY <1>5, <2>1 DEF FInv, CodesSpentOnce
  <2>2. CASE \E c \in Code : used'[r] = c /\ ~Spent(c)
    <3>1. PICK c \in Code : used'[r] = c /\ ~Spent(c)
      BY <2>2
    <3>2. ASSUME NEW s \in Reqs \ {r} PROVE used'[s] # c
      <4>1. used'[s] = used[s] /\ (used[s] # NoCode => Spent(used[s]))
        BY <1>5
      <4>2. c # NoCode
        BY <3>1, FactorSentinels
      <4> QED  BY <3>1, <4>1, <4>2
    <3> QED  BY <1>5, <3>1, <3>2 DEF FInv, CodesSpentOnce
  <2> QED  BY <1>1, <2>1, <2>2 DEF Keeps, Uses
<1>8. \A f \in Factor : RowOK(f)'
  BY RowStays
<1>9. \A s \in Reqs : Kinds(s)'
  BY KindsStep DEF FInv, FTypes
<1>10. \A s \in Reqs : Owned(s)'
  BY <1>1, OwnedStays DEF Keeps
<1>11. ASSUME NEW s \in Reqs, pc'[s] # "done" PROVE resp'[s] = "none"
  <2>1. CASE s # r
    BY <1>1, <1>11, <2>1 DEF Moves, FInv
  <2>2. CASE s = r
    <3>1. PICK v : Answer(r, v) \/ Goto(r, v)
      BY AnswersOrGoes
    <3>2. resp'[r] = resp[r]
      BY <1>11, <2>2, <3>1, Stands DEF FInv, FTypes
    <3> QED  BY <2>2, <3>2, ActsOnce DEF FInv
  <2> QED  BY <2>1, <2>2
<1> QED  BY <1>2, <1>3, <1>6, <1>7, <1>8, <1>9, <1>10, <1>11 DEF FInv

\* So does a step of no request.
LEMMA AsideInv ==
    ASSUME FInv, Aside
    PROVE  FInv'
<1>1. UNCHANGED <<nextFactor, nextCode, menu, pc, q, seen, fid, old, used, failed, resp,
                  loaded, noted, bumped, plan, prior>>
  BY DEF Aside, factorLocals, loginLocals
<1>2. FTypes'
  BY <1>1 DEF Aside, FInv, FTypes, LocalsKnown
<1>3. SecretsApart' /\ CodesSpentOnce' /\ \A r \in Reqs : Kinds(r)'
  BY <1>1 DEF FInv, SecretsApart, CodesSpentOnce, Kinds
<1>4. ASSUME NEW f \in Factor PROVE RowOK(f)'
  <2>1. RowOK(f)
    BY DEF FInv
  <2>2. factors'[f] = factors[f] \/ factors'[f] = NoRow
    BY DEF Aside
  <2> QED  BY <1>1, <2>1, <2>2 DEF RowOK
<1>5. ASSUME NEW r \in Reqs PROVE Owned(r)'
  <2>1. Owned(r)
    BY DEF FInv
  <2>2. fid[r] \in Factor => factors'[fid[r]] = factors[fid[r]] \/ factors'[fid[r]] = NoRow
    BY DEF Aside
  <2> QED  BY <1>1, <2>1, <2>2 DEF Owned
<1>6. ASSUME NEW r \in Reqs PROVE (used[r] # NoCode => used[r] \in Code /\ Spent(used[r]))'
  <2>1. PICK c : c = used[r]
    OBVIOUS
  <2>2. c # NoCode => c \in Code /\ Spent(c)
    BY <2>1 DEF FInv
  <2>3. c \in Code => factors'[c.factor] = factors[c.factor] \/ factors'[c.factor] = NoRow
    BY CodeType DEF Aside
  <2>4. c # NoCode => c \in Code /\ Spent(c)'
    BY <1>1, <2>2, <2>3 DEF Spent
  <2> QED  BY <1>1, <2>1, <2>4 DEF Spent
<1> QED  BY <1>1, <1>2, <1>3, <1>4, <1>5, <1>6 DEF FInv

\* Only the clock's tick moves the time.
LEMMA ActTime ==
    ASSUME NEW r, Act(r) PROVE now' = now
BY DEF Act, Send, Interrupted, Serve, LoginStep, ChallengeStep, SessionStep, AccountStep, Login,
       HasActivePrimaryFactor, IssuePending, IssueSession, Lookup, VerifyFactor, Bump, DropPendingSession, Consume,
       Options, SetPendingMFAChallenge, RequireAuth, Prune, Logout, RevokeSession, ComparePassword, LoadTarget,
       SaveUser, RevokeOthers, Rotate, RevokeAll, Tombstone, Purge, FactorsKept

\* The tables a scenario starts from satisfy the invariant.
LEMMA InitInv == Init => FInv
<1> SUFFICES ASSUME Init PROVE FInv
  OBVIOUS
<1>1. PICK c \in Scenarios :
         /\ menu = c.menu /\ user = c.user /\ factors = c.factors /\ sessions = c.sessions
         /\ nextFactor = c.nextFactor /\ nextCode = c.nextCode /\ nextToken = c.nextToken
  BY DEF Init
<1>2. /\ c.menu \in [Reqs -> SUBSET Request] /\ c.factors \in [Factor -> FactorRow \cup {NoRow}]
      /\ c.nextFactor \in 1..(MaxFactor + 1) /\ c.nextCode \in 1..(MaxCode + 1)
  BY ScenarioAssumption
<1>3. nextFactor \in Nat /\ nextCode \in Nat /\ now \in Nat
  BY <1>1, <1>2, FactorSizes DEF Init
<1>4. FactorRow \subseteq FRow
  BY DEF FactorRow, FRow, Step, CodeId, Unused, NoSecret
<1>5. FTypes
  BY <1>1, <1>2, <1>3, <1>4 DEF FTypes, LocalsKnown, Init
<1>6. ASSUME NEW f \in Factor, factors[f] # NoRow PROVE RowOK(f)
  <2>1. PICK x : x = factors[f]
    OBVIOUS
  <2>2. x \in FactorRow /\ x.type \in {"totp", "webauthn", "backup"}
    BY <1>1, <1>2, <1>6, <2>1 DEF FactorRow
  <2>3. /\ f < nextFactor /\ \A n \in x.codes : x.type = "backup" /\ n < nextCode
        /\ x.type = "backup" => x.on
        /\ x.on => IF x.type = "webauthn" THEN x.key # NoKey ELSE x.last # NoSecret
    BY <1>1, <1>6, <2>1, RecordAssumption
  <2> QED  BY <2>1, <2>2, <2>3 DEF RowOK
<1>7. \A f \in Factor : RowOK(f)
  BY <1>6 DEF RowOK
<1>8. \A r \in Reqs : pc[r] = "idle" /\ used[r] = NoCode /\ resp[r] = "none"
  BY DEF Init
<1> QED  BY <1>5, <1>7, <1>8 DEF FInv, SecretsApart, CodesSpentOnce, Kinds, Owned

\* Where a step of Next comes from.
LEMMA NextSplits ==
    ASSUME FInv, [Next]_vars
    PROVE  \/ \E r \in Reqs : Act(r) /\ menu' = menu
           \/ Aside
<1>1. now \in Nat /\ factors \in [Factor -> FRow \cup {NoRow}]
  BY DEF FInv, FTypes
<1>2. CASE UNCHANGED menu /\ (CleanUpSessions \/ \E t \in Token : Expire(t))
  BY <1>1, <1>2 DEF CleanUpSessions, Expire, factorVars, factorTables, Aside
<1>3. CASE UNCHANGED <<menu, sessionTables, loginLocals>> /\ Tick
  BY <1>1, <1>3 DEF Tick, factorTables, Aside
<1>4. CASE UNCHANGED <<menu, sessionTables, loginLocals>> /\ CleanUpFactors
  <2>1. PICK S : factors' = Without(S)
    BY <1>4 DEF CleanUpFactors
  <2> QED  BY <1>1, <1>4, <2>1 DEF Aside, CleanUpFactors, Without
<1>5. CASE UNCHANGED vars
  BY <1>1, <1>5 DEF vars, factorVars, factorTables, Aside
<1> QED  BY <1>2, <1>3, <1>4, <1>5 DEF Next, Act, Serve, Finished

\* Every step keeps the invariant.
LEMMA StepInv == FInv /\ [Next]_vars => FInv'
BY NextSplits, ActTime, ActInv, AsideInv

\* The invariant the theorems rest on: types, statements and requests that fit, rows in
\* order, and codes that, once accepted, are of no more use.
THEOREM FactorsInv == Spec => []FInv
BY InitInv, StepInv, PTL DEF Spec

\* AcceptTOTPStep's compare-and-set and MarkBackupCodeUsed's condition let a code through once,
\* whichever logins, activations and step-ups it is given to, whatever else happens to the factor.
THEOREM CodesOnce == Spec => []CodesSpentOnce
<1>1. FInv => CodesSpentOnce
  BY DEF FInv
<1> QED  BY <1>1, FactorsInv, PTL

\* A factor is enabled only once its secret or credential is stored, and keeps it: a user is
\* never asked for a factor that cannot answer.
THEOREM FactorsUsable == Spec => []ActiveFactorsUsable
<1>1. ASSUME FInv PROVE ActiveFactorsUsable
  <2>1. ASSUME NEW f \in Active
        PROVE  CASE factors[f].type = "webauthn" -> factors[f].key # NoKey
                 [] factors[f].type = "totp" -> factors[f].last # NoSecret
                 [] OTHER -> \/ factors[f].last # NoSecret
                             \/ \E r \in Reqs : fid[r] = f /\ (pc[r] = "insertCodes" \/ resp[r] = "error")
    <3>1. PICK x : x = factors[f]
      OBVIOUS
    <3>2. f \in Factor /\ x # NoRow /\ x.on
      BY <2>1, <3>1 DEF Active, Present
    <3>3. x.type \in {"totp", "webauthn", "backup"}
      BY <1>1, <3>1, <3>2 DEF FInv, FTypes, FRow
    <3>4. /\ x.type = "webauthn" => x.key # NoKey
          /\ x.type = "totp" => x.last # NoSecret
          /\ x.type = "backup" =>
               \/ x.last # NoSecret
               \/ \E r \in Reqs : fid[r] = f /\ (pc[r] = "insertCodes" \/ resp[r] = "error")
      BY <1>1, <3>1, <3>2 DEF FInv, RowOK
    <3> QED  BY <3>1, <3>3, <3>4
  <2> QED  BY <2>1 DEF ActiveFactorsUsable
<1> QED  BY <1>1, FactorsInv, PTL

---------------------------------------------------------------------------
(* Logins on the password alone. *)

\* A factor listed when a login was sent stays a primary one that is active until it is gone,
\* and it is gone once the login goes on to its session.
Listed(r) ==
    pc[r] # "idle" /\ q[r].kind = "login" =>
        \A f \in seen[r] :
            /\ f \in Factor /\ f < nextFactor
            /\ factors[f] = NoRow \/ (factors[f].on /\ factors[f].type # "backup")
            /\ pc[r] = "issue" \/ resp[r] = "ok" => factors[f] = NoRow

\* The statements of a login.
LEMMA LoginActs ==
    ASSUME FInv, NEW r \in Reqs, Act(r), pc[r] # "idle", q[r].kind = "login"
    PROVE  /\ seen' = seen /\ q' = q
           /\ pc'[r] = "issue" => Primary = {}
           /\ resp'[r] = "ok" => pc[r] = "issue"
<1>1. /\ pc[r] \notin {"auth", "prune", "password", "stepUp", "spend", "claim", "survey", "delete", "sweepFind",
                       "sweep", "replace", "dropPending", "create", "secret", "find", "prove", "countFailure",
                       "readFailures", "dropLocked", "attest", "clearChallenge", "enable", "findBackup",
                       "createBackup", "insertCodes", "compare", "revokeOthers", "rotate", "save", "revokeAll",
                       "target", "tombstone", "lookup", "dropPending_", "dispatch", "bump", "consume", "options",
                       "setNonce", "purge", "logout", "revoke", "regenerate"}
  BY DEF FInv, Kinds, Fits, SelfKinds, FactorKinds, AdminKinds
<1>2. LoginStep(r) \/ Interrupted(r)
  BY <1>1 DEF Act, Send, Serve, FactorStep, StepUpStep, EnrolStep, ActivateStep, ProveStep, DeleteStep,
       ChallengeStep, SessionStep, AccountStep, CheckPassword, Survey, StepUp, Spend, Claim, Replace, DropPending,
       CreateFactor, WriteSecret, FindFactor, ProveTotp, CountFailure, ReadFailures, DropLocked, Attest,
       ClearChallenge, Enable, FindBackup, CreateBackup, InsertCodes, DeleteFactor, SweepFind, Sweep,
       Regenerate, Lookup, VerifyFactor, Bump, DropPendingSession, Consume, Options, SetPendingMFAChallenge,
       RequireAuth, Prune, Logout, RevokeSession, ComparePassword, LoadTarget, SaveUser, RevokeOthers, Rotate,
       RevokeAll, Tombstone, Purge
<1>3. resp[r] = "none"
  BY ActsOnce DEF FInv
<1>4. \A v : /\ Answer(r, v) \/ Refuse(r, v) => pc'[r] = "done" /\ resp'[r] = v
             /\ Goto(r, v) => pc'[r] = v /\ resp'[r] = resp[r]
  BY Stands DEF FInv, FTypes
<1>5. CASE Interrupted(r)
  BY <1>4, <1>5 DEF Interrupted, factorLocals
<1>6. CASE Login(r) \/ HasActivePrimaryFactor(r)
  BY <1>3, <1>4, <1>6 DEF Login, HasActivePrimaryFactor, FactorsKept
<1>7. CASE IssuePending(r) \/ IssueSession(r)
  BY <1>3, <1>4, <1>7 DEF IssuePending, IssueSession, FactorsKept
<1> QED  BY <1>2, <1>5, <1>6, <1>7 DEF LoginStep

\* A primary factor that is active is there as one, or gone for good.
LEMMA ListedFactor ==
    ASSUME FInv, NEW r \in Reqs, Act(r), NEW f \in Factor, f < nextFactor
    PROVE  /\ f < nextFactor'
           /\ factors[f] = NoRow => factors'[f] = NoRow
           /\ factors[f].on /\ factors[f].type # "backup" =>
                factors'[f] = NoRow \/ (factors'[f].on /\ factors'[f].type # "backup")
<1>1. Rows(r)
  BY ActKeeps DEF Keeps
<1>2. f < nextFactor' /\ f # nextFactor
  BY <1>1, FactorSizes DEF Rows, FInv, FTypes, Factor
<1>3. factors'[f] = factors[f] \/ factors'[f] = NoRow \/ Evolves(r, f)
  BY <1>1, <1>2, CreatedNext DEF Rows, RowStep
<1>4. Evolves(r, f) => /\ factors[f] # NoRow /\ factors'[f].type = factors[f].type
                       /\ factors[f].on => factors'[f].on
  BY DEF Evolves
<1> QED  BY <1>2, <1>3, <1>4

\* What was listed when a login was sent.
LEMMA ListedSent ==
    ASSUME FInv, NEW r \in Reqs, Send(r)
    PROVE  Listed(r)'
<1>1. seen' = [seen EXCEPT ![r] = Primary] /\ UNCHANGED <<factors, nextFactor>> /\ pc[r] = "idle"
  BY DEF Send, Pass, factorTables
<1>2. seen'[r] = Primary
  BY <1>1 DEF FInv, FTypes, LocalsKnown
<1>3. resp'[r] # "ok" /\ (q'[r].kind = "login" => pc'[r] # "issue")
  <2>1. PICK k \in menu[r] : q' = [q EXCEPT ![r] = k]
                             /\ Pass(r, IF k.kind \in SelfKinds THEN "auth" ELSE FirstStage(k))
    BY DEF Send
  <2>2. q'[r] = k /\ pc'[r] = (IF k.kind \in SelfKinds THEN "auth" ELSE FirstStage(k)) /\ resp'[r] = resp[r]
    BY <2>1, Stands DEF FInv, FTypes, LocalsKnown
  <2> QED  BY <1>1, <2>2 DEF FInv, FirstStage, AdminKinds
<1>4. \A f \in Primary : f \in Factor /\ f < nextFactor /\ factors[f].on /\ factors[f].type # "backup"
  BY DEF Primary, Active, Present, FInv, RowOK
<1> QED  BY <1>1, <1>2, <1>3, <1>4 DEF Listed

\* A step of a request.
LEMMA ListedAct ==
    ASSUME FInv, \A s \in Reqs : Listed(s), NEW r \in Reqs, Act(r), NEW s \in Reqs
    PROVE  Listed(s)'
<1>1. Moves(r)
  BY ActMoves DEF FInv, FTypes
<1>2. CASE s # r
  <2>1. pc'[s] = pc[s] /\ q'[s] = q[s] /\ seen'[s] = seen[s] /\ resp'[s] = resp[s]
    BY <1>1, <1>2 DEF Moves
  <2>2. Listed(s)
    OBVIOUS
  <2> QED  BY <2>1, <2>2, ListedFactor DEF Listed
<1>3. CASE s = r /\ Send(r)
  BY <1>3, ListedSent
<1>4. CASE s = r /\ ~Send(r)
  <2>1. q' = q /\ pc[r] # "idle"
    BY <1>4, ActsOnce, ActMoves DEF FInv, FTypes
  <2>2. CASE q[r].kind # "login"
    BY <1>4, <2>1, <2>2 DEF Listed
  <2>3. CASE q[r].kind = "login"
    <3>1. /\ seen' = seen
          /\ pc'[r] = "issue" => Primary = {}
          /\ resp'[r] = "ok" => pc[r] = "issue"
      BY <2>1, <2>3, LoginActs
    <3>2. ASSUME NEW f \in seen[r]
          PROVE  /\ f \in Factor /\ f < nextFactor /\ (pc[r] = "issue" => factors[f] = NoRow)
                 /\ factors[f] = NoRow \/ (factors[f].on /\ factors[f].type # "backup")
      BY <2>1, <2>3 DEF Listed
    <3>3. Primary = {} => \A f \in seen[r] : factors[f] = NoRow
      BY <3>2 DEF Primary, Active, Present
    <3>4. \A f \in seen[r] :
            /\ f < nextFactor' /\ (factors[f] = NoRow => factors'[f] = NoRow)
            /\ factors'[f] = NoRow \/ (factors'[f].on /\ factors'[f].type # "backup")
      BY <3>2, ListedFactor
    <3> QED  BY <1>4, <3>1, <3>2, <3>3, <3>4 DEF Listed
  <2> QED  BY <2>2, <2>3
<1> QED  BY <1>2, <1>3, <1>4

\* HasActivePrimaryFactor looks at the factors of that moment, and none that was active when the
\* login was sent is missed: only one that has been removed meanwhile lets it through.
THEOREM SecondFactorNeeded == Spec => []LoginsNeedSecondFactor
<1> DEFINE L == \A r \in Reqs : Listed(r)
<1>1. Init => L
  BY DEF Init, Listed
<1>2. FInv /\ L /\ [Next]_vars => L'
  <2> SUFFICES ASSUME FInv, L, [Next]_vars PROVE L'
    OBVIOUS
  <2>1. CASE \E r \in Reqs : Act(r)
    BY <2>1, ListedAct
  <2>2. CASE Aside
    BY <2>2 DEF Aside, factorLocals, Listed
  <2> QED  BY <2>1, <2>2, NextSplits
<1>3. FInv /\ L => LoginsNeedSecondFactor
  <2> SUFFICES ASSUME FInv, L, NEW r \in Reqs, q[r] # NoRequest, q[r].kind = "login",
                      pc[r] = "issue" \/ resp[r] = "ok"
               PROVE  seen[r] \cap Primary = {}
    BY DEF LoginsNeedSecondFactor
  <2>1. pc[r] # "idle"
    BY DEF FInv
  <2> QED  BY <2>1 DEF Listed, Primary, Active, Present
<1> QED  BY <1>1, <1>2, <1>3, FactorsInv, PTL DEF Spec

---------------------------------------------------------------------------
(* What ends a session, and what counts against a pending login. *)

\* The sessions, typed.
SInv ==
    /\ sessions \in [Token -> Session \cup {NoRow}] /\ nextToken \in Nat
    /\ \A t \in Live : t < nextToken

\* A session goes, comes, or changes by a step of r.
Inserted(r, t) ==
    /\ t = nextToken /\ nextToken' = nextToken + 1 /\ pc[r] \in {"pend", "issue"}
    /\ sessions'[t].by = r /\ sessions'[t].fails = 0

Counts(r, t) ==
    /\ pc[r] = "bump" /\ t = q[r].token /\ sessions[t] # NoRow
    /\ sessions'[t].fails = sessions[t].fails + 1 /\ bumped'[r] = sessions[t].fails + 1
    /\ sessions'[t].by = sessions[t].by
    /\ bumped'[r] >= ChallengeLimit => pc'[r] = "dropPending_"

Touched(t) ==
    /\ sessions[t] # NoRow
    /\ sessions'[t].by = sessions[t].by /\ sessions'[t].fails = sessions[t].fails

SessionRow(r, t) ==
    \/ sessions'[t] = sessions[t] \/ sessions'[t] = NoRow
    \/ Inserted(r, t) \/ Counts(r, t) \/ Touched(t)

SessionRows(r) ==
    /\ sessions' \in [Token -> Session \cup {NoRow}]
    /\ nextToken' \in Nat /\ nextToken <= nextToken'
    /\ \A t \in Token : SessionRow(r, t) /\ (sessions'[t] # NoRow => sessions[t] # NoRow \/ Inserted(r, t))

\* A session's fields.
LEMMA SessionSet ==
    ASSUME NEW x \in Session
    PROVE  /\ \A n \in Nat : LET y == [x EXCEPT !.fails = n]
                             IN  y \in Session /\ y.by = x.by /\ y.fails = n
           /\ \A n \in Nonce : LET y == [x EXCEPT !.nonce = n]
                               IN  y \in Session /\ y.by = x.by /\ y.fails = x.fails
           /\ LET y == [x EXCEPT !.expired = TRUE]
              IN  y \in Session /\ y.by = x.by /\ y.fails = x.fails
BY DEF Session

\* Steps that leave the sessions alone.
LEMMA SessionsSame ==
    ASSUME SInv, NEW r, UNCHANGED <<sessions, nextToken>>
    PROVE  SessionRows(r)
BY DEF SessionRows, SessionRow, SInv

\* Steps that may end some.
LEMMA SessionsDropped ==
    ASSUME SInv, NEW r, nextToken' = nextToken, NEW S, Drop(S) \/ sessions' = sessions
    PROVE  SessionRows(r)
BY DEF SessionRows, SessionRow, SInv, Drop

\* Steps that start one.
LEMMA SessionsInsert ==
    ASSUME SInv, LocalsKnown, NEW r \in Reqs, NEW kind \in {"regular", "pending"}, Insert(r, kind),
           pc[r] \in {"pend", "issue"}
    PROVE  SessionRows(r)
<1>1. PICK t \in Token : t = nextToken
  BY DEF Insert
<1>2. PICK y : y = NewSession(r, kind)
  OBVIOUS
<1>3. y \in Session /\ y.by = r /\ y.fails = 0
  BY <1>2, LoginSizes DEF NewSession, Session, Nonce
<1>4. sessions' = [sessions EXCEPT ![t] = y] /\ nextToken' = nextToken + 1
  BY <1>1, <1>2 DEF Insert
<1>5. sessions' \in [Token -> Session \cup {NoRow}] /\ sessions'[t] = y
      /\ \A u \in Token \ {t} : sessions'[u] = sessions[u]
  BY <1>3, <1>4 DEF SInv
<1>6. Inserted(r, t)
  BY <1>1, <1>3, <1>4, <1>5 DEF Inserted
<1> QED  BY <1>4, <1>5, <1>6 DEF SessionRows, SessionRow, SInv

\* Steps that change one.
LEMMA SessionsOne ==
    ASSUME SInv, NEW r, nextToken' = nextToken, NEW t \in Token, NEW y \in Session, sessions[t] # NoRow,
           sessions' = [sessions EXCEPT ![t] = y], sessions'[t] = y => Counts(r, t) \/ Touched(t)
    PROVE  SessionRows(r)
<1>1. sessions' \in [Token -> Session \cup {NoRow}] /\ sessions'[t] = y
      /\ \A u \in Token \ {t} : sessions'[u] = sessions[u]
  BY DEF SInv
<1> QED  BY <1>1 DEF SessionRows, SessionRow, SInv

\* Every step of a request is one of these.
LEMMA ActSessions ==
    ASSUME FInv, SInv, NEW r \in Reqs, Act(r)
    PROVE  SessionRows(r)
<1>1. CASE UNCHANGED <<sessions, nextToken>>
  BY <1>1, SessionsSame
<1>2. CASE IssuePending(r) \/ IssueSession(r)
  BY <1>1, <1>2, SessionsInsert DEF IssuePending, IssueSession, Refuse, sessionTables, FInv, FTypes
<1>3. CASE Prune(r) \/ Logout(r) \/ RevokeSession(r) \/ Purge(r) \/ DropPendingSession(r) \/ Consume(r)
           \/ RevokeOthers(r) \/ Rotate(r) \/ RevokeAll(r)
  <2>1. nextToken' = nextToken /\ (sessions' = sessions \/ \E S : Drop(S))
    BY <1>3 DEF Prune, Logout, RevokeSession, Purge, DropPendingSession, Consume, RevokeOthers, Rotate,
                RevokeAll, Attempted
  <2> QED  BY <2>1, SessionsDropped
<1>4. CASE Bump(r) /\ ~UNCHANGED <<sessions, nextToken>>
  <2>1. PICK t : t = q[r].token
    OBVIOUS
  <2>2. PICK x : x = sessions[t]
    OBVIOUS
  <2>3. /\ pc[r] = "bump" /\ x # NoRow /\ nextToken' = nextToken
        /\ sessions' = [sessions EXCEPT ![t] = [x EXCEPT !.fails = x.fails + 1]]
        /\ bumped' = [bumped EXCEPT ![r] = x.fails + 1]
        /\ x.fails + 1 >= ChallengeLimit => Goto(r, "dropPending_")
    BY <1>4, <2>1, <2>2 DEF Bump
  <2>4. t \in Token
    BY <2>1, <2>3 DEF FInv, Kinds, Request
  <2>5. x \in Session /\ x.fails + 1 \in Nat
    BY <2>2, <2>3, <2>4 DEF SInv, Session
  <2>6. PICK y : y = [x EXCEPT !.fails = x.fails + 1]
    OBVIOUS
  <2>7. y \in Session /\ y.by = x.by /\ y.fails = x.fails + 1
    BY <2>5, <2>6, SessionSet
  <2>8. bumped'[r] = x.fails + 1
    BY <2>3 DEF FInv, FTypes, LocalsKnown
  <2>9. x.fails + 1 >= ChallengeLimit => pc'[r] = "dropPending_"
    BY <2>3, Stands DEF FInv, FTypes
  <2>10. sessions'[t] = y => Counts(r, t)
    BY <2>1, <2>2, <2>3, <2>7, <2>8, <2>9 DEF Counts
  <2>11. sessions' = [sessions EXCEPT ![t] = y]
    BY <2>3, <2>6
  <2> QED  BY <2>2, <2>3, <2>4, <2>7, <2>10, <2>11, SessionsOne
<1>5. CASE SetPendingMFAChallenge(r) /\ ~UNCHANGED <<sessions, nextToken>>
  <2>1. PICK t : t = q[r].token
    OBVIOUS
  <2>2. PICK x : x = sessions[t]
    OBVIOUS
  <2>3. /\ pc[r] = "setNonce" /\ x # NoRow /\ nextToken' = nextToken /\ nextNonce \in Nonce
        /\ sessions' = [sessions EXCEPT ![t] = [x EXCEPT !.nonce = nextNonce]]
    BY <1>5, <2>1, <2>2 DEF SetPendingMFAChallenge
  <2>4. t \in Token
    BY <2>1, <2>3 DEF FInv, Kinds, Request
  <2>5. x \in Session
    BY <2>2, <2>3, <2>4 DEF SInv
  <2>6. PICK y : y = [x EXCEPT !.nonce = nextNonce]
    OBVIOUS
  <2>7. y \in Session /\ y.by = x.by /\ y.fails = x.fails
    BY <2>3, <2>5, <2>6, SessionSet
  <2>8. sessions'[t] = y => Touched(t)
    BY <2>2, <2>3, <2>7 DEF Touched
  <2>9. sessions' = [sessions EXCEPT ![t] = y]
    BY <2>3, <2>6
  <2> QED  BY <2>2, <2>3, <2>4, <2>7, <2>8, <2>9, SessionsOne
<1>6. \/ Send(r) \/ Interrupted(r) \/ Login(r) \/ HasActivePrimaryFactor(r) \/ Lookup(r) \/ VerifyFactor(r)
      \/ Options(r) \/ RequireAuth(r) \/ ComparePassword(r) \/ LoadTarget(r) \/ SaveUser(r) \/ Tombstone(r)
      \/ UNCHANGED sessionTables
      => UNCHANGED <<sessions, nextToken>>
  BY DEF Send, Interrupted, Pass, Refuse, Login, HasActivePrimaryFactor, Lookup, VerifyFactor, Options, RequireAuth,
         ComparePassword, LoadTarget, SaveUser, Tombstone, sessionTables
<1> QED  BY <1>1, <1>2, <1>3, <1>4, <1>5, <1>6 DEF Act, Serve, LoginStep, ChallengeStep, SessionStep, AccountStep

\* What the steps of no request do to a session.
AsideRow(t) == sessions'[t] = sessions[t] \/ sessions'[t] = NoRow \/ Touched(t)

\* Expiry, and the hourly jobs.
LEMMA AsideSessions ==
    ASSUME FInv, SInv, [Next]_vars
    PROVE  \/ \E r \in Reqs : Act(r) /\ menu' = menu
           \/ /\ Aside /\ sessions' \in [Token -> Session \cup {NoRow}] /\ nextToken' = nextToken
              /\ \A t \in Token : AsideRow(t) /\ (sessions'[t] # NoRow => sessions[t] # NoRow)
<1>1. now \in Nat /\ factors \in [Factor -> FRow \cup {NoRow}]
  BY DEF FInv, FTypes
<1>2. CASE UNCHANGED <<sessions, nextToken>>
  BY <1>2, NextSplits DEF AsideRow, SInv
<1>3. CASE UNCHANGED menu /\ CleanUpSessions
  <2>1. Aside
    BY <1>1, <1>3 DEF CleanUpSessions, factorVars, factorTables, Aside
  <2>2. /\ sessions' \in [Token -> Session \cup {NoRow}] /\ nextToken' = nextToken
        /\ \A t \in Token : sessions'[t] = sessions[t] \/ sessions'[t] = NoRow
    BY <1>3 DEF CleanUpSessions, Drop, SInv
  <2> QED  BY <2>1, <2>2 DEF AsideRow
<1>4. ASSUME UNCHANGED menu, NEW t \in Token, Expire(t)
      PROVE  /\ Aside /\ sessions' \in [Token -> Session \cup {NoRow}] /\ nextToken' = nextToken
             /\ \A u \in Token : AsideRow(u) /\ (sessions'[u] # NoRow => sessions[u] # NoRow)
  <2>1. Aside
    BY <1>1, <1>4 DEF Expire, factorVars, factorTables, Aside
  <2>2. PICK x : x = sessions[t]
    OBVIOUS
  <2>3. x \in Session /\ x # NoRow
    BY <1>4, <2>2 DEF Expire, Live, SInv
  <2>4. PICK y : y = [x EXCEPT !.expired = TRUE]
    OBVIOUS
  <2>5. y \in Session /\ y.by = x.by /\ y.fails = x.fails
    BY <2>3, <2>4, SessionSet
  <2>6. sessions' = [sessions EXCEPT ![t] = y] /\ nextToken' = nextToken
    BY <1>4, <2>2, <2>4 DEF Expire
  <2>7. /\ sessions' \in [Token -> Session \cup {NoRow}] /\ sessions'[t] = y
        /\ \A u \in Token \ {t} : sessions'[u] = sessions[u]
    BY <2>5, <2>6 DEF SInv
  <2>8. Touched(t)
    BY <2>2, <2>3, <2>5, <2>7 DEF Touched
  <2> QED  BY <2>1, <2>2, <2>3, <2>6, <2>7, <2>8 DEF AsideRow
<1> QED  BY <1>2, <1>3, <1>4 DEF Next, Act, Serve, Finished, vars, sessionTables

\* The sessions stay typed.
LEMMA SessionsTyped ==
    ASSUME FInv, SInv, [Next]_vars
    PROVE  SInv'
<1>1. CASE \E r \in Reqs : Act(r)
  <2>1. PICK r \in Reqs : SessionRows(r)
    BY <1>1, ActSessions
  <2>2. ASSUME NEW t \in Token, sessions'[t] # NoRow PROVE t < nextToken'
    <3>1. t \in Nat /\ nextToken \in Nat /\ nextToken' \in Nat /\ nextToken <= nextToken'
      BY <2>1, LoginSizes DEF SessionRows, SInv, Token
    <3>2. CASE sessions[t] # NoRow
      BY <3>1, <3>2 DEF SInv, Live
    <3>3. CASE Inserted(r, t)
      BY <3>1, <3>3 DEF Inserted
    <3> QED  BY <2>1, <2>2, <3>2, <3>3 DEF SessionRows
  <2> QED  BY <2>1, <2>2 DEF SessionRows, SInv, Live
<1>2. CASE /\ sessions' \in [Token -> Session \cup {NoRow}] /\ nextToken' = nextToken
           /\ \A t \in Token : sessions'[t] # NoRow => sessions[t] # NoRow
  BY <1>2 DEF SInv, Live
<1> QED  BY <1>1, <1>2, AsideSessions

---------------------------------------------------------------------------
(* Sessions that must end. *)

\* A session younger than request s.
Newer(s, t) == sessions[t].by # NoReq /\ sessions[t].by \notin prior[s]

\* How far s has got: its own session is the last to go.
Ends(s) ==
    pc[s] # "idle" =>
        /\ \A p \in prior[s] : pc[p] = "done" /\ p \in Reqs
        /\ ~failed[s] /\ pc[s] = "rotate" => \A t \in Live \ {q[s].token} : Newer(s, t)
        /\ ~failed[s] /\ pc[s] = "issue" /\ q[s].kind = "change" => \A t \in Live : Newer(s, t)
        /\ EndsSessions(s) => \A t \in Live : Newer(s, t)

\* Which step of r takes it there.
LEMMA EndingActs ==
    ASSUME FInv, NEW r \in Reqs, Act(r), pc[r] # "idle"
    PROVE  /\ q' = q /\ prior' = prior /\ (failed[r] => failed'[r])
           /\ pc'[r] = "rotate" => RevokeOthers(r)
           /\ pc'[r] = "issue" /\ q[r].kind = "change" => Rotate(r)
           /\ EndsSessions(r)' => RevokeAll(r) \/ (IssueSession(r) /\ q[r].kind = "change" /\ ~failed[r])
<1>1. q' = q /\ prior' = prior /\ ~Send(r) /\ pc[r] # "done" /\ resp[r] = "none"
  BY ActsOnce, ActMoves DEF FInv, FTypes
<1>2. \A v : /\ Answer(r, v) \/ Refuse(r, v) \/ Reject(r, v) => pc'[r] = "done" /\ resp'[r] = v
             /\ Goto(r, v) \/ Continue(r, v) => pc'[r] = v /\ resp'[r] = resp[r]
  BY Stands DEF FInv, FTypes
<1>3. CASE Interrupted(r)
  <2>1. pc'[r] = "done" /\ resp'[r] = "error" /\ failed' = failed
    BY <1>2, <1>3 DEF Interrupted, factorLocals
  <2> QED  BY <1>1, <2>1 DEF EndsSessions
<1>4. CASE RequireAuth(r) \/ Prune(r) \/ ComparePassword(r) \/ LoadTarget(r) \/ Tombstone(r)
  <2>1. failed' = failed
    BY <1>4 DEF RequireAuth, Prune, ComparePassword, LoadTarget, Tombstone, FactorsKept, factorLocals
  <2>2. FirstStage(q[r]) \notin {"rotate", "issue"}
    <3>1. q[r] \in Request
      BY DEF FInv, Kinds
    <3> QED  BY <3>1 DEF FirstStage, Request, SelfKinds, FactorKinds, AdminKinds, LoginKinds
  <2>3. pc'[r] \notin {"rotate", "issue"}
    BY <1>2, <1>4, <2>2 DEF RequireAuth, Prune, ComparePassword, LoadTarget, Tombstone
  <2>4. resp'[r] # "ok"
    BY <1>1, <1>2, <1>4 DEF RequireAuth, Prune, ComparePassword, LoadTarget, Tombstone
  <2> QED  BY <1>1, <2>1, <2>3, <2>4 DEF EndsSessions
<1>5. CASE SaveUser(r)
  <2>1. failed' = failed /\ loaded' = loaded /\ pc[r] = "save"
    BY <1>5 DEF SaveUser, factorLocals, loginLocals
  <2>2. q[r].kind \in {"change", "reset", "setActive"}
    BY <2>1 DEF FInv, Kinds, Fits
  <2>3. CASE q[r].kind = "setActive" /\ (q[r].active \/ ~loaded[r].active)
    <3>1. ~EndsSessions(r)'
      BY <1>1, <2>1, <2>3 DEF EndsSessions
    <3>2. pc'[r] = "done"
      BY <1>2, <1>5, <2>3 DEF SaveUser
    <3> QED  BY <1>1, <2>1, <3>1, <3>2
  <2>4. CASE ~(q[r].kind = "setActive" /\ (q[r].active \/ ~loaded[r].active))
    <3>1. pc'[r] \in {"revokeOthers", "revokeAll"} /\ resp'[r] = resp[r]
      BY <1>2, <1>5, <2>4 DEF SaveUser
    <3> QED  BY <1>1, <2>1, <3>1 DEF EndsSessions
  <2> QED  BY <2>3, <2>4
<1>6. CASE RevokeOthers(r) \/ Rotate(r) \/ RevokeAll(r)
  <2>1. failed[r] => failed'[r]
    BY <1>6 DEF RevokeOthers, Rotate, RevokeAll, Attempted, FInv, FTypes, LocalsKnown
  <2>2. CASE RevokeOthers(r)
    BY <1>1, <1>2, <2>1, <2>2 DEF RevokeOthers, EndsSessions
  <2>3. CASE Rotate(r)
    BY <1>1, <1>2, <2>1, <2>3 DEF Rotate, EndsSessions
  <2>4. CASE RevokeAll(r)
    BY <1>1, <1>2, <2>1, <2>4 DEF RevokeAll
  <2> QED  BY <1>6, <2>2, <2>3, <2>4
<1>7. CASE IssueSession(r)
  <2>1. failed' = failed /\ pc[r] = "issue" /\ loaded' = loaded
    BY <1>7 DEF IssueSession, loginLocals
  <2>2. q[r].kind \in {"login", "change", "verify"}
    BY <2>1 DEF FInv, Kinds, Fits
  <2>3. pc'[r] = "done"
    BY <1>2, <1>7 DEF IssueSession
  <2> QED  BY <1>1, <1>7, <2>1, <2>2, <2>3 DEF EndsSessions
\* The requests that end no session.
<1>8. CASE q[r].kind \notin {"change", "reset", "delete", "setActive"}
  <2>1. ~EndsSessions(r)'
    BY <1>1, <1>8 DEF EndsSessions
  <2>2. Kinds(r)'
    BY KindsStep DEF FInv, FTypes
  <2>3. pc'[r] # "rotate"
    BY <1>1, <1>8, <2>2 DEF Kinds, Fits
  <2>4. failed[r] => failed'[r]
    <3>1. CASE FactorStep(r)
      BY <3>1 DEF FactorStep, StepUpStep, EnrolStep, ActivateStep, ProveStep, DeleteStep, CheckPassword, Survey, StepUp,
           Spend, Claim, Replace, DropPending, CreateFactor, WriteSecret, FindFactor, ProveTotp, CountFailure,
           ReadFailures, DropLocked, Attest, ClearChallenge, Enable, FindBackup, CreateBackup, InsertCodes, DeleteFactor,
           SweepFind, Sweep, Regenerate, TryCode, factorLocals
    <3>2. CASE LoginStep(r) \/ SessionStep(r)
      BY <3>2 DEF LoginStep, SessionStep, Login, HasActivePrimaryFactor, IssuePending, IssueSession, RequireAuth,
           Prune, Logout, RevokeSession
    <3>3. CASE ChallengeStep(r)
      BY <3>3 DEF ChallengeStep, Lookup, VerifyFactor, Bump, DropPendingSession, Consume, Options,
           SetPendingMFAChallenge, TryCode, Attempted, factorLocals, FInv, FTypes, LocalsKnown
    <3>4. CASE Purge(r)
      BY <3>4 DEF Purge, factorLocals
    <3> QED  BY <1>1, <1>3, <1>4, <1>5, <1>6, <3>1, <3>2, <3>3, <3>4 DEF Act, Serve, AccountStep
  <2> QED  BY <1>1, <1>8, <2>1, <2>3, <2>4
<1>9. CASE q[r].kind \in {"change", "reset", "delete", "setActive"} /\ ~Interrupted(r)
  <2>1. pc[r] \notin {"password", "stepUp", "spend", "claim", "survey", "delete", "sweepFind",
                      "sweep", "replace", "dropPending", "create", "secret", "find", "prove", "countFailure",
                      "readFailures", "dropLocked", "attest", "clearChallenge", "enable", "findBackup",
                      "createBackup", "insertCodes", "lookup", "dropPending_", "dispatch", "bump", "consume",
                      "options", "setNonce", "purge", "logout", "revoke", "regenerate", "login", "primary", "pend"}
    BY <1>1, <1>9 DEF FInv, Kinds, Fits
  <2>2. \/ RequireAuth(r) \/ Prune(r) \/ ComparePassword(r) \/ LoadTarget(r) \/ Tombstone(r) \/ SaveUser(r)
        \/ RevokeOthers(r) \/ Rotate(r) \/ RevokeAll(r) \/ IssueSession(r)
    BY <1>1, <1>9, <2>1 DEF Act, Serve, FactorStep, StepUpStep, EnrolStep, ActivateStep, ProveStep, DeleteStep,
       LoginStep, ChallengeStep, SessionStep, AccountStep, CheckPassword, Survey, StepUp, Spend, Claim, Replace,
       DropPending, CreateFactor, WriteSecret, FindFactor, ProveTotp, CountFailure, ReadFailures, DropLocked, Attest,
       ClearChallenge, Enable, FindBackup, CreateBackup, InsertCodes, DeleteFactor, SweepFind, Sweep,
       Regenerate, Login, HasActivePrimaryFactor, IssuePending, Lookup, VerifyFactor, Bump, DropPendingSession,
       Consume, Options, SetPendingMFAChallenge, Logout, RevokeSession, Purge
  <2> QED  BY <1>4, <1>5, <1>6, <1>7, <2>2
<1> QED  BY <1>3, <1>8, <1>9

\* A step that inserts no session makes none older; one that does makes a new one.
LEMMA NewerStays ==
    ASSUME FInv, SInv, NEW r \in Reqs, Act(r), NEW s \in Reqs, prior'[s] = prior[s], r \notin prior[s],
           NEW t \in Token, sessions'[t] # NoRow, sessions[t] # NoRow => Newer(s, t)
    PROVE  Newer(s, t)'
<1>1. SessionRow(r, t) /\ (sessions[t] # NoRow \/ Inserted(r, t))
  BY ActSessions DEF SessionRows
<1>2. CASE Inserted(r, t)
  BY <1>2, LoginSentinels DEF Inserted, Newer
<1>3. CASE sessions[t] # NoRow /\ sessions'[t].by = sessions[t].by
  BY <1>3 DEF Newer
<1> QED  BY <1>1, <1>2, <1>3 DEF SessionRow, Counts, Touched

\* A step of a request.
LEMMA EndsAct ==
    ASSUME FInv, SInv, \A s \in Reqs : Ends(s), NEW r \in Reqs, Act(r), NEW s \in Reqs
    PROVE  Ends(s)'
<1>1. Moves(r) /\ pc[r] # "done"
  BY ActMoves, ActsOnce DEF FInv, FTypes
<1>2. SessionRows(r)
  BY ActSessions
<1>3. CASE s # r
  <2>1. /\ pc'[s] = pc[s] /\ q'[s] = q[s] /\ resp'[s] = resp[s] /\ failed'[s] = failed[s]
        /\ loaded'[s] = loaded[s] /\ prior'[s] = prior[s]
    BY <1>1, <1>3 DEF Moves
  <2>2. CASE pc[s] = "idle"
    BY <2>1, <2>2 DEF Ends
  <2>3. CASE pc[s] # "idle"
    <3>1. (\A p \in prior[s] : pc[p] = "done" /\ p \in Reqs) /\ r \notin prior[s]
      BY <1>1, <2>3 DEF Ends
    <3>2. \A p \in prior'[s] : pc'[p] = "done" /\ p \in Reqs
      BY <1>1, <2>1, <3>1 DEF Moves
    <3>3. \A t \in Token : sessions'[t] # NoRow /\ (sessions[t] # NoRow => Newer(s, t)) => Newer(s, t)'
      BY <2>1, <3>1, NewerStays
    <3>4. EndsSessions(s)' <=> EndsSessions(s)
      BY <2>1 DEF EndsSessions
    <3>5. /\ ~failed[s] /\ pc[s] = "rotate" => \A t \in Live \ {q[s].token} : Newer(s, t)
          /\ ~failed[s] /\ pc[s] = "issue" /\ q[s].kind = "change" => \A t \in Live : Newer(s, t)
          /\ EndsSessions(s) => \A t \in Live : Newer(s, t)
      BY <2>3 DEF Ends
    <3>6. ~failed'[s] /\ pc'[s] = "rotate" => \A t \in Live' \ {q'[s].token} : Newer(s, t)'
      BY <2>1, <3>3, <3>5 DEF Live
    <3>7. ~failed'[s] /\ pc'[s] = "issue" /\ q'[s].kind = "change" => \A t \in Live' : Newer(s, t)'
      BY <2>1, <3>3, <3>5 DEF Live
    <3>8. EndsSessions(s)' => \A t \in Live' : Newer(s, t)'
      BY <3>3, <3>4, <3>5 DEF Live
    <3> QED  BY <3>2, <3>6, <3>7, <3>8 DEF Ends
  <2> QED  BY <2>2, <2>3
<1>4. CASE s = r /\ pc[r] = "idle"
  <2>1. Send(r)
    BY <1>4, ActsOnce
  <2>2. prior'[r] = {p \in Reqs : pc[p] = "done"} /\ resp' = resp /\ resp[r] = "none"
    BY <1>4, <2>1 DEF Send, Pass, Goto, FInv, FTypes, LocalsKnown
  <2>3. \A p \in prior'[r] : pc'[p] = "done" /\ p \in Reqs
    BY <1>1, <2>2 DEF Moves
  <2>4. pc'[r] # "rotate" /\ pc'[r] # "issue"
    <3>1. PICK k \in menu[r] : Pass(r, IF k.kind \in SelfKinds THEN "auth" ELSE FirstStage(k))
      BY <2>1 DEF Send
    <3>2. k.kind \in SelfKinds \cup AdminKinds \cup LoginKinds
      BY <3>1 DEF FInv, FTypes, Request
    <3>3. pc'[r] = IF k.kind \in SelfKinds THEN "auth" ELSE FirstStage(k)
      BY <3>1, Stands DEF FInv, FTypes
    <3> QED  BY <3>2, <3>3 DEF FirstStage, SelfKinds, FactorKinds, AdminKinds, LoginKinds
  <2> QED  BY <1>4, <2>2, <2>3, <2>4 DEF Ends, EndsSessions
<1>5. CASE s = r /\ pc[r] # "idle"
  <2>1. /\ q' = q /\ prior' = prior /\ (failed[r] => failed'[r])
        /\ pc'[r] = "rotate" => RevokeOthers(r)
        /\ pc'[r] = "issue" /\ q[r].kind = "change" => Rotate(r)
        /\ EndsSessions(r)' => RevokeAll(r) \/ (IssueSession(r) /\ q[r].kind = "change" /\ ~failed[r])
    BY <1>5, EndingActs
  <2>2. (\A p \in prior[r] : pc[p] = "done" /\ p \in Reqs) /\ r \notin prior[r]
    BY <1>1, <1>5 DEF Ends
  <2>3. \A p \in prior'[r] : pc'[p] = "done" /\ p \in Reqs
    BY <1>1, <2>1, <2>2 DEF Moves
  <2>4. \A t \in Token : sessions'[t] # NoRow /\ (sessions[t] # NoRow => Newer(r, t)) => Newer(r, t)'
    BY <2>1, <2>2, NewerStays
  <2>5. ASSUME NEW S, Attempted(r, S), ~failed'[r] PROVE ~failed[r] /\ \A t \in Token \cap S : sessions'[t] = NoRow
    <3>1. Drop(S)
      BY <2>5 DEF Attempted, FInv, FTypes, LocalsKnown
    <3> QED  BY <2>1, <2>5, <3>1 DEF Drop
  <2>6. ASSUME ~failed'[r], pc'[r] = "rotate" PROVE \A t \in Live' \ {q'[r].token} : Newer(r, t)'
    BY <2>1, <2>5, <2>6 DEF RevokeOthers, Live
  <2>7. ASSUME ~failed'[r], pc'[r] = "issue", q'[r].kind = "change" PROVE \A t \in Live' : Newer(r, t)'
    <3>1. pc[r] = "rotate" /\ Attempted(r, {q[r].token})
      BY <2>1, <2>7 DEF Rotate
    <3>2. ~failed[r] /\ \A t \in Token \cap {q[r].token} : sessions'[t] = NoRow
      BY <2>5, <2>7, <3>1
    <3>3. \A t \in Live \ {q[r].token} : Newer(r, t)
      BY <1>5, <3>1, <3>2 DEF Ends
    <3> QED  BY <2>4, <3>2, <3>3 DEF Live
  <2>8. ASSUME EndsSessions(r)' PROVE \A t \in Live' : Newer(r, t)'
    <3>1. CASE RevokeAll(r)
      <4>1. Attempted(r, Token) /\ ~failed'[r]
        BY <2>8, <3>1 DEF RevokeAll, EndsSessions
      <4>2. \A t \in Token : sessions'[t] = NoRow
        BY <2>5, <4>1
      <4> QED  BY <4>2 DEF Live
    <3>2. CASE IssueSession(r) /\ q[r].kind = "change" /\ ~failed[r]
      <4>1. pc[r] = "issue"
        BY <3>2 DEF IssueSession
      <4>2. \A t \in Live : Newer(r, t)
        BY <1>5, <3>2, <4>1 DEF Ends
      <4> QED  BY <2>4, <4>2 DEF Live
    <3> QED  BY <2>1, <2>8, <3>1, <3>2
  <2> QED  BY <1>5, <2>3, <2>6, <2>7, <2>8 DEF Ends
<1> QED  BY <1>3, <1>4, <1>5

\* The hourly job, expiry, and the clock.
LEMMA EndsAside ==
    ASSUME \A s \in Reqs : Ends(s), Aside, \A t \in Token : AsideRow(t) /\ (sessions'[t] # NoRow => sessions[t] # NoRow),
           NEW s \in Reqs
    PROVE  Ends(s)'
<1>1. UNCHANGED <<pc, q, failed, resp, loaded, prior>>
  BY DEF Aside, factorLocals, loginLocals
<1>2. \A t \in Live' : t \in Live /\ (Newer(s, t) => Newer(s, t)')
  BY <1>1 DEF Live, AsideRow, Touched, Newer
<1>3. Ends(s)
  OBVIOUS
<1>4. EndsSessions(s)' <=> EndsSessions(s)
  BY <1>1 DEF EndsSessions
<1> QED  BY <1>1, <1>2, <1>3, <1>4 DEF Ends

\* The sessions are typed, and end.
THEOREM SessionsInv == Spec => [](FInv /\ SInv /\ \A s \in Reqs : Ends(s))
<1> DEFINE I == FInv /\ SInv /\ \A s \in Reqs : Ends(s)
<1>1. Init => I
  <2> SUFFICES ASSUME Init PROVE I
    OBVIOUS
  <2>1. PICK c \in Scenarios : sessions = c.sessions /\ nextToken = c.nextToken
    BY DEF Init
  <2>2. c.sessions \in [Token -> Session \cup {NoRow}] /\ c.nextToken \in 1..(MaxToken + 1)
    BY ScenarioAssumption
  <2>3. \A t \in Token : c.sessions[t] # NoRow => t < c.nextToken
    BY RecordAssumption
  <2>4. SInv
    BY <2>1, <2>2, <2>3, LoginSizes DEF SInv, Live
  <2>5. \A s \in Reqs : Ends(s)
    BY DEF Init, Ends
  <2> QED  BY <2>4, <2>5, InitInv
<1>2. I /\ [Next]_vars => I'
  <2> SUFFICES ASSUME I, [Next]_vars PROVE I'
    OBVIOUS
  <2>1. FInv' /\ SInv'
    BY StepInv, SessionsTyped
  <2>2. CASE \E r \in Reqs : Act(r)
    BY <2>1, <2>2, EndsAct
  <2>3. CASE Aside /\ \A t \in Token : AsideRow(t) /\ (sessions'[t] # NoRow => sessions[t] # NoRow)
    BY <2>1, <2>3, EndsAside
  <2> QED  BY <2>2, <2>3, AsideSessions
<1> QED  BY <1>1, <1>2, PTL DEF Spec

\* ChangePassword, ResetPassword, the deactivation and the deletion of a user revoke every
\* session that is older than the request, unless a revocation failed and was only logged:
\* whichever logins and other changes overlap.
THEOREM OldSessionsGone == Spec => []OldSessionsEnd
<1>1. (\A s \in Reqs : Ends(s)) /\ FInv => OldSessionsEnd
  BY DEF OldSessionsEnd, Ends, EndsSessions, Newer, FInv
<1> QED  BY <1>1, SessionsInv, PTL

---------------------------------------------------------------------------
(* Wrong codes. *)

\* The requests whose wrong code was counted on this session.
Tries(t) == {r \in Reqs : bumped[r] > 0 /\ q[r].token = t}

\* A request counts once, on its own session, and the last to count deletes it.
Tally(r) ==
    /\ bumped[r] \in Nat /\ (bumped[r] > 0 => q[r].token \in Token /\ q[r].token < nextToken)
    /\ pc[r] \notin {"dropPending_", "done"} => bumped[r] = 0

Overrun(t) ==
    sessions[t].fails >= ChallengeLimit =>
        \E r \in Tries(t) : /\ bumped[r] >= ChallengeLimit
                            /\ pc[r] = "dropPending_" \/ resp[r] = "error" \/ failed[r]

Counted(t) == sessions[t] # NoRow => sessions[t].fails = Cardinality(Tries(t)) /\ Overrun(t)

\* What a step of r does to its own count.
LEMMA TallyActs ==
    ASSUME FInv, SInv, NEW r \in Reqs, Act(r), Tally(r)
    PROVE  \/ bumped'[r] = bumped[r] /\ (bumped[r] = 0 \/ (pc[r] = "dropPending_" /\ pc'[r] = "done"))
           \/ /\ pc[r] = "bump" /\ bumped[r] = 0 /\ pc'[r] \in {"dropPending_", "done"}
              /\ q' = q /\ Counts(r, q[r].token) /\ q[r].token \in Token
<1>1. \A v : /\ Answer(r, v) \/ Refuse(r, v) \/ Reject(r, v) => pc'[r] = "done" /\ resp'[r] = v
             /\ Goto(r, v) \/ Continue(r, v) => pc'[r] = v /\ resp'[r] = resp[r]
  BY Stands DEF FInv, FTypes
<1>2. pc[r] # "done"
  BY ActsOnce
<1>3. CASE bumped' = bumped
  <2>1. CASE pc[r] # "dropPending_"
    BY <1>2, <1>3, <2>1 DEF Tally
  <2>2. CASE pc[r] = "dropPending_"
    <3>1. q[r].kind \in {"verify", "challenge"}
      BY <2>2 DEF FInv, Kinds, Fits
    <3>2. DropPendingSession(r) \/ Interrupted(r)
      BY <2>2 DEF Act, Send, Serve, FactorStep, StepUpStep, EnrolStep, ActivateStep, ProveStep, DeleteStep,
       LoginStep, ChallengeStep, SessionStep, AccountStep, CheckPassword, Survey, StepUp, Spend, Claim, Replace,
       DropPending, CreateFactor, WriteSecret, FindFactor, ProveTotp, CountFailure, ReadFailures, DropLocked, Attest,
       ClearChallenge, Enable, FindBackup, CreateBackup, InsertCodes, DeleteFactor, SweepFind, Sweep,
       Regenerate, Login, HasActivePrimaryFactor, IssuePending, IssueSession, Lookup, VerifyFactor, Bump, Consume,
       Options, SetPendingMFAChallenge, RequireAuth, Prune, Logout, RevokeSession, ComparePassword, LoadTarget,
       SaveUser, RevokeOthers, Rotate, RevokeAll, Tombstone, Purge
    <3>3. pc'[r] = "done"
      BY <1>1, <3>2 DEF DropPendingSession, Interrupted
    <3> QED  BY <1>3, <2>2, <3>3
  <2> QED  BY <2>1, <2>2
<1>4. CASE Bump(r) /\ bumped' # bumped
  <2>1. PICK t : t = q[r].token
    OBVIOUS
  <2>2. PICK x : x = sessions[t]
    OBVIOUS
  <2>3. /\ pc[r] = "bump" /\ x # NoRow /\ q' = q
        /\ sessions' = [sessions EXCEPT ![t] = [x EXCEPT !.fails = x.fails + 1]]
        /\ bumped' = [bumped EXCEPT ![r] = x.fails + 1]
        /\ (x.fails + 1 >= ChallengeLimit /\ Goto(r, "dropPending_"))
           \/ (~(x.fails + 1 >= ChallengeLimit) /\ \E v : Answer(r, v))
    BY <1>4, <2>1, <2>2 DEF Bump, FactorsKept
  <2>4. t \in Token
    BY <2>1, <2>3 DEF FInv, Kinds, Request
  <2>5. x \in Session /\ x.fails + 1 \in Nat
    BY <2>2, <2>3, <2>4 DEF SInv, Session
  <2>6. PICK y : y = [x EXCEPT !.fails = x.fails + 1]
    OBVIOUS
  <2>7. y \in Session /\ y.by = x.by /\ y.fails = x.fails + 1
    BY <2>5, <2>6, SessionSet
  <2>8. bumped'[r] = x.fails + 1 /\ sessions'[t] = y
    BY <2>3, <2>4, <2>6 DEF FInv, FTypes, LocalsKnown, SInv
  <2>9. Counts(r, t)
    BY <1>1, <2>1, <2>2, <2>3, <2>7, <2>8 DEF Counts
  <2>10. pc'[r] \in {"dropPending_", "done"} /\ bumped[r] = 0
    BY <1>1, <2>3 DEF Tally
  <2> QED  BY <2>1, <2>3, <2>4, <2>9, <2>10
<1>5. bumped' = bumped \/ Bump(r)
  BY DEF Act, Send, Interrupted, Serve, LoginStep, ChallengeStep, SessionStep, AccountStep, Login,
         HasActivePrimaryFactor, IssuePending, IssueSession, Lookup, VerifyFactor, DropPendingSession, Consume, Options,
         SetPendingMFAChallenge, RequireAuth, Prune, Logout, RevokeSession, ComparePassword, LoadTarget, SaveUser,
         RevokeOthers, Rotate, RevokeAll, Tombstone, Purge, loginLocals
<1> QED  BY <1>3, <1>4, <1>5

\* The counts stay right.
LEMMA TallyStays ==
    ASSUME FInv, SInv, \A s \in Reqs : Tally(s), NEW r \in Reqs, Act(r), NEW s \in Reqs
    PROVE  Tally(s)'
<1>1. Moves(r) /\ SessionRows(r) /\ (~Send(r) => q' = q)
  BY ActMoves, ActSessions DEF FInv, FTypes
<1>2. nextToken \in Nat /\ nextToken' \in Nat /\ nextToken <= nextToken' /\ Token \subseteq Nat
  BY <1>1, LoginSizes DEF SessionRows, SInv, Token
<1>3. \A t \in Token : t < nextToken => t < nextToken'
  BY <1>2
<1>4. CASE s # r
  <2>1. bumped'[s] = bumped[s] /\ q'[s] = q[s] /\ pc'[s] = pc[s] /\ Tally(s)
    BY <1>1, <1>4 DEF Moves
  <2> QED  BY <1>3, <2>1 DEF Tally
<1>5. CASE s = r
  <2>1. Tally(r)
    OBVIOUS
  <2>2. CASE bumped'[r] = bumped[r] /\ bumped[r] = 0
    BY <1>5, <2>1, <2>2 DEF Tally
  <2>3. CASE bumped'[r] = bumped[r] /\ bumped[r] # 0 /\ pc[r] = "dropPending_" /\ pc'[r] = "done"
    <3>1. ~Send(r)
      BY <2>3 DEF Send
    <3> QED  BY <1>1, <1>3, <1>5, <2>1, <2>3, <3>1 DEF Tally
  <2>4. CASE /\ pc[r] = "bump" /\ bumped[r] = 0 /\ pc'[r] \in {"dropPending_", "done"}
             /\ q' = q /\ Counts(r, q[r].token) /\ q[r].token \in Token
    <3>1. PICK t \in Token : t = q[r].token
      BY <2>4
    <3>2. sessions[t] # NoRow /\ bumped'[r] = sessions[t].fails + 1
      BY <2>4, <3>1 DEF Counts
    <3>3. sessions[t].fails \in Nat /\ t < nextToken
      BY <3>2 DEF SInv, Live, Session
    <3> QED  BY <1>2, <1>5, <2>4, <3>1, <3>2, <3>3 DEF Tally
  <2> QED  BY <2>1, <2>2, <2>3, <2>4, TallyActs
<1> QED  BY <1>4, <1>5

\* The session on which r counts is not ended by that step, and no other counter changes.
LEMMA CountedOthers ==
    ASSUME FInv, SInv, \A s \in Reqs : Tally(s), NEW r \in Reqs, Act(r), NEW t \in Token,
           ~Counts(r, t)
    PROVE  Tries(t)' = Tries(t)
<1>1. Moves(r)
  BY ActMoves DEF FInv, FTypes
<1>2. \A s \in Reqs \ {r} : bumped'[s] = bumped[s] /\ q'[s] = q[s]
  BY <1>1 DEF Moves
<1>3. Tally(r) /\ Tally(r)'
  BY TallyStays
<1>4. (bumped'[r] > 0 /\ q'[r].token = t) <=> (bumped[r] > 0 /\ q[r].token = t)
  <2>1. CASE bumped'[r] = bumped[r] /\ bumped[r] = 0
    BY <2>1
  <2>2. CASE bumped'[r] = bumped[r] /\ pc[r] = "dropPending_"
    <3>1. q' = q
      BY <2>2, ActsOnce, ActMoves DEF FInv, FTypes
    <3> QED  BY <2>2, <3>1
  <2>3. CASE bumped[r] = 0 /\ q' = q /\ Counts(r, q[r].token)
    BY <2>3
  <2> QED  BY <1>3, <2>1, <2>2, <2>3, TallyActs
<1> QED  BY <1>2, <1>4 DEF Tries

\* The request that counts last is about to delete the session.
LEMMA OverrunStays ==
    ASSUME FInv, SInv, \A s \in Reqs : Tally(s), NEW r \in Reqs, Act(r), NEW t \in Token,
           sessions'[t] # NoRow, NEW s \in Tries(t), bumped[s] >= ChallengeLimit,
           pc[s] = "dropPending_" \/ resp[s] = "error" \/ failed[s]
    PROVE  /\ bumped'[s] >= ChallengeLimit /\ bumped'[s] > 0 /\ q'[s].token = t
           /\ pc'[s] = "dropPending_" \/ resp'[s] = "error" \/ failed'[s]
<1>1. s \in Reqs /\ bumped[s] > 0 /\ q[s].token = t /\ Tally(s)
  BY DEF Tries
<1>2. CASE s # r
  BY <1>1, <1>2, ActMoves DEF Moves, FInv, FTypes
<1>3. CASE s = r
  <2>1. pc[r] # "done" /\ resp[r] = "none"
    BY ActsOnce DEF FInv
  <2>2. pc[r] = "dropPending_" /\ pc[r] # "idle"
    BY <1>1, <1>3, <2>1 DEF Tally
  <2>3. q' = q /\ (failed[r] => failed'[r])
    BY <2>2, EndingActs
  <2>4. bumped'[r] = bumped[r]
    BY <1>1, <1>3, <2>2, TallyActs
  <2>5. DropPendingSession(r) \/ Interrupted(r)
    BY <2>2 DEF Act, Send, Serve, FactorStep, StepUpStep, EnrolStep, ActivateStep, ProveStep, DeleteStep,
       LoginStep, ChallengeStep, SessionStep, AccountStep, CheckPassword, Survey, StepUp, Spend, Claim, Replace,
       DropPending, CreateFactor, WriteSecret, FindFactor, ProveTotp, CountFailure, ReadFailures, DropLocked, Attest,
       ClearChallenge, Enable, FindBackup, CreateBackup, InsertCodes, DeleteFactor, SweepFind, Sweep,
       Regenerate, Login, HasActivePrimaryFactor, IssuePending, IssueSession, Lookup, VerifyFactor, Bump, Consume,
       Options, SetPendingMFAChallenge, RequireAuth, Prune, Logout, RevokeSession, ComparePassword, LoadTarget,
       SaveUser, RevokeOthers, Rotate, RevokeAll, Tombstone, Purge
  <2>6. CASE Interrupted(r)
    <3>1. resp'[r] = "error"
      BY <2>6, Stands DEF Interrupted, FInv, FTypes
    <3> QED  BY <1>1, <1>3, <2>3, <2>4, <3>1
  <2>7. CASE DropPendingSession(r)
    <3>1. Attempted(r, {t})
      BY <1>1, <1>3, <2>7 DEF DropPendingSession
    <3>2. failed'[r]
      BY <3>1 DEF Attempted, Drop, FInv, FTypes, LocalsKnown
    <3> QED  BY <1>1, <1>3, <2>3, <2>4, <3>2
  <2> QED  BY <2>5, <2>6, <2>7
<1> QED  BY <1>2, <1>3

\* A step of a request.
LEMMA CountedAct ==
    ASSUME FInv, SInv, \A s \in Reqs : Tally(s), NEW r \in Reqs, Act(r), NEW t \in Token, Counted(t)
    PROVE  Counted(t)'
<1> SUFFICES ASSUME sessions'[t] # NoRow
             PROVE  sessions'[t].fails = Cardinality(Tries(t)') /\ Overrun(t)'
  BY DEF Counted
<1>1. SessionRow(r, t) /\ (sessions[t] # NoRow \/ Inserted(r, t)) /\ ChallengeLimit \in Nat /\ ChallengeLimit > 0
  BY ActSessions, LoginSizes DEF SessionRows
<1>2. ASSUME NEW s \in Tries(t), bumped[s] >= ChallengeLimit,
             pc[s] = "dropPending_" \/ resp[s] = "error" \/ failed[s]
      PROVE  Overrun(t)'
  <2>1. s \in Reqs
    BY DEF Tries
  <2>2. /\ bumped'[s] >= ChallengeLimit /\ bumped'[s] > 0 /\ q'[s].token = t
        /\ pc'[s] = "dropPending_" \/ resp'[s] = "error" \/ failed'[s]
    BY <1>2, OverrunStays
  <2> QED  BY <2>1, <2>2 DEF Overrun, Tries
<1>3. CASE Inserted(r, t) /\ ~Counts(r, t)
  <2>1. sessions'[t].fails = 0 /\ t = nextToken
    BY <1>3 DEF Inserted
  <2>2. Tries(t) = {}
    <3>1. ASSUME NEW s \in Tries(t) PROVE FALSE
      <4>1. s \in Reqs /\ bumped[s] > 0 /\ q[s].token = t /\ Tally(s)
        BY <3>1 DEF Tries
      <4>2. t < nextToken /\ nextToken \in Nat
        BY <4>1 DEF Tally, SInv
      <4> QED  BY <2>1, <4>2
    <3> QED  BY <3>1
  <2>3. Cardinality(Tries(t)') = 0
    BY <1>3, <2>2, CountedOthers, FS_EmptySet
  <2> QED  BY <1>1, <2>1, <2>3 DEF Overrun
<1>4. CASE sessions[t] # NoRow /\ sessions'[t].fails = sessions[t].fails /\ ~Counts(r, t)
  <2>1. Tries(t)' = Tries(t)
    BY <1>4, CountedOthers
  <2>2. Overrun(t)'
    BY <1>2, <1>4 DEF Counted, Overrun
  <2> QED  BY <1>4, <2>1, <2>2 DEF Counted
<1>5. CASE Counts(r, t)
  <2>1. /\ pc[r] = "bump" /\ t = q[r].token /\ sessions[t] # NoRow
        /\ sessions'[t].fails = sessions[t].fails + 1 /\ bumped'[r] = sessions[t].fails + 1
        /\ bumped'[r] >= ChallengeLimit => pc'[r] = "dropPending_"
    BY <1>5 DEF Counts
  <2>2. sessions[t].fails \in Nat /\ sessions[t].fails = Cardinality(Tries(t))
    BY <2>1 DEF SInv, Session, Counted
  <2>3. bumped[r] = 0 /\ q' = q
    <3>1. Tally(r)
      OBVIOUS
    <3>2. q' = q
      BY <2>1, ActsOnce, ActMoves DEF FInv, FTypes
    <3> QED  BY <2>1, <3>1, <3>2 DEF Tally
  <2>4. \A s \in Reqs \ {r} : bumped'[s] = bumped[s] /\ q'[s] = q[s]
    BY ActMoves DEF Moves, FInv, FTypes
  <2>5. bumped'[r] > 0
    BY <2>1, <2>2
  <2>6. Tries(t)' = Tries(t) \cup {r} /\ r \notin Tries(t)
    BY <2>1, <2>3, <2>4, <2>5 DEF Tries
  <2>7. IsFiniteSet(Tries(t))
    <3>1. Tries(t) \in SUBSET Reqs
      BY DEF Tries
    <3> QED  BY <3>1, ClientAssumption, FS_Subset
  <2>8. Cardinality(Tries(t)') = sessions'[t].fails
    BY <2>1, <2>2, <2>6, <2>7, FS_AddElement
  <2>9. Overrun(t)'
    BY <2>1, <2>3, <2>5 DEF Overrun, Tries
  <2> QED  BY <2>8, <2>9
<1> QED  BY <1>1, <1>3, <1>4, <1>5 DEF SessionRow, Touched

\* BumpMFAChallengeFailures counts every wrong code, however many requests try at once, and
\* the request that reaches the limit is the one that deletes the session.
THEOREM CodesCounted == Spec => []WrongCodesCounted
<1> DEFINE W == (\A r \in Reqs : Tally(r)) /\ \A t \in Token : Counted(t)
<1>1. Init => W
  <2> SUFFICES ASSUME Init PROVE W
    OBVIOUS
  <2>1. \A r \in Reqs : bumped[r] = 0
    BY DEF Init
  <2>2. \A t \in Token : Tries(t) = {}
    BY <2>1 DEF Tries
  <2>3. \A t \in Token : sessions[t] # NoRow => sessions[t].fails = 0
    BY RecordAssumption DEF Init
  <2>4. ChallengeLimit \in Nat /\ ChallengeLimit > 0
    BY LoginSizes
  <2> QED  BY <2>1, <2>2, <2>3, <2>4, FS_EmptySet DEF Tally, Counted, Overrun
<1>2. FInv /\ SInv /\ W /\ [Next]_vars => W'
  <2> SUFFICES ASSUME FInv, SInv, W, [Next]_vars PROVE W'
    OBVIOUS
  <2>1. CASE \E r \in Reqs : Act(r)
    BY <2>1, TallyStays, CountedAct
  <2>2. CASE Aside /\ nextToken' = nextToken
             /\ \A t \in Token : AsideRow(t) /\ (sessions'[t] # NoRow => sessions[t] # NoRow)
    <3>1. UNCHANGED <<pc, q, failed, resp, bumped>>
      BY <2>2 DEF Aside, factorLocals, loginLocals
    <3>2. \A r \in Reqs : Tally(r)'
      BY <2>2, <3>1 DEF Tally
    <3>3. \A t \in Token : sessions'[t] # NoRow => sessions[t] # NoRow /\ sessions'[t].fails = sessions[t].fails
      BY <2>2 DEF AsideRow, Touched
    <3>4. \A t \in Token : Tries(t)' = Tries(t)
      BY <3>1 DEF Tries
    <3>5. ASSUME NEW t \in Token PROVE Counted(t)'
      BY <3>1, <3>3, <3>4 DEF Counted, Overrun
    <3> QED  BY <3>2, <3>5
  <2> QED  BY <2>1, <2>2, AsideSessions
<1>3. SInv /\ W => WrongCodesCounted
  BY DEF SInv, Counted, Overrun, Tries, WrongCodesCounted, Live
<1> QED  BY <1>1, <1>2, <1>3, SessionsInv, PTL DEF Spec
=============================================================================

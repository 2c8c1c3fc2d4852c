CONSTANTS
    r1 = r1
    r2 = r2
    r3 = r3
    Reqs = {r1, r2, r3}
    pw1 = pw1
    pw2 = pw2
    key1 = key1
    Passwords = {pw1, pw2}
    Keys = {key1}
    NoKey = NoKey
    NoRow = NoRow
    NoUser = NoUser
    NoCode = NoCode
    NoRequest = NoRequest
    NoReq = NoReq
    MaxFactor = 4
    MaxCode = 3
    BatchSize = 1
    MaxStep = 2
    ActivationLimit = 2
    ChallengeLimit = 2
    MaxToken = 5
    MaxNonce = 2
    Scenarios <- MCScenarios
SPECIFICATION Spec
INVARIANTS CodesSpentOnce ActiveFactorsUsable WrongCodesCounted OldSessionsEnd LoginsNeedSecondFactor

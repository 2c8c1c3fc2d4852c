CONSTANTS
    r1 = r1
    r2 = r2
    r3 = r3
    Reqs = {r1, r2, r3}
    root = root
    boss = boss
    helper = helper
    kita = kita
    Users = {root, boss, helper}
    Orgs = {kita}
    ann = ann
    ben = ben
    Names = {ann, ben}
    v1 = v1
    v2 = v2
    Numbers = {v1, v2}
    Files <- MCFiles
    NoRequest = NoRequest
    NoRow = NoRow
    NoRole = NoRole
    NoTime = NoTime
    Keep = Keep
    NoRun = NoRun
    Seeded = Seeded
    MaxPerson = 4
    MaxContract = 5
    MaxDay = 2
    MaxRecord = 3
    MaxClock = 2
    MaxRow = 7
    PageSize = 1
    DenialLimit = 1
    Missing = Missing
    Waived = Waived
    Scenarios <- MCScenarios
SPECIFICATION Spec
INVARIANTS RecordsConsistent SuperadminLostOnlyByRace AnsweredHolds ImportReplaces TrailComplete TrailTrue

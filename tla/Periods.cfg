SPECIFICATION FairSpec
CONSTANTS
    MaxDay = 3
    MaxId = 9
    Meanings = {"income", "expense"}
    Keys = {"a", "b"}
    Schedules <- MCSchedules
    Requests <- MCRequests
    NoRow = NoRow
    NoOwner = NoOwner
    NoRequest = NoRequest
    NoKey = NoKey
    NoMeaning = NoMeaning
    r1 = r1
    r2 = r2
    r3 = r3
    Reqs = {r1, r2, r3}
INVARIANTS BudgetOnePerDay NothingDangles
PROPERTIES AmbiguousOnlyByRace MeaningKept EveryRequestAnswered

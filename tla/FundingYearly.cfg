CONSTANTS
    r1 = r1
    r2 = r2
    r3 = r3
    Reqs = {r1, r2, r3}
    v1 = v1
    v2 = v2
    v3 = v3
    Numbers = {v1, v2, v3}
    CareType = "care_type"
    ContractPropertyKeys = {"care_type", "integration"}
    MaxMealShare = 100
    Blank = Blank
    Terminator = Terminator
    NoRequest = NoRequest
    NoRow = NoRow
    Children = {1, 2, 3}
    Born <- MCBorn
    LastMonth = 3
    YearMonths = 2
    LeapMonths = {0}
    Staff <- MCStaff
    Plans <- MCPlans
    Items <- MCItems
    Added <- MCAdded
    Scenarios <- MCYearly
SPECIFICATION Spec
PROPERTY YearlyUpdateImported

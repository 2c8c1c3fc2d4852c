SPECIFICATION Spec
CONSTANTS
    MaxDay = 4
    Birth = 2
    MaxId = 5
    Ids <- MCIds
    t1 = t1
    t2 = t2
    Terms = {t1, t2}
    Keys = {"care", "meal"}
    Funding <- ChildFunding
    Payable <- AllPayable
    Requests <- ChildRequests
    Timelines <- ChildTimelines
    Nil = Nil
    NoPeriod = NoPeriod
    Unset = Unset
    AnyVersion = AnyVersion
    NoRow = NoRow
    Gone = Gone
    NoRequest = NoRequest
    r1 = r1
    r2 = r2
    r3 = r3
    Reqs = {r1, r2, r3}
SYMMETRY ReqSymmetry
INVARIANTS NoOverlap
PROPERTIES NoLostUpdate IfMatchHonoured OmittedFieldsKept SeamKeepsCoverage RefinesTimeline

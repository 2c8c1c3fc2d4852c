SPECIFICATION FairSpec
CONSTANTS
    Ids = {1, 2, 3, 4, 5}
    Names <- MCNames
    Canon <- MCCanon
    Owners = {"child", "employee"}
    Organizations <- MCOrganizations
    Requests <- MCRequests
    NoSection = NoSection
    NoRequest = NoRequest
    NoName = NoName
    r1 = r1
    r2 = r2
    r3 = r3
    Reqs = {r1, r2, r3}
INVARIANTS AtMostOneDefault PromotesDoNotCollide DefaultSurvives
PROPERTIES PromoteTakesEffect EveryRequestAnswered

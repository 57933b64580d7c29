SPECIFICATION FairSpec
CONSTANTS
    Lines = {l1}
    Requests = {r1, r2}
    NoOne = NoOne
    Ops = {"apply", "clear", "put", "accept", "seed"}
    Fails = {}
    Removes = FALSE
    MaxCrashes = 0
    MaxPlans = 2
    MaxGroups = 2
INVARIANTS PlanAndMeta
PROPERTIES EveryRequestEnds

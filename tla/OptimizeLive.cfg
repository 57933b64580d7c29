SPECIFICATION FairSpec
CONSTANTS
    Cloud = TRUE
    MaxJobs = 1
    Shards = {s1, s2}
    Handlers = {h1}
    Faults <- LivenessFaults
INVARIANTS OneMerge
PROPERTIES DiscardsNoPlan SearchEnds StopEnds

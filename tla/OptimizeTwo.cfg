SPECIFICATION Spec
CONSTANTS
    Cloud = TRUE
    MaxJobs = 2
    Shards = {s1}
    Handlers = {h1}
    Faults = {"retry"}
INVARIANTS IInv
PROPERTIES Implements

SPECIFICATION Spec
CONSTANTS
    Lines = {l1, l2}
    Requests = {r1}
    NoOne = NoOne
    Ops = {"apply", "accept", "clear", "seed", "done", "put", "add"}
    Fails = {"rows", "meta", "frozen", "undo", "ranks", "queue", "refreeze", "save", "book", "drafts", "requeue"}
    Removes = TRUE
    MaxCrashes = 1
    MaxPlans = 2
    MaxGroups = 2
SYMMETRY Symmetry
INVARIANTS PlanInv PlanOrQueue
PROPERTIES PublishStays DraftsKept

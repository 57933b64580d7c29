SPECIFICATION Spec
CONSTANTS
    Orders = {o1, o2}
    NSteps = 2
    Ordered = 2
    MaxQty = 1
    MaxDay = 1
    MaxEntries = 3
    Requests = {r1, r2}
    Deletes = TRUE
    LateRejects = FALSE
    RewritesAlone = TRUE
    OrdersApart = TRUE
    ListWrites = {"whole", "delPush"}
    MaxCrashes = 1
SYMMETRY Symmetry
INVARIANTS LedgerInv
PROPERTIES PunchesStay RollbackReturns OrdersStay

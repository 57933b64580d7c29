SPECIFICATION Spec
CONSTANTS
    Orders = {1, 2, 3, 4, 5, 6, 7}
    Booked = {1, 2}
    ItemOf <- MCItemOf
    QtyOf <- MCQtyOf
    Routes <- MCRoutes
    Staffed = {"A", "B"}
    Setup = 1
    Window = 1
    Metric = "slack"
    Within <- MCNone
    Days = {0, 1, 2}
    FirstDays = {0, 1}
    Uploads = {3, 4, 7}
    EntryDays = {0, 1}
    DayLength = 4
    Holidays = {1}
    Reserved <- MCReserved
    Exhaustive = 4
    Drafts <- MCDrafts
    Targets <- MCNoTarget
    MaxChanges = 3
INVARIANTS BatchesSound AcceptsKept

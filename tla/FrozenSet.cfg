SPECIFICATION Spec
CONSTANTS
    Lines = {1, 2}
    FirstBooks = {{1}, {1, 2}}
    Qty = 2
    FirstRouting <- MCRouting
    Options <- MCOptions
    Cycle <- MCCycle
    Setup = 1
    Overlap = 50
    DayLength = 12
    Breaks <- MCBreaks
    WaitsForDone = TRUE
    MaxChanges = 5
INVARIANTS FrozenSound FloorKept

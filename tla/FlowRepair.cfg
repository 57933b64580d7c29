SPECIFICATION Spec
CONSTANTS
    Jobs = {1, 2, 3, 4}
    NewJobs = {4}
    FirstOrders <- AllButOne
    Books <- Books4
    Qty = 2
    Machines = {"A", "B", "H"}
    People = {1, 2, 3, 4}
    DayTicks = 10
    FirstStart = 3
    FirstEnd = 9
    SecondEnd = 2
    MealBreaks <- Meals
    OffDays = {2}
    NightMachines = {"A", "B"}
    LookAhead = 6
    Shops <- AllShops
    Home <- UsualShop
    Starts = {0, 11}
    Setup = 1
    OverlapPct = 50
    MinStretch = 1
    LateTolerance = 0
    GuardPasses = 8
    Horizon = 60
\* The plan is made: nobody asks for another one.
CHECK_DEADLOCK FALSE
INVARIANTS BoardInv WorksWhenOpen SetupPaidOnce PieceFlow RepairKeepsPlan
PROPERTIES PassedByTheReady

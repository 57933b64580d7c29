SPECIFICATION Spec
CONSTANTS
    Orders = {1, 2, 3}
    Due <- MCDue
    Work <- MCWork
    MinPerDay = 4
    Musts <- MCMusts
    InForce <- MCInForce
    Kinds = {"ils", "memetic", "classic"}
    Landscapes <- MCLandscapes
    Budgets = {5, 7}
    Polish = 2
    PopSize = 4
    MaxStagnation = 1
    RestartAfter = 1
INVARIANTS SearchKeeps NeverWorse
PROPERTIES Ends

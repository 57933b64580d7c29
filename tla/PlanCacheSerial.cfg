SPECIFICATION Spec
CONSTANTS
    Clients = {r1}
    Values = {0, 1}
    Serial = TRUE
    MaxLines = 2
    MaxTarget = 1
    MaxDay = 1
    Nothing = Nothing
INVARIANTS ServedHonest
PROPERTIES AcceptHonest AcceptedAsSearched

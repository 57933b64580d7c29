SPECIFICATION Spec
CONSTANTS
    c1 = c1
    m1 = m1
    m2 = m2
    p1 = p1
    d1 = d1
    o1 = o1
    a = a
    b = b
    k = k
    Items = {c1}
    Machines = {m1, m2}
    People = {p1}
    Days = {d1}
    Orders = {o1}
    ItemOf <- ItemOfAll
    Menu <- Steps
    MaxSteps = 3
    Workbooks <- SomeBooks
    Clients = {1}
    Serial = TRUE
    StalePages = FALSE
    MaxEdits = 4
INVARIANTS TablesSound PunchedIsPrefix
PROPERTIES SeededFirst

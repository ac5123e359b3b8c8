CONSTANTS
    table = table  serial = serial  counter = counter  a1 = a1  a2 = a2
    Tables = {table}
    Sequences = {serial, counter}
    TableOf <- SerialColumn
    Sessions = {a1, a2}
    Repair = Repair
    CatalogOrders <- TableFirst
    LockTimeout = 1
    Deadline = 3
    MaxTransactions = 2
    MaxDisruptions = 1
SPECIFICATION Spec
INVARIANTS TypeOK RestIsOwned NoWaitCycle BriefBlocking
PROPERTIES RepairCompletes SettledTakesNoLocks
CHECK_DEADLOCK FALSE

CONSTANTS
    table = table  serial = serial  counter = counter  a1 = a1  a2 = a2
    Tables = {table}
    Sequences = {serial}
    TableOf <- SerialColumn
    Sessions = {a1}
    Repair = Repair
    CatalogOrders <- SequenceFirst
    LockTimeout = 1
    Deadline = 3
    MaxTransactions = 0
    MaxDisruptions = 0
SPECIFICATION Spec
PROPERTY RepairCompletes
CHECK_DEADLOCK FALSE

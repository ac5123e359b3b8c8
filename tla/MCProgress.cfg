CONSTANTS
    p1 = p1  p2 = p2  p3 = p3  p4 = p4  legacy = legacy  h1 = h1  h2 = h2
    Passwords = {p1, p2, p3, legacy}
    NoPassword = NoPassword
    Hosts = {h1}
    NoHost = NoHost
    Policies = {"Delete", "Retain"}
    Clusters = {"absent", "ready"}
    Configs = {"invalid", "ok", "secretMissing"}
    InitialServers <- RolelessServers
    Disruptions = {"apiError", "apiLost", "sqlError", "sqlLost", "repairError", "crash", "secretDeleted", "cluster", "config"}
    MaxUid = 2
    MaxLag = 1
    MaxDisruptions = 1
SPECIFICATION Spec
PROPERTIES Converges DeletionCompletes ImplementsLifecycle
CHECK_DEADLOCK FALSE

CONSTANTS
    p1 = p1  h1 = h1  h2 = h2
    Hosts = {h1, h2}
    NoHost = NoHost
    Passwords = {p1}
    NoPassword = NoPassword
    Policies = {"Retain"}
    AdminSecrets <- AnySecret
    InitialServers <- EmptyServers
    Disruptions = {"crash", "secret", "server"}
    MaxUid = 1
    MaxLag = 1
    MaxDisruptions = 1
SPECIFICATION StartSpec
INVARIANTS TypeOK RestIsDone
PROPERTIES ServedThroughCluster MoveTogether
CHECK_DEADLOCK FALSE

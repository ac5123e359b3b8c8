CONSTANTS
    p1 = p1  p2 = p2  p3 = p3  p4 = p4  legacy = legacy  h1 = h1  h2 = h2
    Passwords = {p1, p2, p3, legacy}
    NoPassword = NoPassword
    Hosts = {h1}
    NoHost = NoHost
    Policies = {"Delete"}
    Clusters = {"ready"}
    Configs = {"ok"}
    InitialServers <- AnyServers
    Disruptions = {"alterError"}
    MaxUid = 1
    MaxLag = 1
    MaxDisruptions = 2
SPECIFICATION Spec
INVARIANT PasswordMatchesSecret
CHECK_DEADLOCK FALSE

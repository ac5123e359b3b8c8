CONSTANTS
    p1 = p1  p2 = p2  p3 = p3  p4 = p4  legacy = legacy  h1 = h1  h2 = h2
    Passwords = {p1, p2, p3, legacy}
    NoPassword = NoPassword
    Hosts = {h1, h2}
    NoHost = NoHost
    Policies = {"Delete"}
    Clusters = {"ready"}
    Configs = {"ok"}
    InitialServers <- LikeServers
    Disruptions = {"apiError", "apiLost", "sqlError", "sqlLost", "repairError", "secretDeleted", "crash", "host", "resync"}
    MaxUid = 2
    MaxLag = 2
    MaxDisruptions = 2
SPECIFICATION Spec
SYMMETRY PasswordSymmetry
INVARIANTS TypeOK GuardedWhileProvisioning DeletionSparesLive ReadyIsProvisioned RestIsServed RestIsReleased
PROPERTY WorkingPasswordKept
CHECK_DEADLOCK FALSE

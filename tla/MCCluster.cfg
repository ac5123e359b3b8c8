CONSTANTS
    h1 = h1  h2 = h2
    Hosts = {h1, h2}
    NoHost = NoHost
    Specs = {h1, "reference", "unset"}
    AdminSecrets <- AnySecret
    Disruptions = {"apiError", "apiLost", "crash", "secret", "server"}
    MaxUid = 1
    MaxGeneration = 2
    MaxLag = 1
    MaxDisruptions = 2
SPECIFICATION Spec
INVARIANTS TypeOK ReadySpeaksOfSpec RestIsReady
PROPERTIES BecomesReady FollowsSecret NoticesLoss EmptyIsReported
CHECK_DEADLOCK FALSE

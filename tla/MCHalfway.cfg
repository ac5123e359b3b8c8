CONSTANTS
    c1 = c1  c2 = c2  branch = branch
    Commits = {c1, c2, branch}
    NoCommit = NoCommit
    Main <- Merged
    MaxVersion = 3
    Disruptions = {}
    MaxRuns = 5
    MaxDisruptions = 0
SPECIFICATION Spec
SYMMETRY CommitSymmetry
INVARIANTS NeverHalfway
CHECK_DEADLOCK FALSE

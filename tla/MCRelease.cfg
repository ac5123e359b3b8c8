CONSTANTS
    c1 = c1  c2 = c2  branch = branch
    Commits = {c1, c2, branch}
    NoCommit = NoCommit
    Main <- Merged
    MaxVersion = 3
    Disruptions = {"outage", "lost", "move", "delete", "rerun"}
    MaxRuns = 5
    MaxDisruptions = 2
SPECIFICATION Spec
SYMMETRY CommitSymmetry
INVARIANTS TypeOK OneCommit HalfwayIsResumable
PROPERTIES ArtifactsFinal HistoryKept ChartsInOrder MovingTagsForward
CHECK_DEADLOCK FALSE

SPECIFICATION Spec
CONSTANTS
    Runs = {r1, r2}
    Workspaces = {w1}
    MaxCommit = 2
    MaxFollowUps = 1
    SlowRuns = FALSE
PROPERTIES
    RequestRunBeforeRelease
CHECK_DEADLOCK FALSE

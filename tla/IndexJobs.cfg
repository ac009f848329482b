SPECIFICATION MCSpec
CONSTANTS
    Runs = {r1, r2}
    Workspaces = {w1, w2}
    MaxCommit = 2
    MaxFollowUps = 1
    SlowRuns = FALSE
    None = none
SYMMETRY Symmetry
INVARIANTS
    TypeOK
    OneIndexAtATime
    PushesNotForgotten
    StatusFollowsLock
    DiscussionSafe
PROPERTIES
    GraphNeverGoesBack
    FullIsServed
CHECK_DEADLOCK FALSE

SPECIFICATION MCFairSpec
CONSTANTS
    Users = {1, 2, 3}
    Github = {g}
    Emails = {e}
    Merges = {m, n}
    Requests = {q1}
    Rows = {r}
    MaxStops = 1
    None = none
    Tracked = {i1}
    Items = {a, b}
    Runners = {s1}
    Edits = {e1}
    Indexers = {t1, t2}
    Workspaces = {w1}
    MaxCommit = 1
    MaxFollowUps = 1
    SlowRuns = FALSE
    Asks = {a1}
    MaxMessages = 4
    MaxLookups = 2
    MaxPerRound = 1
    MaxTries = 2
    Conns = {c1}
    People = {u}
    Topics = {d1}
    OutboxSize = 2
    MaxPerUser = 1
    MaxEvents = 3
    MaxRemovals = 1
INVARIANTS
    NothingSilent
PROPERTIES
    MergesFinish
    EavesdropEnds
    EventuallyMirrors
    EventuallyRetryable
    TasksEnd
    AttentionAsked
CHECK_DEADLOCK FALSE

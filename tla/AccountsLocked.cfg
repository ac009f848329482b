SPECIFICATION FairSpec
CONSTANTS
    Users = {1, 2, 3}
    Github = {g}
    Emails = {e}
    Merges = {m}
    Requests = {q1}
    Rows = {}
    MaxStops = 1
    None = none
PROPERTIES
    LockedIsTemporary
CHECK_DEADLOCK FALSE

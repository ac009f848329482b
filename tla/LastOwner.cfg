SPECIFICATION Spec
CONSTANTS
    Users = {u1, u2}
    Requests = {r1, r2}
    Invites = {i1}
    None = none
INVARIANTS
    OwnerKept
CHECK_DEADLOCK FALSE

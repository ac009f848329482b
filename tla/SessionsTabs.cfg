SPECIFICATION Spec
CONSTANTS
    Tokens = {t1, t2, t3}
    Requests = {r1, r2}
    NoToken = none
SYMMETRY Symmetry
INVARIANTS
    TabsRefreshTogether
CHECK_DEADLOCK FALSE

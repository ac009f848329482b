SPECIFICATION Spec
CONSTANTS
    Paths = {p1, p2}
    Contents = {plain, importing}
    Importing = importing
    Absent = absent
SYMMETRY Symmetry
INVARIANTS
    InterruptedWorkIsRedone

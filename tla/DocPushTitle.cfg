SPECIFICATION Spec
CONSTANTS
    Titles = {s, t}
    Texts = {a, b}
    Blank = a
    None = none
    Pushers = {p1}
SYMMETRY Symmetry
INVARIANTS
    TitleKept

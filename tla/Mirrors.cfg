SPECIFICATION MCSpec
CONSTANTS
    Items = {i1}
    Values = {x1, x2}
    Absent = none
    Runs = {y1, y2}
    Edits = {e1}
    SlowRuns = TRUE
    Paths = {x1, x2}
    Contents = {plain, importing}
    Importing = importing
    None = none
SYMMETRY Symmetry
INVARIANTS
    TypeOK
    StaleIsDirty
    CompletedRunMirrors
    SuggestionsSafe
    BoardsSafe
    GraphSound
PROPERTIES
    GraphBeforeFacts
CHECK_DEADLOCK FALSE

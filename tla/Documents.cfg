SPECIFICATION MCFairSpec
CONSTANTS
    Items = {i1, i2}
    Titles = {s, t}
    Texts = {a, b}
    Blank = a
    Pushers = {p1}
    Asks = {a1, a2}
    MaxMessages = 4
    MaxLookups = 2
    MaxPerRound = 1
    MaxTries = 2
    FileLen = 5
    Calls = {y1, y2}
    Rounds = 1
    MaxContext = 9
    MaxSource = 2
    MaxLookup = 5
    MaxRead = 3
    MaxCited = 2
    FlowDepth = 2
    MaxFlow = 1
    None = none
INVARIANTS
    TypeOK
    TextKept
    ChatSafe
    TreeSafe
    AnswersSound
    ChecksSafe
PROPERTIES
    PageSettles
    TheirsSeenFirst
CHECK_DEADLOCK FALSE

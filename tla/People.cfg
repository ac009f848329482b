SPECIFICATION MCSpec
CONSTANTS
    Tokens = {x1, x2, x3}
    Requests = {y1, y2}
    NoToken = none
    Others = {x1, x2, x3}
    Challenges = {y1, y2}
    MaxAttempts = 2
    MaxResends = 1
    MaxCodes = 2
    Products = {y1, y2}
    MaxTokens = 3
    Users = {x1, x2, x3}
    Invites = {i1}
    None = none
    Accs = {1, 2, 3}
    Github = {g1, g2}
    Emails = {e1}
    Rows = {w1}
SYMMETRY Symmetry
INVARIANTS
    TypeOK
    OneTokenPerSignIn
    SwapExtendsChain
    SignedOutForGood
    CodesSafe
    TokenKept
    OwnerKeptAlone
    InviteAdmitsOne
    MergeSafe
    AccessSafe
PROPERTIES
    ImplementsSignIns
CHECK_DEADLOCK FALSE

SPECIFICATION StemSpec
CONSTANTS
    n1 = n1
    n2 = n2
    bad = bad
    x = x
    y = y
    Nodes = {n1, n2}
    Items = {x, y, bad}
    Submissions <- MCSubmissions
    Foreign <- MCForeign
    Wellformed = {x, y}
    InitialTTL = 1
    StempoolCap = 1
    SeenCap = 1
INVARIANTS
    Covered
    StempoolSound
PROPERTIES
    NeverLost
CHECK_DEADLOCK FALSE

CONSTANTS
    t1 = t1
    t2 = t2
    p1 = p1
    p2 = p2
    p3 = p3
    m1 = m1
    m2 = m2
    a1 = a1
    a2 = a2
    h1 = h1
    h2 = h2
    x1 = x1
    x2 = x2
    w1 = w1
    w2 = w2
    onClick = onClick
    onHover = onHover
    onType = onType
    onHidden = onHidden
    PtrThread = {t1, t2}
    Ptr = {p1, p2, p3}
    NoPtr = NoPtr
    Block = {m1, m2}
    NoBlock = NoBlock
    Unsupported = {m2}
    Array = {a1, a2}
    Handle = {h1, h2}
    Thing = {x1, x2}
    Nothing = Nothing
    MinGrow = 1
    Slack = 0
    MaxSize = 2
    MaxRefs = 3
    Setter = {t1, t2}
    Weak = {w1, w2}
    NoWeak = NoWeak
    Address = {x1, x2}
    Null = Null
    Looks = {1, 2}
    MaxObjects = 2
    MaxLife = 2
    Bound = {onClick, onHover, onType, onHidden}
    Gone = Gone
    Params <- MCParams
    Finds <- MCFinds
    Signature <- MCSignature
    MaxBound = 3
    MaxCalls = 2
    Depth = 3
    MaxMembers = 3
SPECIFICATION MCSpec
SYMMETRY MCSymmetry
INVARIANTS
    NoDanglingPointer
    NoBlockIsLost
    EntriesHaveReferences
    LiveObjectsAreFound
    OnlyItsObjectIsFound
    UndisturbedCallsAreWhole
    FindsMostDerived
PROPERTIES
    ImplementsOwnership
CHECK_DEADLOCK FALSE

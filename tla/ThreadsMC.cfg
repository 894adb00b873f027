CONSTANTS
    t1 = t1
    t2 = t2
    builtin = builtin
    client = client
    Thread = {t1, t2}
    Logger = Logger
    Callback = {builtin, client}
    Builtin = builtin
    CallsGame = {builtin}
    Locking = TRUE
    MaxMessages = 2
    MaxCallbacks = 3
    Byte = {0, 1}
    Common = {0}
    Pattern <- MCPattern
    Offset <- MCOffset
    Reach = 3
    Size = 4
    HardwareThreads = 3
    MinChunk = 1
    f = f
    g = g
    Caller = {t1, t2}
    Func = {f, g}
    NativeFunc = {g}
    NoFunc = NoFunc
    LockCalls = TRUE
    LockLoads = TRUE
    LoadRunsFunctions = TRUE
    MaxDepth = 5
SPECIFICATION MCSpec
INVARIANTS
    StandingCallbacksSeeAll
    FirstMatchesFound
    FlagsRestored
    NativeWhileProcessed
PROPERTIES
    DeliveredInOrder
    CallbacksStayWhileDelivering
    MessagesAreDelivered
    SearchEnds
    LocksArePassedOn
CHECK_DEADLOCK FALSE

CONSTANTS
    f = f
    g = g
    h = h
    name = name
    other = other
    bucket = bucket
    w = w
    a = a
    b = b
    Func = {f, g, h}
    FName = {name, other}
    NameOf <- MCNameOf
    Bucket = {bucket}
    BucketOf <- MCBucketOf
    Ident = {a, b}
    Generation = {1, 2}
    Null = Null
    Walker = {w}
    ClientHook <- MCHooks
    Watched <- WalkHooks
    Thread = {t1, t2, t3}
    OpenSucceeds = {TRUE}
    OneAtATime = TRUE
SPECIFICATION MCSpec
INVARIANTS
    LayoutIsLayered
    SearchIsExact
    PreprocessFindsHooked
    UndisturbedCallsFindHooks
    NoOwnershipCycle
PROPERTIES
    ImplementsRegistry
    RunsOnlyMatchingHooks
    StandingHookIsNotSkipped
    StandingHookRunsOnce
    WalksEnd

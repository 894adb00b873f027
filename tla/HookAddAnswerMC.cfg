CONSTANTS
    f = f
    g = g
    h = h
    name = name
    other = other
    bucket = bucket
    w = w
    a = a
    b = b
    Func = {f, g, h}
    FName = {name, other}
    NameOf <- MCNameOf
    Bucket = {bucket}
    BucketOf <- MCBucketOf
    Ident = {a, b}
    Generation = {1, 2}
    Null = Null
    Walker = {}
    ClientHook <- WalkHooks
    Watched <- SomeHook
SPECIFICATION Spec
INVARIANT AddAnswersWhetherAdded

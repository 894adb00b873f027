CONSTANTS
    f = f
    g = g
    pre = pre
    post = post
    always = always
    gpre = gpre
    gpost = gpost
    u = u
    upre = upre
    ualways = ualways
    Func = {f, g}
    Void = {}
    Opaque = {g}
    Unknown = {}
    OpaqueParams = {}
    Via = {"ProcessEvent", "CallFunction"}
    Hook = {pre, post, always, gpre, gpost}
    TypeOf <- MCTypeOf
    FuncOf <- MCFuncOf
    Volatile = {post}
    MaxDepth = 1
SPECIFICATION Spec
INVARIANT BlockedNeverRuns

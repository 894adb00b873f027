CONSTANTS
    f = f
    g = g
    pre = pre
    post = post
    always = always
    gpre = gpre
    gpost = gpost
    u = u
    upre = upre
    ualways = ualways
    Func = {f, g, u}
    Void = {}
    Opaque = {g, u}
    Unknown = {u}
    OpaqueParams = {g}
    Via = {"ProcessEvent", "CallFunction"}
    Hook = {pre, post, always, gpre, gpost, upre, ualways}
    TypeOf <- MCTypeOf
    FuncOf <- MCFuncOf
    Volatile = {post}
    MaxDepth = 2
SPECIFICATION Spec
INVARIANTS
    NativeRunsAsDecided
    PostOnlyIfAllowed
    CodeEndsPastArguments
    HooksRunUnlessInjected
PROPERTY PostHooksSeeResult
CHECK_DEADLOCK FALSE

---------------------------- MODULE MCHookManager ----------------------------
(***************************************************************************)
(* Instances of HookManager.  f and g share their FName (the same function *)
(* name in two classes), h has another one in the same bucket.             *)
(***************************************************************************)
EXTENDS HookManager

CONSTANTS f, g, h, name, other, bucket, a, b, w

MCNameOf == [x \in Func |-> IF x = h THEN other ELSE name]

MCBucketOf == [n \in FName |-> bucket]

HookOn(func, type, identifier) == [func |-> func, type |-> type, identifier |-> identifier]

\* Every level of the table, two types and two identifiers wide.
TableHooks ==
    {HookOn(f, "PRE", a), HookOn(f, "PRE", b), HookOn(f, "POST", a), HookOn(f, "POST", b),
     HookOn(g, "PRE", a), HookOn(g, "POST", a),
     HookOn(h, "PRE", a), HookOn(h, "PRE", b)}

SomeHook == {HookOn(f, "PRE", a)}

\* One function: a collection before and after the native function, all types.
WalkHooks ==
    {HookOn(f, "PRE", a), HookOn(f, "PRE", b), HookOn(f, "POST", a),
     HookOn(f, "POST_UNCONDITIONAL", a)}

\* Few hooks, which may be added again while their removed node is held.
ReaddedHooks == {HookOn(f, "PRE", a), HookOn(f, "PRE", b), HookOn(f, "POST", a)}
=============================================================================

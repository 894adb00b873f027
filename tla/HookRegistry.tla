---------------------------- MODULE HookRegistry ----------------------------
(***************************************************************************)
(* What hook_manager.h promises of add_hook, has_hook and remove_hook: a   *)
(* set of hooks, told apart by function, type and identifier.              *)
(***************************************************************************)
CONSTANT Hook

VARIABLE hooks

Init == hooks = {}

Add(hook) == hooks' = hooks \union {hook}

Remove(hook) == hooks' = hooks \ {hook}

Next == \E hook \in Hook : Add(hook) \/ Remove(hook)

Spec == Init /\ [][Next]_hooks
=============================================================================

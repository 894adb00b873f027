----------------------------- MODULE HookManager -----------------------------
(***************************************************************************)
(* The hook manager under use: the public calls add_hook and remove_hook   *)
(* while hook processing is under way.  A walk is one intercepted function *)
(* call going through preprocess_hook, has_post_hooks and                  *)
(* run_hooks_of_type, in the order all game hooks follow.  Callbacks run   *)
(* arbitrary code, so while a walk is inside a callback - or inside the    *)
(* native function between two of its stages - any public call may happen  *)
(* and any other walk may start and proceed: a nested call of the same     *)
(* thread, or a call of another thread whose table operations do not       *)
(* overlap in time with these.                                             *)
(***************************************************************************)
EXTENDS HookTable

CONSTANTS
    Walker,     \* names for the function calls being processed
    ClientHook, \* the hooks clients may register
    Watched     \* the hooks whose fate the walks may record

ASSUME WalkAssumption == Watched \subseteq ClientHook /\ ClientHook \subseteq Hook

VARIABLES
    table,      \* hooks_hash_table and the nodes alive
    walk,       \* walk[w]: the state of the call w
    witness     \* history only: the hook whose fate the walks record

vars == <<table, walk, witness>>

(***************************************************************************)
(* A walk is in the stage of the type of hook being run, or in "NATIVE"    *)
(* after its pre-hooks: the native function and the copying of its result. *)
(* It holds two shared_ptrs: head, the result of preprocess_hook, and      *)
(* node, the callback being run (Null between callbacks).                  *)
(*                                                                         *)
(* fate is history: what became, since the walk began, of one hook, the    *)
(* witness, which is any watched hook.  It was not registered on the       *)
(* function when the walk began ("none"), or has been registered ever      *)
(* since and was not run yet ("owed") or was ("done"), or it was removed   *)
(* since ("gone", for good).                                               *)
(***************************************************************************)
Idle == [stage |-> "IDLE", head |-> Null, node |-> Null, fate |-> "none"]

Pins(walks) == {walks[w].head : w \in Walker} \union {walks[w].node : w \in Walker}

Active(w) == walk[w].stage # "IDLE"

Between(w) == Active(w) /\ walk[w].node = Null

-----------------------------------------------------------------------------

Init ==
    /\ table = EmptyTable
    /\ walk = [w \in Walker |-> Idle]
    /\ witness \in Watched

(***************************************************************************)
(* The public add_hook and remove_hook.                                    *)
(***************************************************************************)
FreshNodes(hook) == ({hook} \X Generation) \ DOMAIN table.heap

Register(hook) ==
    /\ UNCHANGED <<walk, witness>>
    /\ FreshNodes(hook) # {}
    /\ table' = AddHook(table, hook, CHOOSE n \in FreshNodes(hook) : TRUE).table

Unregister(hook) ==
    /\ walk' = IF hook = witness /\ HasHook(table, hook)
               THEN [w \in Walker |->
                        IF Active(w) THEN [walk[w] EXCEPT !.fate = "gone"] ELSE walk[w]]
               ELSE walk
    /\ table' = Owned(RemoveHook(table, hook).table, Pins(walk))
    /\ UNCHANGED witness

(***************************************************************************)
(* preprocess_hook finds the function hooked.                              *)
(***************************************************************************)
Preprocess(w, func) ==
    /\ ~Active(w)
    /\ FirstOf(table, func) # Null
    /\ walk' = [walk EXCEPT ![w] =
                  [Idle EXCEPT !.stage = "PRE", !.head = FirstOf(table, func),
                               !.fate = IF witness.func = func /\ HasHook(table, witness)
                                        THEN "owed" ELSE "none"]]
    /\ UNCHANGED <<table, witness>>

(***************************************************************************)
(* The walk with its callback at n about to be called.                     *)
(***************************************************************************)
Calling(record, n) ==
    [record EXCEPT
        !.node = n,
        !.fate = IF @ = "owed" /\ table.heap[n].hook = witness THEN "done" ELSE @]

(***************************************************************************)
(* What may follow a stage.  After the native function, which a call that  *)
(* its pre-hooks blocked does not run, has_post_hooks decides whether the  *)
(* call is over, and a blocked call skips POST.                            *)
(***************************************************************************)
NextStages(record) ==
    CASE record.stage = "PRE" -> {"NATIVE"}
      [] record.stage = "NATIVE" -> {"POST", "POST_UNCONDITIONAL"}
      [] record.stage = "POST" -> {"POST_UNCONDITIONAL"}
      [] OTHER -> {}

IsLast(record) ==
    \/ record.stage = "NATIVE" /\ ~HasPostHooks(table, record.head)
    \/ record.stage = "POST_UNCONDITIONAL"

After(record) ==
    IF IsLast(record) THEN {Idle}
    ELSE {[record EXCEPT !.stage = stage, !.node = Null] : stage \in NextStages(record)}

MoveTo(w, records) ==
    \E record \in records :
        /\ walk' = [walk EXCEPT ![w] = record]
        /\ table' = Owned(table, Pins([walk EXCEPT ![w] = record]))
        /\ UNCHANGED witness

(***************************************************************************)
(* run_hooks_of_type looks for the collection of its type and calls its    *)
(* first hook, or returns when there is none.                              *)
(***************************************************************************)
RunHooksOfType(w) ==
    /\ walk[w].stage \in Type
    /\ walk[w].node = Null
    /\ LET first == FirstOfType(table, walk[w].head, walk[w].stage)
       IN  MoveTo(w, IF first = Null THEN After(walk[w]) ELSE {Calling(walk[w], first)})

\* Slip: a callback that was removed while running restarts the loop.
ReturnRestarting(w) ==
    /\ Active(w) /\ ~Between(w)
    /\ LET next == IF walk[w].node \in Linked(table)
                   THEN table.heap[walk[w].node].next[4]
                   ELSE FirstOfType(table, walk[w].head, walk[w].stage)
       IN  MoveTo(w, IF next = Null THEN After(walk[w]) ELSE {Calling(walk[w], next)})

(***************************************************************************)
(* A callback returns, and the loop reads next_in_collection: only now.    *)
(***************************************************************************)
Return(w) ==
    /\ Active(w) /\ ~Between(w)
    /\ LET next == table.heap[walk[w].node].next[4]
       IN  MoveTo(w, IF next = Null THEN After(walk[w]) ELSE {Calling(walk[w], next)})

(***************************************************************************)
(* The native function returned, or was not run, and the return value was  *)
(* copied; either may have changed the hooks.  Now has_post_hooks is asked.*)
(***************************************************************************)
AskForPostHooks(w) ==
    /\ walk[w].stage = "NATIVE"
    /\ MoveTo(w, After(walk[w]))

Client(hooks) == \E hook \in hooks : Register(hook) \/ Unregister(hook)

Proceed(w) == RunHooksOfType(w) \/ Return(w) \/ AskForPostHooks(w)

Call(w) == (\E func \in Func : Preprocess(w, func)) \/ Proceed(w)

Next == Client(ClientHook) \/ \E w \in Walker : Call(w)

(***************************************************************************)
(* Threads are scheduled, and callbacks and native functions return.       *)
(***************************************************************************)
Fairness == \A w \in Walker : WF_vars(Proceed(w))

Spec == Init /\ [][Next]_vars /\ Fairness

-----------------------------------------------------------------------------

(***************************************************************************)
(* Layout of the four levels of lists (the diagram in hook_manager.cpp):   *)
(* whatever sequence of insertions and removals built the table, an        *)
(* element reached over a level's link shares everything the levels above  *)
(* compare with its predecessor and differs from it at that level, and     *)
(* only the head of a list is linked into the levels above it.             *)
(***************************************************************************)
LayoutIsLayered ==
    LET linked == Linked(table)
    IN  \A n \in linked, l \in Level :
            LET next == table.heap[n].next[l]
            IN  next # Null =>
                  /\ \A k \in 1 .. l - 1 : Matches(k, table.heap[n].hook, table.heap[next].hook)
                  /\ ~Matches(l, table.heap[n].hook, table.heap[next].hook)
                  /\ \A m \in linked, k \in 1 .. l - 1 : table.heap[m].next[k] # next

(***************************************************************************)
(* Searching the lists is exact: has_hook is true of precisely the hooks   *)
(* held by a node that the table can still reach, of which there is one    *)
(* per hook.  A promotion that dropped a sublist, or an insertion that     *)
(* landed in the wrong list, makes a hook that is registered unfindable.   *)
(***************************************************************************)
SearchIsExact ==
    /\ {hook \in Hook : HasHook(table, hook)} = Registered(table)
    /\ Cardinality(Registered(table)) = Cardinality(Linked(table))

(***************************************************************************)
(* preprocess_hook treats a function as hooked exactly when some hook is   *)
(* registered on it, and returns a node that leads to all of its hooks.    *)
(***************************************************************************)
PreprocessFindsHooked ==
    {func \in Func : FirstOf(table, func) # Null} = {h.func : h \in Registered(table)}

(***************************************************************************)
(* Nodes own each other through shared_ptrs, so a cycle would never be     *)
(* freed.  None arises, among removed nodes held by a walk included, which *)
(* is also why every loop over the lists ends.                             *)
(***************************************************************************)
NoOwnershipCycle ==
    \A n \in DOMAIN table.heap :
        n \notin Reach(table.heap, {table.heap[n].next[l] : l \in Level})

(***************************************************************************)
(* add_hook's documented result (hook_manager.h): true if the hook was     *)
(* added, false if an identical one already existed.                       *)
(***************************************************************************)
AddAnswersWhetherAdded ==
    \A hook \in ClientHook : \A new \in FreshNodes(hook) :
        AddHook(table, hook, new).answer <=> hook \notin Registered(table)

(***************************************************************************)
(* In every step the walk w starts the callback at the node walk'[w].node. *)
(***************************************************************************)
Starts(w) ==
    /\ walk'[w].node # Null
    /\ walk'[w].node # walk[w].node

StartedHook(w) == table.heap[walk'[w].node].hook

StartsWitness(w) == Starts(w) /\ StartedHook(w) = witness

(***************************************************************************)
(* Hook processing never leaves the function and type it is processing,    *)
(* even when it continues through nodes that were removed under it.        *)
(***************************************************************************)
RunsOnlyMatchingHooks ==
    [][\A w \in Walker : Starts(w) =>
          /\ StartedHook(w).type = walk[w].stage
          /\ StartedHook(w).func = table.heap[walk[w].head].hook.func]_vars

(***************************************************************************)
(* A hook that stays registered is not run twice for one call, whatever    *)
(* happens to the hooks around it.                                         *)
(***************************************************************************)
StandingHookRunsOnce ==
    [][\A w \in Walker : StartsWitness(w) => walk[w].fate # "done"]_vars

(***************************************************************************)
(* A hook that stays registered is never skipped: when a walk moves past a *)
(* stage - by finishing it, or by ending because has_post_hooks found no   *)
(* reason to go on after the native function, which may have changed the   *)
(* hooks - no hook of that stage that was registered all along was not     *)
(* run.  POST is not owed by a call that was blocked.                      *)
(***************************************************************************)
Passed(w) ==
    CASE walk'[w].stage = walk[w].stage -> {}
      [] walk[w].stage = "NATIVE" /\ walk'[w].stage = "IDLE" -> {"POST", "POST_UNCONDITIONAL"}
      [] OTHER -> {walk[w].stage}

StandingHookIsNotSkipped ==
    [][\A w \in Walker : walk[w].fate = "owed" => witness.type \notin Passed(w)]_vars

(***************************************************************************)
(* However clients modify the table, hook processing ends, unless clients  *)
(* keep adding hooks for ever (a callback can: it may add the next one).   *)
(***************************************************************************)
WalksEnd ==
    \/ \A w \in Walker : []<>(walk[w].stage = "IDLE")
    \/ []<><<DOMAIN table'.heap \ DOMAIN table.heap # {}>>_vars

(***************************************************************************)
(* The linked lists implement the registry, step by step: add_hook adds    *)
(* the hook it is given and no other, remove_hook removes the one it is    *)
(* given and no other, and a call that goes on changes none, though it     *)
(* frees nodes that were removed.                                          *)
(***************************************************************************)
Registry == INSTANCE HookRegistry WITH Hook <- ClientHook, hooks <- Registered(table)

StepsAsRegistry ==
    \/ \E w \in Walker : UNCHANGED Registered(table) /\ Call(w)
    \/ \E hook \in ClientHook \intersect Registered(table)' : Register(hook) /\ Registry!Add(hook)
    \/ \E hook \in ClientHook \ Registered(table)' : Unregister(hook) /\ Registry!Remove(hook)

ImplementsRegistry == Registry!Spec /\ [][StepsAsRegistry]_vars
=============================================================================

-------------------------- MODULE HookManagerProofs -------------------------
(***************************************************************************)
(* Proofs about the hook manager, for all functions and hooks, any hash    *)
(* and any number of calls under way.  The facts about its table are in    *)
(* HookTableProofs; here the table has its callers: a call holds on to     *)
(* nodes that may have been removed since, all of one function.            *)
(*                                                                         *)
(* A hook that stays registered is run once and not skipped: what a call   *)
(* owes is ahead of it, also where it goes on from removed nodes.          *)
(*                                                                         *)
(* The last part is that turning the logging of calls on and off keeps   *)
(* no call from its hooks, for any number of threads that call, if         *)
(* log_all_calls is not entered twice at once and the log can be opened.   *)
(* The argument: a call that no log_all_calls has disturbed sees the same  *)
(* flag both times, and between two log_all_calls a set flag comes with an *)
(* open file.                                                              *)
(***************************************************************************)
EXTENDS HookManager, HookTableProofs, CallLogging

(***************************************************************************)
(* What a call holds on to: nodes of one function, alive in the table t.   *)
(***************************************************************************)
WalksAlong(t, record) ==
    LET held == DOMAIN t.heap \union {Null}
    IN  /\ record \in [stage : {"IDLE", "NATIVE"} \union Type, head : held, node : held,
                       fate : {"none", "owed", "done", "gone"}]
        /\ record.stage = "IDLE" => record.head = Null /\ record.node = Null
        /\ record.stage # "IDLE" => record.head # Null
        /\ record.node # Null =>
              /\ t.heap[record.node].hook.type = record.stage
              /\ t.heap[record.node].hook.func = t.heap[record.head].hook.func

\* The table in order, and every call on nodes that are alive.
IInv ==
    /\ InOrder(table)
    /\ walk = [w \in Walker |-> walk[w]]
    /\ \A w \in Walker : WalksAlong(table, walk[w])
    /\ witness \in Watched

\* The table may change in any way that keeps these nodes and their hooks.
LEMMA StillWalksAlong ==
  ASSUME NEW t, Null \notin DOMAIN t.heap, NEW record, WalksAlong(t, record), NEW t2,
         record.head \in DOMAIN t2.heap \union {Null}, record.node \in DOMAIN t2.heap \union {Null},
         \A n \in DOMAIN t2.heap : n \in DOMAIN t.heap => t2.heap[n].hook = t.heap[n].hook
  PROVE  WalksAlong(t2, record)
BY DEF WalksAlong

LEMMA HeldNodes ==
  ASSUME NEW t, NEW record, WalksAlong(t, record)
  PROVE  record.head \in DOMAIN t.heap \union {Null} /\ record.node \in DOMAIN t.heap \union {Null}
BY DEF WalksAlong

LEMMA IdleWalks ==
  ASSUME NEW t
  PROVE  WalksAlong(t, Idle) /\ Idle.node = Null
BY DEF WalksAlong, Idle

LEMMA CallingWalks ==
  ASSUME NEW record, WalksAlong(table, record), record.stage # "IDLE", NEW n \in DOMAIN table.heap,
         table.heap[n].hook.type = record.stage,
         table.heap[n].hook.func = table.heap[record.head].hook.func
  PROVE  WalksAlong(table, Calling(record, n)) /\ Calling(record, n).node = n
BY DEF WalksAlong, Calling

LEMMA AfterWalks ==
  ASSUME NEW record, WalksAlong(table, record), record.stage # "IDLE", NEW r \in After(record)
  PROVE  WalksAlong(table, r) /\ r.node = Null
<1>1. record.stage \in {"PRE", "NATIVE", "POST", "POST_UNCONDITIONAL"}
  BY DEF WalksAlong, Type
<1>2. NextStages(record) \subseteq {"NATIVE", "POST", "POST_UNCONDITIONAL"}
  BY <1>1 DEF NextStages
<1>3. r = Idle \/ \E stage \in {"NATIVE", "POST", "POST_UNCONDITIONAL"} :
                    r = [record EXCEPT !.stage = stage, !.node = Null]
  BY <1>2 DEF After
<1> QED
  BY <1>3, IdleWalks DEF WalksAlong, Type

\* The nodes a call holds on to stay, whatever is released.
LEMMA MoveToInv ==
  ASSUME IInv, NEW w \in Walker, NEW records, MoveTo(w, records),
         \A record \in records : WalksAlong(table, record)
  PROVE  IInv' /\ Registered(table)' = Registered(table)
<1>1. PICK record \in records :
         /\ walk' = [walk EXCEPT ![w] = record]
         /\ table' = Owned(table, Pins([walk EXCEPT ![w] = record]))
         /\ witness' = witness
  BY DEF MoveTo
<1> DEFINE D == DOMAIN table.heap
           pins == Pins(walk')
<1>2. \A v \in Walker : WalksAlong(table, walk'[v])
  BY <1>1 DEF IInv
<1>3. pins \in SUBSET (D \union {Null})
  BY <1>2, HeldNodes DEF Pins
<1>4. table' = Owned(table, pins)
  BY <1>1
<1>5. InOrder(table) /\ Null \notin D
  BY NodeTypes DEF IInv, InOrder, SoundTable, SoundHeap
<1> HIDE DEF pins
<1>6. /\ InOrder(table') /\ DOMAIN table'.heap \subseteq D
      /\ pins \subseteq DOMAIN table'.heap \union {Null}
      /\ \A n \in DOMAIN table'.heap : table'.heap[n] = table.heap[n]
      /\ Registered(table') = Registered(table)
  BY <1>3, <1>4, <1>5, OwnedFacts
<1>7. ASSUME NEW v \in Walker PROVE WalksAlong(table', walk'[v])
  <2>1. walk'[v].head \in pins /\ walk'[v].node \in pins
    BY DEF Pins, pins
  <2> QED
    BY <1>2, <1>5, <1>6, <2>1, StillWalksAlong
<1>8. walk' = [v \in Walker |-> walk'[v]]
  BY <1>1 DEF IInv
<1> QED
  BY <1>1, <1>6, <1>7, <1>8 DEF IInv

LEMMA RegisterInv ==
  ASSUME IInv, NEW hook \in ClientHook, Register(hook)
  PROVE  IInv' /\ Registered(table)' = Registered(table) \union {hook}
<1> DEFINE new == CHOOSE n \in FreshNodes(hook) : TRUE
<1>1. /\ FreshNodes(hook) # {} /\ table' = AddHook(table, hook, new).table
      /\ walk' = walk /\ witness' = witness
  BY DEF Register
<1>2. hook \in Hook
  BY WalkAssumption
<1>3. new \in FreshNodes(hook)
  BY <1>1
<1>4. new \in Node /\ new \notin DOMAIN table.heap
  BY <1>2, <1>3 DEF FreshNodes, Node
<1>5. InOrder(table) /\ Null \notin DOMAIN table.heap
  BY NodeTypes DEF IInv, InOrder, SoundTable, SoundHeap
<1> HIDE DEF new
<1>6. /\ InOrder(table') /\ DOMAIN table.heap \subseteq DOMAIN table'.heap
      /\ \A n \in DOMAIN table.heap : table'.heap[n].hook = table.heap[n].hook
      /\ Registered(table') = Registered(table) \union {hook}
  BY <1>1, <1>2, <1>4, <1>5, AddHookFacts
<1>7. ASSUME NEW v \in Walker PROVE WalksAlong(table', walk[v])
  <2>1. WalksAlong(table, walk[v])
    BY DEF IInv
  <2>2. walk[v].head \in DOMAIN table'.heap \union {Null} /\ walk[v].node \in DOMAIN table'.heap \union {Null}
    BY <1>6, <2>1, HeldNodes
  <2> QED
    BY <1>5, <1>6, <2>1, <2>2, StillWalksAlong
<1> QED
  BY <1>1, <1>6, <1>7 DEF IInv

LEMMA UnregisterInv ==
  ASSUME IInv, NEW hook \in ClientHook, Unregister(hook)
  PROVE  /\ IInv' /\ Registered(table)' = Registered(table) \ {hook}
         /\ \A w \in Walker : walk'[w].node = walk[w].node
<1> DEFINE t2 == RemoveHook(table, hook).table
           pins == Pins(walk)
           D == DOMAIN table.heap
<1>1. table' = Owned(t2, pins) /\ witness' = witness
  BY DEF Unregister
<1>2. hook \in Hook
  BY WalkAssumption
<1>3. InOrder(table) /\ Null \notin D
  BY NodeTypes DEF IInv, InOrder, SoundTable, SoundHeap
<1> HIDE DEF t2
<1>4. /\ InOrder(t2) /\ DOMAIN t2.heap = D
      /\ \A n \in D : t2.heap[n].hook = table.heap[n].hook
      /\ Registered(t2) = Registered(table) \ {hook}
  BY <1>2, <1>3, RemoveHookFacts DEF t2
<1>5. \A v \in Walker : WalksAlong(table, walk[v])
  BY DEF IInv
<1>6. pins \in SUBSET (DOMAIN t2.heap \union {Null})
  BY <1>4, <1>5, HeldNodes DEF Pins
<1> HIDE DEF pins
<1>7. /\ InOrder(table') /\ DOMAIN table'.heap \subseteq D
      /\ pins \subseteq DOMAIN table'.heap \union {Null}
      /\ \A n \in DOMAIN table'.heap : table'.heap[n] = t2.heap[n]
      /\ Registered(table') = Registered(table) \ {hook}
  BY <1>1, <1>4, <1>6, OwnedFacts
<1>8. \A n \in DOMAIN table'.heap : n \in D => table'.heap[n].hook = table.heap[n].hook
  BY <1>4, <1>7
<1>9. \A v \in Walker : walk'[v] = walk[v] \/ walk'[v] = [walk[v] EXCEPT !.fate = "gone"]
  BY DEF Unregister, IInv
<1>10. ASSUME NEW v \in Walker
       PROVE  WalksAlong(table', walk'[v]) /\ walk'[v].node = walk[v].node
  <2>1. /\ WalksAlong(table, walk'[v])
        /\ walk'[v].head = walk[v].head /\ walk'[v].node = walk[v].node
    <3>1. CASE walk'[v] = walk[v]
      BY <1>5, <3>1
    <3>2. CASE walk'[v] = [walk[v] EXCEPT !.fate = "gone"]
      BY <1>5, <3>2 DEF WalksAlong
    <3> QED
      BY <1>9, <3>1, <3>2
  <2>2. walk'[v].head \in pins /\ walk'[v].node \in pins
    BY <2>1 DEF Pins, pins
  <2> QED
    BY <1>3, <1>7, <1>8, <2>1, <2>2, StillWalksAlong
<1>11. walk' = [v \in Walker |-> walk'[v]]
  BY DEF Unregister, IInv
<1> QED
  BY <1>1, <1>7, <1>10, <1>11 DEF IInv

LEMMA BeginningWalks ==
  ASSUME NEW first \in DOMAIN table.heap, first # Null, NEW fate \in {"none", "owed"}
  PROVE  LET record == [Idle EXCEPT !.stage = "PRE", !.head = first, !.fate = fate]
         IN  WalksAlong(table, record) /\ record.node = Null
BY DEF WalksAlong, Idle, Type

LEMMA PreprocessInv ==
  ASSUME IInv, NEW w \in Walker, NEW func \in Func, Preprocess(w, func)
  PROVE  /\ IInv' /\ table' = table
         /\ \A v \in Walker : walk'[v].node \in {Null, walk[v].node}
<1> DEFINE first == FirstOf(table, func)
           fate == IF witness.func = func /\ HasHook(table, witness) THEN "owed" ELSE "none"
           record == [Idle EXCEPT !.stage = "PRE", !.head = first, !.fate = fate]
<1>1. /\ first # Null /\ walk' = [walk EXCEPT ![w] = record]
      /\ table' = table /\ witness' = witness
  BY DEF Preprocess
<1>2. first \in DOMAIN table.heap
  <2>1. PICK rank : Ranked(table, rank)
    BY DEF IInv, InOrder
  <2>2. SoundTable(table)
    BY DEF IInv, InOrder
  <2>3. first \in Linked(table)
    BY <1>1, <2>1, <2>2, FirstOfIsExact
  <2> QED
    BY <2>2, <2>3, LinkedFacts
<1>3. WalksAlong(table, record) /\ record.node = Null
  <2>0. fate \in {"none", "owed"}
    OBVIOUS
  <2> HIDE DEF first, fate
  <2> QED
    BY <1>1, <1>2, <2>0, BeginningWalks
<1> HIDE DEF record
<1>4. \A v \in Walker : walk'[v] = IF v = w THEN record ELSE walk[v]
  BY <1>1 DEF IInv
<1>5. walk' = [v \in Walker |-> walk'[v]]
  BY <1>1 DEF IInv
<1>6. IInv'
  BY <1>1, <1>3, <1>4, <1>5 DEF IInv
<1>7. \A v \in Walker : walk'[v].node \in {Null, walk[v].node}
  BY <1>3, <1>4
<1> QED
  BY <1>1, <1>6, <1>7

\* The callbacks that a step of a call may start.
LEMMA CallInv ==
  ASSUME IInv, NEW w \in Walker, Proceed(w)
  PROVE  /\ IInv' /\ Registered(table)' = Registered(table)
         /\ \A v \in Walker : v # w => walk'[v] = walk[v]
         /\ walk'[w].node # Null =>
               /\ table.heap[walk'[w].node].hook.type = walk[w].stage
               /\ table.heap[walk'[w].node].hook.func = table.heap[walk[w].head].hook.func
<1> DEFINE record == walk[w]
           onward(n) == IF n = Null THEN After(record) ELSE {Calling(record, n)}
<1>1. /\ WalksAlong(table, record) /\ record.stage # "IDLE"
      /\ SoundTable(table) /\ Null \notin DOMAIN table.heap
  BY NodeTypes DEF IInv, InOrder, SoundTable, SoundHeap, Proceed, RunHooksOfType, Return,
                   AskForPostHooks, Active, Type
<1>2. PICK n : /\ MoveTo(w, onward(n))
               /\ n # Null =>
                    /\ n \in DOMAIN table.heap
                    /\ table.heap[n].hook.type = record.stage
                    /\ table.heap[n].hook.func = table.heap[record.head].hook.func
  <2>1. CASE RunHooksOfType(w)
    <3> DEFINE first == FirstOfType(table, record.head, record.stage)
    <3>1. MoveTo(w, onward(first))
      BY <2>1 DEF RunHooksOfType
    <3>2. record.head \in DOMAIN table.heap
      BY <1>1 DEF WalksAlong
    <3>3. first # Null =>
             /\ first \in DOMAIN table.heap
             /\ table.heap[first].hook.type = record.stage
             /\ table.heap[first].hook.func = table.heap[record.head].hook.func
      BY <1>1, <3>2, FirstOfTypeIsOfType
    <3> QED
      BY <3>1, <3>3
  <2>2. CASE Return(w)
    <3> DEFINE next == table.heap[record.node].next[4]
    <3>1. MoveTo(w, onward(next)) /\ record.node # Null
      BY <2>2 DEF Return, Between
    <3>2. /\ record.node \in DOMAIN table.heap
          /\ table.heap[record.node].hook.type = record.stage
          /\ table.heap[record.node].hook.func = table.heap[record.head].hook.func
      BY <1>1, <3>1 DEF WalksAlong
    <3>3. next # Null =>
             /\ next \in DOMAIN table.heap
             /\ table.heap[next].hook.type = record.stage
             /\ table.heap[next].hook.func = table.heap[record.head].hook.func
      BY <1>1, <3>2, NextInCollection
    <3> QED
      BY <3>1, <3>3
  <2>3. CASE AskForPostHooks(w)
    <3>1. MoveTo(w, onward(Null))
      BY <2>3 DEF AskForPostHooks
    <3> QED
      BY <3>1
  <2> QED
    BY <2>1, <2>2, <2>3 DEF Proceed
<1>3. \A r \in onward(n) :
         /\ WalksAlong(table, r)
         /\ r.node # Null => r.node = n /\ n # Null
  <2>1. CASE n = Null
    <3>1. onward(n) = After(record)
      BY <2>1
    <3> QED
      BY <1>1, <3>1, AfterWalks
  <2>2. CASE n # Null
    <3>1. onward(n) = {Calling(record, n)}
      BY <2>2
    <3>2. WalksAlong(table, Calling(record, n)) /\ Calling(record, n).node = n
      BY <1>1, <1>2, <2>2, CallingWalks
    <3> QED
      BY <2>2, <3>1, <3>2
  <2> QED
    BY <2>1, <2>2
<1>4. PICK r \in onward(n) : walk' = [walk EXCEPT ![w] = r]
  BY <1>2 DEF MoveTo
<1> HIDE DEF onward
<1>5. IInv' /\ Registered(table)' = Registered(table)
  BY <1>2, <1>3, MoveToInv
<1>6. \A v \in Walker : walk'[v] = IF v = w THEN r ELSE walk[v]
  BY <1>4 DEF IInv
<1>7. walk'[w].node # Null => walk'[w].node = n /\ n # Null
  BY <1>3, <1>4, <1>6
<1> QED
  BY <1>2, <1>5, <1>6, <1>7

-----------------------------------------------------------------------------
LEMMA InitInv == Init => IInv /\ Registered(table) = {}
<1> SUFFICES ASSUME Init PROVE IInv /\ Registered(table) = {}
  OBVIOUS
<1> DEFINE heap == table.heap
<1>1. table = [bucket |-> [b \in Bucket |-> Null], heap |-> <<>>]
  BY DEF Init, EmptyTable
<1>2. DOMAIN heap = {} /\ heap = [x \in {} |-> Null]
  BY <1>1
<1>3. table = [bucket |-> table.bucket, heap |-> heap] /\ table.bucket = [b \in Bucket |-> Null]
  BY <1>1
<1> HIDE DEF heap
<1>4. Typed(heap) /\ Acyclic(heap) /\ Layered(heap) /\ IsFiniteSet(DOMAIN heap)
  BY <1>2, FS_EmptySet DEF Typed, Acyclic, Layered
<1>5. table.bucket \in [Bucket -> DOMAIN heap \union {Null}]
  BY <1>3
<1>6. SoundTable(table)
  BY <1>3, <1>4, <1>5 DEF SoundTable, SoundHeap, heap
<1>7. Linked(table) = {}
  BY <1>2, <1>6, LinkedFacts DEF heap
<1>8. Ranked(table, [x \in {} |-> 0])
  BY <1>3, <1>7 DEF Ranked
<1>9. InOrder(table)
  BY <1>6, <1>8 DEF InOrder
<1>10. walk = [w \in Walker |-> walk[w]] /\ \A w \in Walker : WalksAlong(table, walk[w])
  BY IdleWalks DEF Init
<1> QED
  BY <1>7, <1>9, <1>10 DEF IInv, Init, Registered

LEMMA NextInv == IInv /\ [Next]_vars => IInv'
<1> SUFFICES ASSUME IInv, [Next]_vars PROVE IInv'
  OBVIOUS
<1>1. CASE UNCHANGED vars
  BY <1>1 DEF vars, IInv
<1>2. CASE Client(ClientHook)
  BY <1>2, RegisterInv, UnregisterInv DEF Client
<1>3. ASSUME NEW w \in Walker, Call(w) PROVE IInv'
  BY <1>3, PreprocessInv, CallInv DEF Call
<1> QED
  BY <1>1, <1>2, <1>3 DEF Next

(***************************************************************************)
(* The invariant: the lists are ordered, and calls hold on to nodes of     *)
(* the function and type they process.                                     *)
(***************************************************************************)
THEOREM Invariance == Spec => []IInv
BY InitInv, NextInv, PTL DEF Spec

(***************************************************************************)
(* Whatever order hooks are added and removed in, the lists are laid out   *)
(* as the diagram in hook_manager.cpp has them.                            *)
(***************************************************************************)
THEOREM ListsAreLayered == Spec => []LayoutIsLayered
<1>1. IInv => LayoutIsLayered
  <2> SUFFICES ASSUME IInv PROVE LayoutIsLayered
    OBVIOUS
  <2>1. PICK rank : Ranked(table, rank)
    BY DEF IInv, InOrder
  <2>2. SoundTable(table)
    BY DEF IInv, InOrder
  <2> QED
    BY <2>1, <2>2, RankedIsLayered DEF LayoutIsLayered
<1> QED
  BY <1>1, Invariance, PTL

(***************************************************************************)
(* has_hook finds the hooks that the table leads to and no others, and it  *)
(* leads to each of them through one node.                                 *)
(***************************************************************************)
THEOREM HasHookFindsRegistered == Spec => []SearchIsExact
<1>1. IInv => SearchIsExact
  <2> SUFFICES ASSUME IInv PROVE SearchIsExact
    OBVIOUS
  <2>1. PICK rank : Ranked(table, rank)
    BY DEF IInv, InOrder
  <2>2. SoundTable(table)
    BY DEF IInv, InOrder
  <2>3. Registered(table) \subseteq Hook
    BY <2>1, <2>2, RankedFacts DEF Registered
  <2>4. {hook \in Hook : HasHook(table, hook)} = Registered(table)
    BY <2>1, <2>2, <2>3, HasHookIsExact
  <2>5. Cardinality(Registered(table)) = Cardinality(Linked(table))
    BY <2>1, <2>2, OneNodePerHook
  <2> QED
    BY <2>4, <2>5 DEF SearchIsExact
<1> QED
  BY <1>1, Invariance, PTL

(***************************************************************************)
(* preprocess_hook takes the functions that have a hook for hooked, and no *)
(* others.                                                                 *)
(***************************************************************************)
THEOREM HookedAreFound == Spec => []PreprocessFindsHooked
<1>1. IInv => PreprocessFindsHooked
  <2> SUFFICES ASSUME IInv PROVE PreprocessFindsHooked
    OBVIOUS
  <2>1. PICK rank : Ranked(table, rank)
    BY DEF IInv, InOrder
  <2>2. SoundTable(table)
    BY DEF IInv, InOrder
  <2>3. \A x \in Linked(table) : table.heap[x].hook.func \in Func
    BY <2>1, <2>2, RankedFacts DEF Hook
  <2>4. \A func \in Func : FirstOf(table, func) # Null <=> \E x \in Linked(table) : table.heap[x].hook.func = func
    BY <2>1, <2>2, FirstOfIsExact
  <2>5. {r.func : r \in Registered(table)} = {table.heap[x].hook.func : x \in Linked(table)}
    BY DEF Registered
  <2> QED
    BY <2>3, <2>4, <2>5 DEF PreprocessFindsHooked
<1> QED
  BY <1>1, Invariance, PTL

(***************************************************************************)
(* No node owns itself through others, so all of them are freed.           *)
(***************************************************************************)
THEOREM NodesAreFreed == Spec => []NoOwnershipCycle
<1>1. IInv => NoOwnershipCycle
  BY NoCycle DEF IInv, InOrder, SoundTable, SoundHeap, NoOwnershipCycle
<1> QED
  BY <1>1, Invariance, PTL

(***************************************************************************)
(* The callbacks that a call runs are for its function and for the stage   *)
(* it is in, those on nodes removed under it included.                     *)
(***************************************************************************)
THEOREM CallsRunTheirHooks == Spec => RunsOnlyMatchingHooks
<1> DEFINE matching == \A w \in Walker : Starts(w) =>
                          /\ StartedHook(w).type = walk[w].stage
                          /\ StartedHook(w).func = table.heap[walk[w].head].hook.func
<1>1. IInv /\ [Next]_vars => matching
  <2> SUFFICES ASSUME IInv, [Next]_vars, NEW v \in Walker, Starts(v)
               PROVE  /\ StartedHook(v).type = walk[v].stage
                      /\ StartedHook(v).func = table.heap[walk[v].head].hook.func
    OBVIOUS
  <2>0. walk'[v].node # Null /\ walk'[v].node # walk[v].node
    BY DEF Starts
  <2>1. CASE UNCHANGED vars
    BY <2>0, <2>1 DEF vars
  <2>2. CASE Client(ClientHook)
    <3>1. PICK hook \in ClientHook : Register(hook) \/ Unregister(hook)
      BY <2>2 DEF Client
    <3>2. CASE Register(hook)
      BY <2>0, <3>2 DEF Register
    <3>3. CASE Unregister(hook)
      BY <2>0, <3>3, UnregisterInv
    <3> QED
      BY <3>1, <3>2, <3>3
  <2>3. ASSUME NEW w \in Walker, NEW func \in Func, Preprocess(w, func) PROVE FALSE
    BY <2>0, <2>3, PreprocessInv
  <2>4. ASSUME NEW w \in Walker, Proceed(w)
        PROVE  /\ StartedHook(v).type = walk[v].stage
               /\ StartedHook(v).func = table.heap[walk[v].head].hook.func
    BY <2>0, <2>4, CallInv DEF StartedHook
  <2> QED
    BY <2>1, <2>2, <2>3, <2>4 DEF Next, Call
<1> QED
  BY <1>1, Invariance, PTL DEF Spec, RunsOnlyMatchingHooks

(***************************************************************************)
(* add_hook and remove_hook are what hook_manager.h promises: the one adds *)
(* the hook it is given to a set of hooks, the other takes the hook it is  *)
(* given out of it, and no step of a call changes the set.                 *)
(***************************************************************************)
THEOREM TableImplementsRegistry == Spec => ImplementsRegistry
<1>1. Init => Registry!Init
  BY InitInv DEF Registry!Init
<1>2. IInv /\ [Next]_vars => [StepsAsRegistry]_vars
  <2> SUFFICES ASSUME IInv, Next PROVE StepsAsRegistry
    OBVIOUS
  <2>1. ASSUME NEW hook \in ClientHook, Register(hook)
        PROVE  hook \in Registered(table)' /\ Registry!Add(hook)
    BY <2>1, RegisterInv DEF Registry!Add
  <2>2. ASSUME NEW hook \in ClientHook, Unregister(hook)
        PROVE  hook \notin Registered(table)' /\ Registry!Remove(hook)
    BY <2>2, UnregisterInv DEF Registry!Remove
  <2>3. ASSUME NEW w \in Walker, Call(w) PROVE UNCHANGED Registered(table)
    <3>1. CASE \E func \in Func : Preprocess(w, func)
      BY <3>1, PreprocessInv
    <3>2. CASE Proceed(w)
      BY <3>2, CallInv
    <3> QED
      BY <2>3, <3>1, <3>2 DEF Call
  <2> QED
    BY <2>1, <2>2, <2>3 DEF Next, Client, StepsAsRegistry
<1>3. [StepsAsRegistry]_vars => [Registry!Next]_(Registered(table))
  <2>1. UNCHANGED vars => UNCHANGED Registered(table)
    BY DEF vars
  <2> QED
    BY <2>1 DEF StepsAsRegistry, Registry!Next
<1> QED
  BY <1>1, <1>2, <1>3, Invariance, PTL DEF Spec, ImplementsRegistry, Registry!Spec

-----------------------------------------------------------------------------
(***************************************************************************)
(* Standing hooks: a hook that a call still owes is ahead of it, one that  *)
(* was run is behind it, and nothing leads it to an older node of the same *)
(* hook.                                                                   *)
(***************************************************************************)
Later(stage, type) ==
    \/ type = "PRE" /\ stage # "PRE"
    \/ type = "POST" /\ stage = "POST_UNCONDITIONAL"

StandsAt(t, record, hook, x) ==
    /\ t.heap[x].hook = hook
    /\ record.stage # "IDLE"
    /\ OnlyNode(t, {record.head, record.node}, x)
    /\ record.fate = "owed" =>
          /\ LeadsTo(t.heap, record.head, x)
          /\ record.stage = hook.type /\ record.node # Null =>
                record.node # x /\ LeadsTo(t.heap, record.node, x)
    /\ record.fate = "done" =>
          \/ Later(record.stage, hook.type)
          \/ record.stage = hook.type /\ record.node # Null /\ IsPast(t.heap, record.node, x)

Stands(t, record, hook) ==
    record.fate \in {"owed", "done"} => \E x \in Linked(t) : StandsAt(t, record, hook, x)

SInv == IInv /\ \A w \in Walker : Stands(table, walk[w], witness)

LEMMA StillStands ==
  ASSUME NEW t, NEW t2, NEW record, NEW hook, Stands(t, record, hook),
         WalksAlong(t, record), WalksAlong(t2, record),
         \A x \in Linked(t) : t.heap[x].hook = hook => Keeps(t, t2, x)
  PROVE  Stands(t2, record, hook)
<1> SUFFICES ASSUME record.fate \in {"owed", "done"} PROVE \E x \in Linked(t2) : StandsAt(t2, record, hook, x)
  BY DEF Stands
<1>1. PICK x \in Linked(t) : StandsAt(t, record, hook, x)
  BY DEF Stands
<1> DEFINE both == DOMAIN t.heap \intersect DOMAIN t2.heap
<1>2. Keeps(t, t2, x) /\ record.stage # "IDLE" /\ t.heap[x].hook = hook
  BY <1>1 DEF StandsAt
<1>3. record.head \in both \union {Null} /\ record.node \in both \union {Null} /\ record.head # Null
  BY <1>2, HeldNodes DEF WalksAlong
<1> HIDE DEF both
<1>4. record.head \in both /\ {record.head, record.node} \in SUBSET (both \union {Null})
  BY <1>3
<1>5. /\ x \in Linked(t2) /\ t2.heap[x].hook = hook
      /\ \A n \in both : LeadsTo(t.heap, n, x) => LeadsTo(t2.heap, n, x)
      /\ \A n \in both : IsPast(t.heap, n, x) => IsPast(t2.heap, n, x)
      /\ \A held \in SUBSET (both \union {Null}) : OnlyNode(t, held, x) => OnlyNode(t2, held, x)
  BY <1>2 DEF Keeps, both
<1>6. OnlyNode(t2, {record.head, record.node}, x)
  BY <1>1, <1>4, <1>5 DEF StandsAt
<1>7. StandsAt(t2, record, hook, x)
  BY <1>1, <1>3, <1>4, <1>5, <1>6 DEF StandsAt
<1> QED
  BY <1>5, <1>7

LEMMA RegisterStands ==
  ASSUME SInv, NEW hook \in ClientHook, Register(hook)
  PROVE  SInv'
<1> DEFINE new == CHOOSE n \in FreshNodes(hook) : TRUE
<1>1. /\ FreshNodes(hook) # {} /\ table' = AddHook(table, hook, new).table
      /\ walk' = walk /\ witness' = witness
  BY DEF Register
<1>2. hook \in Hook /\ IInv /\ SoundTable(table)
  BY WalkAssumption DEF SInv, IInv, InOrder
<1>3. new \in FreshNodes(hook)
  BY <1>1
<1>4. new \in Node /\ new \notin DOMAIN table.heap
  BY <1>2, <1>3 DEF FreshNodes, Node
<1>5. PICK rank : Ranked(table, rank)
  BY <1>2 DEF IInv, InOrder
<1> HIDE DEF new
<1>6. IInv'
  BY <1>2, RegisterInv
<1>7. \/ table' = table
      \/ \E prev : \E level \in 0 .. 4 :
            /\ Lengthened(table, table', hook, new, prev, level)
            /\ MissingAfter(table, rank, hook, prev, level)
  BY <1>1, <1>2, <1>4, <1>5, AddHookStep
<1>8. CASE table' = table
  BY <1>1, <1>6, <1>8 DEF SInv
<1>9. CASE \E prev : \E level \in 0 .. 4 :
              /\ Lengthened(table, table', hook, new, prev, level)
              /\ MissingAfter(table, rank, hook, prev, level)
  <2>1. \A x \in Linked(table) : Keeps(table, table', x)
    BY <1>2, <1>4, <1>5, <1>9, LengthenedKeeps
  <2>2. ASSUME NEW w \in Walker PROVE Stands(table', walk[w], witness)
    <3>1. Stands(table, walk[w], witness) /\ WalksAlong(table, walk[w]) /\ WalksAlong(table', walk[w])
      BY <1>1, <1>2, <1>6 DEF SInv, IInv
    <3> QED
      BY <2>1, <3>1, StillStands
  <2> QED
    BY <1>1, <1>6, <2>2 DEF SInv
<1> QED
  BY <1>7, <1>8, <1>9

LEMMA StandingIsRegistered ==
  ASSUME NEW t, NEW record, NEW hook, Stands(t, record, hook), record.fate \in {"owed", "done"}
  PROVE  hook \in Registered(t) /\ record.stage # "IDLE"
BY DEF Stands, StandsAt, Registered

LEMMA UnregisterStands ==
  ASSUME SInv, NEW hook \in ClientHook, Unregister(hook)
  PROVE  SInv' /\ \A w \in Walker : walk'[w].stage = walk[w].stage
<1> DEFINE t2 == RemoveHook(table, hook).table
           pins == Pins(walk)
<1>1. table' = Owned(t2, pins) /\ witness' = witness
  BY DEF Unregister
<1>2. /\ hook \in Hook /\ IInv /\ InOrder(table) /\ SoundTable(table) /\ Null \notin DOMAIN table.heap
      /\ witness \in Hook
  BY WalkAssumption, NodeTypes DEF SInv, IInv, InOrder, SoundTable, SoundHeap
<1>3. PICK rank : Ranked(table, rank)
  BY <1>2 DEF InOrder
<1>4. IInv'
  BY <1>2, UnregisterInv
<1>5. /\ \A v \in Walker : walk'[v] = walk[v] \/ walk'[v] = [walk[v] EXCEPT !.fate = "gone"]
      /\ hook = witness /\ HasHook(table, witness) =>
            \A v \in Walker : Active(v) => walk'[v] = [walk[v] EXCEPT !.fate = "gone"]
  BY <1>2 DEF Unregister, IInv
<1> HIDE DEF t2
<1>6. /\ InOrder(t2) /\ DOMAIN t2.heap = DOMAIN table.heap
      /\ \A n \in DOMAIN table.heap : t2.heap[n].hook = table.heap[n].hook
  BY <1>2, RemoveHookFacts DEF t2
<1>7. \A v \in Walker : WalksAlong(table, walk[v])
  BY <1>2 DEF IInv
<1>8. pins \in SUBSET (DOMAIN t2.heap \union {Null})
  BY <1>6, <1>7, HeldNodes DEF Pins
<1> HIDE DEF pins
<1>9. \A v \in Walker : WalksAlong(t2, walk[v])
  <2> SUFFICES ASSUME NEW v \in Walker PROVE WalksAlong(t2, walk[v])
    OBVIOUS
  <2>1. WalksAlong(table, walk[v])
    BY <1>7
  <2> QED
    BY <1>2, <1>6, <2>1, HeldNodes, StillWalksAlong
<1>10. ASSUME NEW v \in Walker PROVE walk'[v].stage = walk[v].stage
  <2>1. WalksAlong(table, walk[v])
    BY <1>7
  <2>2. [walk[v] EXCEPT !.fate = "gone"].stage = walk[v].stage
    BY <2>1 DEF WalksAlong
  <2> QED
    BY <1>5, <2>2
<1>11. ASSUME NEW v \in Walker PROVE Stands(table, walk'[v], witness)
  <2>1. CASE walk'[v] = walk[v]
    BY <2>1 DEF SInv
  <2>2. CASE walk'[v] = [walk[v] EXCEPT !.fate = "gone"]
    <3>1. WalksAlong(table, walk[v])
      BY <1>7
    <3>2. walk'[v].fate = "gone"
      BY <2>2, <3>1 DEF WalksAlong
    <3> QED
      BY <3>2 DEF Stands
  <2> QED
    BY <1>5, <2>1, <2>2
<1>12. ASSUME NEW v \in Walker, walk'[v].fate \in {"owed", "done"} PROVE Stands(table', walk'[v], witness)
  <2>1. witness \in Registered(table) /\ walk'[v].stage # "IDLE"
    BY <1>11, <1>12, StandingIsRegistered
  <2>2. WalksAlong(table, walk[v]) /\ WalksAlong(t2, walk[v]) /\ WalksAlong(table', walk'[v])
    BY <1>4, <1>7, <1>9 DEF IInv
  <2>3. walk'[v] = walk[v]
    <3>1. walk'[v] # [walk[v] EXCEPT !.fate = "gone"]
      BY <1>12, <2>2 DEF WalksAlong
    <3> QED
      BY <1>5, <3>1
  <2>4. hook # witness
    <3> SUFFICES ASSUME hook = witness PROVE FALSE
      OBVIOUS
    <3>1. HasHook(table, witness)
      BY <1>2, <1>3, <2>1, HasHookIsExact
    <3>2. Active(v)
      BY <2>1, <2>3 DEF Active
    <3>3. walk'[v] = [walk[v] EXCEPT !.fate = "gone"]
      BY <1>5, <3>1, <3>2
    <3> QED
      BY <1>12, <2>2, <3>3 DEF WalksAlong
  <2>5. ASSUME NEW x \in Linked(table), table.heap[x].hook = witness PROVE Keeps(table, t2, x)
    <3>1. CASE t2 = table
      BY <2>5, <3>1 DEF Keeps
    <3>2. CASE t2 # table
      <4>1. PICK n, prev, h, j : \E top \in 0 .. 4 :
               /\ table.heap[n].hook = hook
               /\ LinkedAfter(table, rank, n, prev, top) /\ Unlinked(table, t2, n, h, j, prev, top)
        BY <1>2, <1>3, <3>2, RemoveHookStep DEF t2
      <4>2. x # n
        BY <2>4, <2>5, <4>1
      <4> QED
        BY <1>2, <1>3, <2>5, <4>1, <4>2, UnlinkedKeeps
    <3> QED
      BY <3>1, <3>2
  <2>6. Stands(t2, walk[v], witness)
    BY <1>11, <2>2, <2>3, <2>5, StillStands
  <2>7. \A x \in Linked(t2) : Keeps(t2, table', x)
    BY <1>1, <1>6, <1>8, OwnedKeeps
  <2> QED
    BY <2>2, <2>3, <2>6, <2>7, StillStands
<1> QED
  BY <1>1, <1>4, <1>10, <1>12 DEF SInv, Stands

LEMMA PreprocessStands ==
  ASSUME SInv, NEW w \in Walker, NEW func \in Func, Preprocess(w, func)
  PROVE  SInv' /\ \A v \in Walker : v # w => walk'[v] = walk[v]
<1> DEFINE first == FirstOf(table, func)
           fate == IF witness.func = func /\ HasHook(table, witness) THEN "owed" ELSE "none"
           record == [Idle EXCEPT !.stage = "PRE", !.head = first, !.fate = fate]
<1>1. /\ walk' = [walk EXCEPT ![w] = record]
      /\ table' = table /\ witness' = witness
  BY DEF Preprocess
<1>2. IInv /\ IInv' /\ SoundTable(table) /\ witness \in Hook
  BY PreprocessInv, WalkAssumption DEF SInv, IInv, InOrder
<1>3. PICK rank : Ranked(table, rank)
  BY <1>2 DEF IInv, InOrder
<1>4. ASSUME fate = "owed" PROVE \E x \in Linked(table) : StandsAt(table, record, witness, x)
  <2>1. witness.func = func /\ HasHook(table, witness)
    BY <1>4
  <2>2. witness \in Registered(table)
    BY <1>2, <1>3, <2>1, HasHookIsExact
  <2>3. PICK x \in Linked(table) : table.heap[x].hook = witness
    BY <2>2 DEF Registered
  <2>4. LeadsTo(table.heap, first, x) /\ OnlyNode(table, {first, Null}, x)
    BY <1>2, <1>3, <2>1, <2>3, FirstLeads
  <2> HIDE DEF first, fate
  <2>5. record.stage = "PRE" /\ record.head = first /\ record.node = Null /\ record.fate = "owed"
    BY <1>4 DEF Idle
  <2> HIDE DEF record
  <2>6. StandsAt(table, record, witness, x)
    BY <2>3, <2>4, <2>5 DEF StandsAt
  <2> QED
    BY <2>6
<1>5. Stands(table, record, witness)
  <2>1. record.fate = fate /\ fate \in {"owed", "none"}
    BY DEF Idle
  <2> HIDE DEF fate, record
  <2> QED
    BY <1>4, <2>1 DEF Stands
<1> HIDE DEF record
<1>6. \A v \in Walker : walk'[v] = IF v = w THEN record ELSE walk[v]
  BY <1>1, <1>2 DEF IInv
<1> QED
  BY <1>1, <1>2, <1>5, <1>6 DEF SInv

(***************************************************************************)
(* The next callback of a call, or Null, as far as a standing hook at x is *)
(* concerned that the call still owes or has run.                          *)
(***************************************************************************)
LEMMA NextCallback ==
  ASSUME SInv, NEW w \in Walker, Proceed(w)
  PROVE  \E n :
           /\ MoveTo(w, IF n = Null THEN After(walk[w]) ELSE {Calling(walk[w], n)})
           /\ n # Null =>
                 /\ n \in DOMAIN table.heap /\ table.heap[n].hook.type = walk[w].stage
                 /\ table.heap[n].hook.func = table.heap[walk[w].head].hook.func
           /\ \A x \in Linked(table) :
                 StandsAt(table, walk[w], witness, x) =>
                    /\ OnlyNode(table, {walk[w].head, n}, x)
                    /\ n # Null /\ table.heap[n].hook = witness => n = x
                    /\ walk[w].fate = "owed" /\ walk[w].stage = witness.type =>
                          n # Null /\ LeadsTo(table.heap, n, x)
                    /\ walk[w].fate = "done" /\ walk[w].stage = witness.type /\ n # Null =>
                          n # x /\ IsPast(table.heap, n, x)
<1> DEFINE r == walk[w]
           D == DOMAIN table.heap
           H(n) == table.heap[n].hook
           options(n) == IF n = Null THEN After(r) ELSE {Calling(r, n)}
           known(n, x) ==
               /\ OnlyNode(table, {r.head, n}, x)
               /\ n # Null /\ H(n) = witness => n = x
               /\ r.fate = "owed" /\ r.stage = witness.type => n # Null /\ LeadsTo(table.heap, n, x)
               /\ r.fate = "done" /\ r.stage = witness.type /\ n # Null =>
                     n # x /\ IsPast(table.heap, n, x)
<1>1. /\ WalksAlong(table, r) /\ r.stage # "IDLE" /\ SoundTable(table) /\ Null \notin D
      /\ Typed(table.heap)
  BY NodeTypes DEF SInv, IInv, InOrder, SoundTable, SoundHeap, Proceed, RunHooksOfType, Return,
                   AskForPostHooks, Active, Type
<1>2. r.head \in D
  BY <1>1 DEF WalksAlong
<1>3. Linked(table) \in SUBSET D
  BY <1>1, LinkedFacts
\* A node that every closed set with the held nodes has.
<1>4. ASSUME NEW n, NEW x \in Linked(table), StandsAt(table, r, witness, x),
             \A S \in SUBSET D : /\ r.head \in S /\ r.node \in S \union {Null} /\ Closed(table.heap, S)
                                 => n \in S \union {Null}
      PROVE  OnlyNode(table, {r.head, n}, x) /\ (n # Null /\ H(n) = witness => n = x)
  <2>1. PICK S \in SUBSET D :
           /\ Linked(table) \subseteq S /\ {r.head, r.node} \subseteq S \union {Null} /\ Closed(table.heap, S)
           /\ \A m \in S : H(m) = H(x) => m = x
    BY <1>4 DEF StandsAt, OnlyNode
  <2>2. n \in S \union {Null}
    BY <1>1, <1>2, <1>4, <2>1
  <2>3. {r.head, n} \subseteq S \union {Null}
    BY <2>1, <2>2
  <2>4. OnlyNode(table, {r.head, n}, x)
    BY <2>1, <2>3 DEF OnlyNode
  <2>5. H(x) = witness
    BY <1>4 DEF StandsAt
  <2> QED
    BY <2>1, <2>2, <2>4, <2>5
<1>5. CASE RunHooksOfType(w)
  <2> DEFINE first == FirstOfType(table, r.head, r.stage)
  <2>1. MoveTo(w, options(first)) /\ r.node = Null
    BY <1>5 DEF RunHooksOfType
  <2>2. first # Null => first \in D /\ H(first).type = r.stage /\ H(first).func = H(r.head).func
    BY <1>1, <1>2, FirstOfTypeIsOfType
  <2>3. ASSUME NEW x \in Linked(table), StandsAt(table, r, witness, x) PROVE known(first, x)
    <3>1. \A S \in SUBSET D : r.head \in S /\ Closed(table.heap, S) => first \in S \union {Null}
      BY <1>1, <1>2, FirstStays
    <3>2. H(x) = witness /\ x \in D
      BY <1>3, <2>3 DEF StandsAt
    <3>3. ASSUME r.fate = "owed", r.stage = witness.type PROVE first # Null /\ LeadsTo(table.heap, first, x)
      <4>1. LeadsTo(table.heap, r.head, x)
        BY <2>3, <3>3 DEF StandsAt
      <4> QED
        BY <1>1, <1>2, <3>2, <3>3, <4>1, LeadsToFirst
    <3>4. ~(r.fate = "done" /\ r.stage = witness.type)
      BY <2>1, <2>3 DEF StandsAt, Later
    <3> HIDE DEF first
    <3>5. OnlyNode(table, {r.head, first}, x) /\ (first # Null /\ H(first) = witness => first = x)
      BY <1>4, <2>3, <3>1
    <3> QED
      BY <3>3, <3>4, <3>5
  <2> HIDE DEF known, options, first
  <2>4. \E n : /\ MoveTo(w, options(n))
               /\ n # Null => n \in D /\ H(n).type = r.stage /\ H(n).func = H(r.head).func
               /\ \A x \in Linked(table) : StandsAt(table, r, witness, x) => known(n, x)
    BY <2>1, <2>2, <2>3
  <2> QED
    BY <2>4 DEF known, options
<1>6. CASE Return(w)
  <2> DEFINE next == table.heap[r.node].next[4]
  <2>1. MoveTo(w, options(next)) /\ r.node # Null
    BY <1>6 DEF Return, Between
  <2>2. r.node \in D /\ H(r.node).type = r.stage /\ H(r.node).func = H(r.head).func
    BY <1>1, <2>1 DEF WalksAlong
  <2>3. next # Null => next \in D /\ H(next).type = r.stage /\ H(next).func = H(r.head).func
    BY <1>1, <2>2, NextInCollection
  <2>4. 4 \in Level
    BY Levels
  <2>5. ASSUME NEW x \in Linked(table), StandsAt(table, r, witness, x) PROVE known(next, x)
    <3>1. \A S \in SUBSET D : r.node \in S \union {Null} /\ Closed(table.heap, S) => next \in S \union {Null}
      BY <2>1, <2>4 DEF Closed
    <3>2. H(x) = witness /\ x \in D
      BY <1>3, <2>5 DEF StandsAt
    <3>3. ASSUME r.fate = "owed", r.stage = witness.type PROVE next # Null /\ LeadsTo(table.heap, next, x)
      <4>1. r.node # x /\ LeadsTo(table.heap, r.node, x)
        BY <2>1, <2>5, <3>3 DEF StandsAt
      <4>2. Onward(table.heap, r.node, H(x).type) = next
        BY <2>2, <3>2, <3>3 DEF Onward
      <4> QED
        BY <1>1, <2>2, <3>2, <4>1, <4>2, LeadsOnward
    <3>4. ASSUME r.fate = "done", r.stage = witness.type, next # Null
          PROVE  next # x /\ IsPast(table.heap, next, x)
      <4>1. IsPast(table.heap, r.node, x)
        BY <2>5, <3>4 DEF StandsAt, Later
      <4>2. PICK S \in SUBSET D :
               /\ next \in S \union {Null} /\ x \notin S
               /\ \A m \in S : table.heap[m].next[4] \in S \union {Null}
        BY <4>1 DEF IsPast
      <4> HIDE DEF next
      <4> QED
        BY <3>4, <4>2 DEF IsPast
    <3> HIDE DEF next
    <3>5. OnlyNode(table, {r.head, next}, x) /\ (next # Null /\ H(next) = witness => next = x)
      BY <1>4, <2>5, <3>1
    <3> QED
      BY <3>3, <3>4, <3>5
  <2> HIDE DEF known, options, next
  <2>6. \E n : /\ MoveTo(w, options(n))
               /\ n # Null => n \in D /\ H(n).type = r.stage /\ H(n).func = H(r.head).func
               /\ \A x \in Linked(table) : StandsAt(table, r, witness, x) => known(n, x)
    BY <2>1, <2>3, <2>5
  <2> QED
    BY <2>6 DEF known, options
<1>7. CASE AskForPostHooks(w)
  <2>1. MoveTo(w, options(Null)) /\ r.stage = "NATIVE"
    BY <1>7 DEF AskForPostHooks
  <2>2. ASSUME NEW x \in Linked(table), StandsAt(table, r, witness, x) PROVE known(Null, x)
    <3>1. r.stage # witness.type
      BY <2>1, WalkAssumption DEF SInv, IInv, Hook, Type
    <3>2. OnlyNode(table, {r.head, Null}, x)
      BY <1>4, <2>2
    <3> QED
      BY <3>1, <3>2
  <2> HIDE DEF known, options
  <2>3. \E n : /\ MoveTo(w, options(n))
               /\ n # Null => n \in D /\ H(n).type = r.stage /\ H(n).func = H(r.head).func
               /\ \A x \in Linked(table) : StandsAt(table, r, witness, x) => known(n, x)
    BY <2>1, <2>2
  <2> QED
    BY <2>3 DEF known, options
<1> QED
  BY <1>5, <1>6, <1>7 DEF Proceed

LEMMA AfterCases ==
  ASSUME NEW record, WalksAlong(table, record), record.stage # "IDLE", NEW next \in After(record)
  PROVE  /\ next.node = Null
         /\ \/ /\ next.stage = "IDLE" /\ next.fate = "none"
               /\ \/ record.stage = "POST_UNCONDITIONAL"
                  \/ record.stage = "NATIVE" /\ ~HasPostHooks(table, record.head)
            \/ /\ next.head = record.head /\ next.fate = record.fate
               /\ \/ record.stage = "PRE" /\ next.stage = "NATIVE"
                  \/ record.stage = "NATIVE" /\ next.stage \in {"POST", "POST_UNCONDITIONAL"}
                  \/ record.stage = "POST" /\ next.stage = "POST_UNCONDITIONAL"
<1> DEFINE moved(stage) == [record EXCEPT !.stage = stage, !.node = Null]
<1>1. Idle.stage = "IDLE" /\ Idle.fate = "none" /\ Idle.node = Null
  BY DEF Idle
<1>2. \A stage : /\ moved(stage).stage = stage /\ moved(stage).node = Null
                 /\ moved(stage).head = record.head /\ moved(stage).fate = record.fate
  BY DEF WalksAlong
<1>3. record.stage \in {"PRE", "NATIVE", "POST", "POST_UNCONDITIONAL"}
  BY DEF WalksAlong, Type
<1>4. CASE IsLast(record)
  <2>1. next = Idle
    BY <1>4 DEF After
  <2> QED
    BY <1>1, <1>4, <2>1 DEF IsLast
<1>5. CASE ~IsLast(record)
  <2>1. PICK stage \in NextStages(record) : next = moved(stage)
    BY <1>5 DEF After
  <2>2. /\ next.stage = stage /\ next.node = Null
        /\ next.head = record.head /\ next.fate = record.fate
    BY <1>2, <2>1
  <2>3. record.stage # "POST_UNCONDITIONAL"
    BY <1>5 DEF IsLast
  <2> HIDE DEF moved
  <2> QED
    BY <1>3, <2>2, <2>3 DEF NextStages
<1> QED
  BY <1>4, <1>5

LEMMA CallStands ==
  ASSUME SInv, NEW w \in Walker, Proceed(w)
  PROVE  /\ SInv'
         /\ \A v \in Walker : v # w => walk'[v] = walk[v]
         /\ StartsWitness(w) => walk[w].fate # "done"
         /\ walk[w].fate = "owed" => witness.type \notin Passed(w)
<1> DEFINE r == walk[w]
           D == DOMAIN table.heap
           H(n) == table.heap[n].hook
<1>1. /\ IInv /\ IInv' /\ witness \in Hook /\ \A v \in Walker : v # w => walk'[v] = walk[v]
      /\ InOrder(table) /\ SoundTable(table) /\ WalksAlong(table, r)
      /\ r.stage \in {"PRE", "NATIVE", "POST", "POST_UNCONDITIONAL"}
  <2>1. r.stage # "IDLE" /\ IInv /\ witness \in Hook
    BY WalkAssumption DEF Proceed, RunHooksOfType, Return, AskForPostHooks, Active, SInv, IInv, Type
  <2>2. WalksAlong(table, r) /\ InOrder(table)
    BY <2>1 DEF IInv
  <2> QED
    BY <2>1, <2>2, CallInv DEF WalksAlong, Type, InOrder
<1>2. PICK n :
         /\ MoveTo(w, IF n = Null THEN After(r) ELSE {Calling(r, n)})
         /\ n # Null => n \in D /\ H(n).type = r.stage /\ H(n).func = H(r.head).func
         /\ \A x \in Linked(table) :
               StandsAt(table, r, witness, x) =>
                  /\ OnlyNode(table, {r.head, n}, x)
                  /\ n # Null /\ H(n) = witness => n = x
                  /\ r.fate = "owed" /\ r.stage = witness.type => n # Null /\ LeadsTo(table.heap, n, x)
                  /\ r.fate = "done" /\ r.stage = witness.type /\ n # Null =>
                        n # x /\ IsPast(table.heap, n, x)
  BY NextCallback
<1>3. PICK next \in IF n = Null THEN After(r) ELSE {Calling(r, n)} :
         /\ walk' = [walk EXCEPT ![w] = next]
         /\ table' = Owned(table, Pins(walk'))
         /\ witness' = witness
  BY <1>2 DEF MoveTo
<1>4. walk'[w] = next
  BY <1>1, <1>3 DEF IInv
<1>5. /\ r.fate \in {"owed", "done"} => \E x \in Linked(table) : StandsAt(table, r, witness, x)
      /\ Linked(table) \in SUBSET D
  BY <1>1, LinkedFacts DEF SInv, Stands
<1> DEFINE goal == /\ Stands(table, next, witness)
                   /\ next.node # Null /\ H(next.node) = witness => r.fate # "done"
                   /\ r.fate = "owed" => witness.type \notin Passed(w)
<1>6. ASSUME n # Null PROVE goal
  <2>1. next = Calling(r, n)
    BY <1>3, <1>6
  <2>2. /\ next.stage = r.stage /\ next.head = r.head /\ next.node = n
        /\ next.fate = IF r.fate = "owed" /\ H(n) = witness THEN "done" ELSE r.fate
    BY <1>1, <2>1 DEF Calling, WalksAlong
  <2>3. Passed(w) = {}
    BY <1>4, <2>2 DEF Passed
  <2>4. ASSUME NEW x \in Linked(table), StandsAt(table, r, witness, x), r.fate \in {"owed", "done"}
        PROVE  StandsAt(table, next, witness, x) /\ (H(n) = witness => r.fate # "done")
    <3>1. /\ OnlyNode(table, {r.head, n}, x)
          /\ H(n) = witness => n = x
          /\ r.fate = "owed" /\ r.stage = witness.type => LeadsTo(table.heap, n, x)
          /\ r.fate = "done" /\ r.stage = witness.type => n # x /\ IsPast(table.heap, n, x)
      BY <1>2, <1>6, <2>4
    <3>2. x \in D /\ H(x) = witness /\ H(n).type = r.stage
      BY <1>2, <1>5, <1>6, <2>4 DEF StandsAt
    <3>3. CASE r.fate = "owed" /\ H(n) = witness
      <4>1. IsPast(table.heap, n, x) /\ next.fate = "done" /\ r.stage = witness.type
        BY <1>1, <2>2, <3>1, <3>2, <3>3, PastItself
      <4>2. next.fate # "owed" /\ r.fate # "done"
        BY <3>3, <4>1
      <4>3. OnlyNode(table, {next.head, next.node}, x) /\ next.stage # "IDLE"
        BY <1>1, <2>2, <3>1
      <4> QED
        BY <1>6, <2>2, <3>2, <4>1, <4>2, <4>3 DEF StandsAt
    <3>4. CASE r.fate = "owed" /\ H(n) # witness
      <4>1. next.fate = "owed" /\ n # x
        BY <2>2, <3>2, <3>4
      <4>2. LeadsTo(table.heap, next.head, x)
        BY <2>2, <2>4, <3>4 DEF StandsAt
      <4>3. OnlyNode(table, {next.head, next.node}, x) /\ next.stage # "IDLE"
        BY <1>1, <2>2, <3>1
      <4> QED
        BY <2>2, <3>1, <3>2, <3>4, <4>1, <4>2, <4>3 DEF StandsAt
    <3>5. CASE r.fate = "done"
      <4>1. next.fate = "done"
        BY <2>2, <3>5
      <4>2. Later(r.stage, witness.type) \/ r.stage = witness.type
        BY <2>4, <3>5 DEF StandsAt
      <4>3. OnlyNode(table, {next.head, next.node}, x) /\ next.stage # "IDLE"
        BY <1>1, <2>2, <3>1
      <4>4. StandsAt(table, next, witness, x)
        BY <1>6, <2>2, <3>1, <3>2, <3>5, <4>1, <4>2, <4>3 DEF StandsAt
      <4>5. H(n) # witness
        <5> SUFFICES ASSUME H(n) = witness PROVE FALSE
          OBVIOUS
        <5>1. r.stage = witness.type
          BY <3>2
        <5> QED
          BY <3>1, <3>5, <5>1
      <4> QED
        BY <4>4, <4>5
    <3> QED
      BY <2>4, <3>3, <3>4, <3>5
  <2>5. next.fate \in {"owed", "done"} => r.fate \in {"owed", "done"}
    BY <2>2
  <2> QED
    BY <1>5, <2>2, <2>3, <2>4, <2>5 DEF Stands
<1>7. ASSUME n = Null PROVE goal
  <2>1. next \in After(r)
    BY <1>3, <1>7
  <2>2. \/ /\ next.stage = "IDLE" /\ next.fate = "none"
           /\ \/ r.stage = "POST_UNCONDITIONAL"
              \/ r.stage = "NATIVE" /\ ~HasPostHooks(table, r.head)
        \/ /\ next.head = r.head /\ next.fate = r.fate
           /\ \/ r.stage = "PRE" /\ next.stage = "NATIVE"
              \/ r.stage = "NATIVE" /\ next.stage \in {"POST", "POST_UNCONDITIONAL"}
              \/ r.stage = "POST" /\ next.stage = "POST_UNCONDITIONAL"
    BY <1>1, <2>1, AfterCases
  <2>3. next.node = Null /\ r.stage # next.stage
    BY <1>1, <2>1, <2>2, AfterCases
  <2>4. ASSUME NEW x \in Linked(table), StandsAt(table, r, witness, x), r.fate = "owed"
        PROVE  witness.type \notin Passed(w)
    <3>1. r.stage # witness.type
      BY <1>2, <1>7, <2>4
    <3>2. CASE r.stage = "NATIVE" /\ next.stage = "IDLE"
      <4>1. LeadsTo(table.heap, r.head, x) /\ H(x) = witness /\ x \in D /\ r.head \in D
        BY <1>1, <1>5, <2>4 DEF StandsAt, WalksAlong
      <4>2. ~HasPostHooks(table, r.head)
        BY <2>2, <3>2
      <4>3. witness.type = "PRE"
        BY <1>1, <4>1, <4>2, LeadsToPostHooks
      <4>4. Passed(w) = {"POST", "POST_UNCONDITIONAL"}
        BY <1>4, <3>2 DEF Passed
      <4> QED
        BY <4>3, <4>4
    <3>3. CASE ~(r.stage = "NATIVE" /\ next.stage = "IDLE")
      <4>1. Passed(w) \subseteq {r.stage}
        BY <1>4, <3>3 DEF Passed
      <4> QED
        BY <3>1, <4>1
    <3> QED
      BY <3>2, <3>3
  <2>5. ASSUME NEW x \in Linked(table), StandsAt(table, r, witness, x), next.fate \in {"owed", "done"},
               r.fate \in {"owed", "done"}
        PROVE  StandsAt(table, next, witness, x)
    <3>1. next.fate # "none"
      BY <2>5
    <3>2. /\ next.head = r.head /\ next.fate = r.fate
          /\ next.stage \in {"NATIVE", "POST", "POST_UNCONDITIONAL"}
          /\ r.stage \in {"PRE", "NATIVE"} \/ (r.stage = "POST" /\ next.stage = "POST_UNCONDITIONAL")
          /\ r.stage = "NATIVE" => next.stage # "NATIVE"
      BY <2>2, <3>1
    <3>3. OnlyNode(table, {next.head, next.node}, x)
      BY <1>2, <1>7, <2>3, <2>5, <3>2
    <3>4. next.fate = "done" => Later(next.stage, witness.type)
      <4> SUFFICES ASSUME next.fate = "done" PROVE Later(next.stage, witness.type)
        OBVIOUS
      <4>1. Later(r.stage, witness.type) \/ r.stage = witness.type
        BY <2>5, <3>2 DEF StandsAt
      <4>2. r.stage # "NATIVE" \/ witness.type # "NATIVE"
        BY <1>1 DEF Hook, Type
      <4> QED
        BY <3>2, <4>1, <4>2 DEF Later
    <3>5. next.fate = "owed" => LeadsTo(table.heap, next.head, x)
      BY <2>5, <3>2 DEF StandsAt
    <3>6. H(x) = witness /\ next.stage # "IDLE"
      BY <2>5, <3>2 DEF StandsAt
    <3> QED
      BY <2>3, <3>3, <3>4, <3>5, <3>6 DEF StandsAt
  <2>6. next.fate \in {"owed", "done"} => r.fate \in {"owed", "done"}
    BY <2>2
  <2> QED
    BY <1>5, <2>3, <2>4, <2>5, <2>6 DEF Stands
<1>8. goal
  BY <1>6, <1>7
<1>9. \A v \in Walker : Stands(table, walk'[v], witness)
  BY <1>1, <1>4, <1>8 DEF SInv
<1>10. \A v \in Walker : WalksAlong(table', walk'[v])
  BY <1>1 DEF IInv
<1>11. \A v \in Walker : WalksAlong(table, walk'[v])
  <2>1. \A v \in Walker : v # w => WalksAlong(table, walk'[v])
    BY <1>1 DEF IInv
  <2>2. WalksAlong(table, next)
    <3>1. CASE n = Null
      BY <1>1, <1>3, <3>1, AfterWalks
    <3>2. CASE n # Null
      BY <1>1, <1>2, <1>3, <3>2, CallingWalks
    <3> QED
      BY <3>1, <3>2
  <2> QED
    BY <1>4, <2>1, <2>2
<1>12. \A x \in Linked(table) : Keeps(table, table', x)
  <2>1. Pins(walk') \in SUBSET (D \union {Null})
    BY <1>11, HeldNodes DEF Pins
  <2> QED
    BY <1>1, <1>3, <2>1, OwnedKeeps
<1>13. \A v \in Walker : Stands(table', walk'[v], witness)
  BY <1>9, <1>10, <1>11, <1>12, StillStands
<1>14. StartsWitness(w) => next.node # Null /\ H(next.node) = witness
  BY <1>4 DEF StartsWitness, Starts, StartedHook
<1> QED
  BY <1>1, <1>3, <1>8, <1>13, <1>14 DEF SInv

LEMMA InitStands == Init => SInv
<1> SUFFICES ASSUME Init PROVE SInv
  OBVIOUS
<1>1. \A w \in Walker : walk[w] = Idle
  BY DEF Init
<1>2. Idle.fate = "none"
  BY DEF Idle
<1> QED
  BY <1>1, <1>2, InitInv DEF SInv, Stands

LEMMA NextStands == SInv /\ [Next]_vars => SInv'
<1> SUFFICES ASSUME SInv, [Next]_vars PROVE SInv'
  OBVIOUS
<1>1. CASE UNCHANGED vars
  <2>1. IInv'
    BY <1>1, NextInv DEF SInv
  <2> QED
    BY <1>1, <2>1 DEF vars, SInv
<1>2. CASE Client(ClientHook)
  BY <1>2, RegisterStands, UnregisterStands DEF Client
<1>3. ASSUME NEW w \in Walker, Call(w) PROVE SInv'
  BY <1>3, PreprocessStands, CallStands DEF Call
<1> QED
  BY <1>1, <1>2, <1>3 DEF Next

(***************************************************************************)
(* The invariant with what it says of standing hooks: what a call owes is  *)
(* ahead of it and what it ran is behind it, from removed nodes as well.   *)
(***************************************************************************)
THEOREM StandingInvariance == Spec => []SInv
BY InitStands, NextStands, PTL DEF Spec

(***************************************************************************)
(* A hook that stays registered is run at most once for a call, whatever   *)
(* is added and removed around it in the meantime.                         *)
(***************************************************************************)
THEOREM HooksRunOnce == Spec => StandingHookRunsOnce
<1> DEFINE once == \A w \in Walker : StartsWitness(w) => walk[w].fate # "done"
<1>1. SInv /\ [Next]_vars => once
  <2> SUFFICES ASSUME SInv, [Next]_vars, NEW v \in Walker, StartsWitness(v)
               PROVE  walk[v].fate # "done"
    OBVIOUS
  <2>0. walk'[v].node # Null /\ walk'[v].node # walk[v].node /\ IInv
    BY DEF StartsWitness, Starts, SInv
  <2>1. CASE UNCHANGED vars
    BY <2>0, <2>1 DEF vars
  <2>2. ASSUME NEW hook \in ClientHook, Register(hook) \/ Unregister(hook) PROVE FALSE
    BY <2>0, <2>2, UnregisterInv DEF Register
  <2>3. ASSUME NEW w \in Walker, NEW func \in Func, Preprocess(w, func) PROVE FALSE
    BY <2>0, <2>3, PreprocessInv
  <2>4. ASSUME NEW w \in Walker, Proceed(w) PROVE walk[v].fate # "done"
    BY <2>0, <2>4, CallStands
  <2> QED
    BY <2>1, <2>2, <2>3, <2>4 DEF Next, Client, Call
<1> QED
  BY <1>1, StandingInvariance, PTL DEF Spec, StandingHookRunsOnce

(***************************************************************************)
(* A hook that stays registered is not skipped: no call moves past the     *)
(* hook's stage, or ends for want of hooks, while it owes it.              *)
(***************************************************************************)
THEOREM HooksAreNotSkipped == Spec => StandingHookIsNotSkipped
<1> DEFINE whole == \A w \in Walker : walk[w].fate = "owed" => witness.type \notin Passed(w)
<1>1. SInv /\ [Next]_vars => whole
  <2> SUFFICES ASSUME SInv, [Next]_vars, NEW v \in Walker, walk[v].fate = "owed"
               PROVE  witness.type \notin Passed(v)
    OBVIOUS
  <2>0. walk[v].stage # "IDLE"
    BY StandingIsRegistered DEF SInv
  <2>1. ASSUME walk'[v].stage = walk[v].stage PROVE witness.type \notin Passed(v)
    BY <2>1 DEF Passed
  <2>2. CASE UNCHANGED vars
    BY <2>1, <2>2 DEF vars
  <2>3. ASSUME NEW hook \in ClientHook, Register(hook) \/ Unregister(hook)
        PROVE  witness.type \notin Passed(v)
    BY <2>1, <2>3, UnregisterStands DEF Register
  <2>4. ASSUME NEW w \in Walker, NEW func \in Func, Preprocess(w, func)
        PROVE  witness.type \notin Passed(v)
    <3>1. v # w
      BY <2>0, <2>4 DEF Preprocess, Active
    <3> QED
      BY <2>1, <2>4, <3>1, PreprocessStands
  <2>5. ASSUME NEW w \in Walker, Proceed(w)
        PROVE  witness.type \notin Passed(v)
    BY <2>1, <2>5, CallStands
  <2> QED
    BY <2>2, <2>3, <2>4, <2>5 DEF Next, Client, Call
<1> QED
  BY <1>1, StandingInvariance, PTL DEF Spec, StandingHookIsNotSkipped

-----------------------------------------------------------------------------
(***************************************************************************)
(* The logging of calls.                                                   *)
(***************************************************************************)
NobodyToggles == \A t \in Thread : ~Toggling(t)

\* One thread at most is in log_all_calls, and what it did so far.
Toggles ==
    /\ \A t, u \in Thread : Toggling(t) /\ Toggling(u) => t = u
    /\ \A t \in Thread :
          /\ thread[t].at = "opens" => thread[t].want
          /\ thread[t].at = "sets" /\ thread[t].want => stream.open
          /\ thread[t].at = "closes" => ~should_log_all_calls

FlagMeansOpen == NobodyToggles /\ should_log_all_calls => stream.open

\* How far a call got that no log_all_calls disturbed.
CallsOnCourse ==
    \A t \in Thread : thread[t].calm =>
        /\ NobodyToggles
        /\ thread[t].at = "checks" => should_log_all_calls
        /\ thread[t].at = "writes" => thread[t].named
        /\ thread[t].at = "looks" => thread[t].named \/ ~should_log_all_calls
        /\ thread[t].at = "done" => thread[t].found

LoggingInv == LoggingTypeOK /\ Toggles /\ FlagMeansOpen /\ CallsOnCourse

-----------------------------------------------------------------------------

LEMMA OutsideType == Outside \in ThreadState /\ Outside.at = "idle" /\ ~Outside.calm
BY DEF Outside, ThreadState

(***************************************************************************)
(* A thread moves on in a call, or begins or ends one: neither the flag    *)
(* nor who is in log_all_calls changes.                                    *)
(***************************************************************************)
LEMMA CallStepInv ==
    ASSUME LoggingInv, NEW t \in Thread, NEW call \in ThreadState, SetCall(t, call),
           stream' \in [open : BOOLEAN, failed : BOOLEAN], stream'.open = stream.open,
           ~Toggling(t), call.at \notin {"opens", "sets", "closes"},
           call.calm =>
               /\ NobodyToggles
               /\ call.at = "checks" => should_log_all_calls
               /\ call.at = "writes" => call.named
               /\ call.at = "looks" => call.named \/ ~should_log_all_calls
               /\ call.at = "done" => call.found
    PROVE  LoggingInv'
<1>1. /\ thread \in [Thread -> ThreadState] /\ thread' = [thread EXCEPT ![t] = call]
      /\ should_log_all_calls' = should_log_all_calls
    BY DEF SetCall, LoggingInv, LoggingTypeOK
<1>2. \A u \in Thread : thread'[u] = IF u = t THEN call ELSE thread[u]
    BY <1>1
<1>3. LoggingTypeOK'
    BY <1>1 DEF LoggingInv, LoggingTypeOK
<1>4. \A u \in Thread : Toggling(u)' <=> Toggling(u)
    BY <1>2 DEF Toggling
<1>5. NobodyToggles' <=> NobodyToggles
    BY <1>4 DEF NobodyToggles
<1>6. Toggles'
    <2>1. \A u, v \in Thread : Toggling(u)' /\ Toggling(v)' => u = v
        BY <1>4 DEF LoggingInv, Toggles
    <2>2. \A u \in Thread : Toggling(u) => thread'[u] = thread[u]
        BY <1>2
    <2>3. \A u \in Thread : thread'[u].at \in {"opens", "sets", "closes"} => Toggling(u)
        BY <1>4 DEF Toggling
    <2> QED
        BY <1>1, <2>1, <2>2, <2>3 DEF LoggingInv, Toggles
<1>7. FlagMeansOpen'
    BY <1>1, <1>5 DEF LoggingInv, FlagMeansOpen
<1>8. CallsOnCourse'
    BY <1>1, <1>2, <1>5 DEF LoggingInv, CallsOnCourse
<1> QED
    BY <1>3, <1>6, <1>7, <1>8 DEF LoggingInv

LEMMA CallStepsInv ==
    ASSUME LoggingInv, NEW t \in Thread,
           CallFunction(t) \/ ReadFlag(t) \/ CheckOpen(t) \/ Write(t) \/ LookUp(t) \/ Finish(t)
    PROVE  LoggingInv'
<1>1. thread[t] \in ThreadState /\ stream \in [open : BOOLEAN, failed : BOOLEAN]
    BY DEF LoggingInv, LoggingTypeOK
<1>2. ~Toggling(t)
    BY OutsideType DEF Toggling, CallFunction, ReadFlag, CheckOpen, Write, LookUp, Finish
<1>3. CASE CallFunction(t)
    <2> DEFINE call == [Outside EXCEPT !.at = "reads", !.calm = \A u \in Thread : ~Toggling(u)]
    <2>1. call \in ThreadState /\ call.at = "reads" /\ (call.calm => NobodyToggles)
        <3>1. NobodyToggles \in BOOLEAN
            BY DEF NobodyToggles
        <3>2. call = [Outside EXCEPT !.at = "reads", !.calm = NobodyToggles]
            BY DEF NobodyToggles
        <3> QED
            BY <3>1, <3>2, OutsideType DEF ThreadState
    <2>2. SetCall(t, call) /\ stream' = stream
        BY <1>3 DEF CallFunction
    <2> HIDE DEF call
    <2> QED
        BY <1>1, <1>2, <2>1, <2>2, CallStepInv
<1>4. CASE ReadFlag(t)
    <2> DEFINE call == [thread[t] EXCEPT !.at = IF should_log_all_calls THEN "checks" ELSE "looks"]
    <2>1. /\ call \in ThreadState /\ call.calm = thread[t].calm
          /\ call.at = IF should_log_all_calls THEN "checks" ELSE "looks"
        BY <1>1 DEF ThreadState
    <2>2. SetCall(t, call) /\ stream' = stream
        BY <1>4 DEF ReadFlag
    <2> HIDE DEF call
    <2>3. call.calm => NobodyToggles
        BY <2>1 DEF LoggingInv, CallsOnCourse
    <2> QED
        BY <1>1, <1>2, <2>1, <2>2, <2>3, CallStepInv
<1>5. CASE CheckOpen(t)
    <2> DEFINE writes == [thread[t] EXCEPT !.at = "writes", !.named = TRUE]
               looks == [thread[t] EXCEPT !.at = "looks"]
    <2>1. /\ writes \in ThreadState /\ writes.calm = thread[t].calm
          /\ writes.at = "writes" /\ writes.named
          /\ looks \in ThreadState /\ looks.calm = thread[t].calm /\ looks.at = "looks"
        BY <1>1 DEF ThreadState
    <2>2. SetCall(t, IF stream.open THEN writes ELSE looks) /\ stream' = stream /\ thread[t].at = "checks"
        BY <1>5 DEF CheckOpen
    <2>3. thread[t].calm => NobodyToggles /\ stream.open
        BY <2>2 DEF LoggingInv, CallsOnCourse, FlagMeansOpen
    <2> HIDE DEF writes, looks
    <2>4. CASE stream.open
        BY <1>1, <1>2, <2>1, <2>2, <2>3, <2>4, CallStepInv
    <2>5. CASE ~stream.open
        BY <1>1, <1>2, <2>1, <2>2, <2>3, <2>5, CallStepInv
    <2> QED
        BY <2>4, <2>5
<1>6. CASE Write(t)
    <2> DEFINE call == [thread[t] EXCEPT !.at = "looks"]
    <2>1. /\ call \in ThreadState /\ call.calm = thread[t].calm
          /\ call.at = "looks" /\ call.named = thread[t].named
        BY <1>1 DEF ThreadState
    <2>2. SetCall(t, call) /\ thread[t].at = "writes"
        BY <1>6 DEF Write
    <2>3. stream' \in [open : BOOLEAN, failed : BOOLEAN] /\ stream'.open = stream.open
        BY <1>1, <1>6 DEF Write
    <2> HIDE DEF call
    <2>4. call.calm => NobodyToggles /\ call.named
        BY <2>1, <2>2 DEF LoggingInv, CallsOnCourse
    <2> QED
        BY <1>1, <1>2, <2>1, <2>2, <2>3, <2>4, CallStepInv
<1>7. CASE LookUp(t)
    <2> DEFINE finds == thread[t].named \/ ~should_log_all_calls
               call == [thread[t] EXCEPT !.at = "done", !.found = finds]
    <2>1. finds \in BOOLEAN
        OBVIOUS
    <2>2. thread[t].calm => NobodyToggles /\ finds
        BY <1>7 DEF LookUp, LoggingInv, CallsOnCourse
    <2>3. SetCall(t, call) /\ stream' = stream
        BY <1>7 DEF LookUp
    <2> HIDE DEF finds
    <2>4. call \in ThreadState /\ call.calm = thread[t].calm /\ call.at = "done" /\ call.found = finds
        BY <1>1, <2>1 DEF ThreadState
    <2> HIDE DEF call
    <2> QED
        BY <1>1, <1>2, <2>2, <2>3, <2>4, CallStepInv
<1>8. CASE Finish(t)
    <2>1. SetCall(t, Outside) /\ stream' = stream
        BY <1>8 DEF Finish
    <2> QED
        BY <1>1, <1>2, <2>1, OutsideType, CallStepInv
<1> QED
    BY <1>3, <1>4, <1>5, <1>6, <1>7, <1>8

\* Entering log_all_calls disturbs every call in progress.
LEMMA ToggleInv ==
    ASSUME OneAtATime, LoggingInv, NEW t \in Thread, NEW on \in BOOLEAN, Toggle(t, on)
    PROVE  LoggingInv'
<1> DEFINE enters == [Outside EXCEPT !.at = IF on THEN "opens" ELSE "sets", !.want = on]
<1>1. /\ enters \in ThreadState /\ ~enters.calm /\ enters.want = on
      /\ enters.at = IF on THEN "opens" ELSE "sets"
    BY OutsideType DEF ThreadState, Outside
<1>2. /\ NobodyToggles /\ UNCHANGED <<should_log_all_calls, stream>>
      /\ thread' = [u \in Thread |-> IF u = t THEN enters ELSE [thread[u] EXCEPT !.calm = FALSE]]
    BY DEF Toggle, NobodyToggles
<1> HIDE DEF enters
<1>3. \A u \in Thread :
         /\ thread'[u] \in ThreadState /\ ~thread'[u].calm
         /\ u # t => thread'[u].at = thread[u].at /\ thread'[u].want = thread[u].want
    <2> SUFFICES ASSUME NEW u \in Thread
                 PROVE  /\ thread'[u] \in ThreadState /\ ~thread'[u].calm
                        /\ u # t => thread'[u].at = thread[u].at /\ thread'[u].want = thread[u].want
        OBVIOUS
    <2>1. thread[u] \in ThreadState
        BY DEF LoggingInv, LoggingTypeOK
    <2>2. /\ [thread[u] EXCEPT !.calm = FALSE] \in ThreadState
          /\ ~[thread[u] EXCEPT !.calm = FALSE].calm
          /\ [thread[u] EXCEPT !.calm = FALSE].at = thread[u].at
          /\ [thread[u] EXCEPT !.calm = FALSE].want = thread[u].want
        BY <2>1 DEF ThreadState
    <2> QED
        BY <1>1, <1>2, <2>2
<1>4. LoggingTypeOK'
    BY <1>2, <1>3 DEF LoggingInv, LoggingTypeOK
<1>5. \A u \in Thread : Toggling(u)' => u = t
    BY <1>2, <1>3 DEF Toggling, NobodyToggles
<1>6. thread'[t] = enters
    BY <1>2
<1>7. Toggling(t)'
    BY <1>1, <1>6 DEF Toggling
<1>8. Toggles'
    BY <1>1, <1>5, <1>6 DEF Toggles, Toggling
<1> QED
    BY <1>3, <1>4, <1>7, <1>8 DEF LoggingInv, FlagMeansOpen, NobodyToggles, CallsOnCourse

\* A step of log_all_calls: nobody is in an undisturbed call then.
LEMMA InsideToggleInv ==
    ASSUME OpenSucceeds = {TRUE}, LoggingInv, NEW t \in Thread, Open(t) \/ SetFlag(t) \/ Close(t)
    PROVE  LoggingInv'
<1>1. /\ Toggling(t) /\ thread \in [Thread -> ThreadState] /\ thread[t] \in ThreadState
      /\ stream \in [open : BOOLEAN, failed : BOOLEAN]
    BY DEF Toggling, Open, SetFlag, Close, LoggingInv, LoggingTypeOK
<1>2. \A u \in Thread : ~thread[u].calm
    BY <1>1 DEF LoggingInv, CallsOnCourse, NobodyToggles
<1>3. \A u \in Thread : Toggling(u) => u = t
    BY <1>1 DEF LoggingInv, Toggles
<1>4. CASE Open(t)
    <2> DEFINE sets == [thread[t] EXCEPT !.at = "sets"]
    <2>1. /\ thread' = [thread EXCEPT ![t] = sets] /\ should_log_all_calls' = should_log_all_calls
        BY <1>1, <1>4 DEF Open
    <2>2. sets \in ThreadState /\ sets.at = "sets" /\ ~sets.calm
        BY <1>1, <1>2 DEF ThreadState
    <2>3. stream' \in [open : BOOLEAN, failed : BOOLEAN] /\ stream'.open
        <3>1. stream' = IF stream.open THEN [stream EXCEPT !.failed = TRUE]
                        ELSE [open |-> TRUE, failed |-> FALSE]
            BY <1>4 DEF Open
        <3>2. CASE stream.open
            BY <1>1, <3>1, <3>2
        <3>3. CASE ~stream.open
            BY <3>1, <3>3
        <3> QED
            BY <3>2, <3>3
    <2> HIDE DEF sets
    <2>4. \A u \in Thread : thread'[u] = IF u = t THEN sets ELSE thread[u]
        BY <1>1, <2>1
    <2>5. LoggingTypeOK' /\ \A u \in Thread : ~thread'[u].calm
        BY <1>2, <2>1, <2>2, <2>3, <2>4 DEF LoggingInv, LoggingTypeOK
    <2>6. Toggling(t)' /\ \A u \in Thread : Toggling(u)' => u = t
        BY <1>3, <2>2, <2>4 DEF Toggling
    <2>7. Toggles'
        BY <2>2, <2>3, <2>4, <2>6 DEF Toggles, Toggling
    <2> QED
        BY <2>5, <2>6, <2>7 DEF LoggingInv, FlagMeansOpen, NobodyToggles, CallsOnCourse
<1>5. CASE SetFlag(t) /\ thread[t].want
    <2>1. /\ thread' = [thread EXCEPT ![t] = Outside] /\ stream' = stream
          /\ should_log_all_calls' = TRUE /\ thread[t].at = "sets"
        BY <1>1, <1>5 DEF SetFlag, ThreadState
    <2>2. stream.open
        BY <1>5, <2>1 DEF LoggingInv, Toggles
    <2>3. \A u \in Thread : thread'[u] = IF u = t THEN Outside ELSE thread[u]
        BY <1>1, <2>1
    <2>4. LoggingTypeOK' /\ \A u \in Thread : ~thread'[u].calm
        BY <1>1, <1>2, <2>1, <2>3, OutsideType DEF LoggingInv, LoggingTypeOK
    <2>5. \A u \in Thread : ~Toggling(u)'
        BY <1>3, <2>3, OutsideType DEF Toggling
    <2> QED
        BY <2>1, <2>2, <2>4, <2>5 DEF LoggingInv, Toggles, Toggling, FlagMeansOpen, CallsOnCourse
<1>6. CASE SetFlag(t) /\ ~thread[t].want
    <2> DEFINE closes == [thread[t] EXCEPT !.at = "closes"]
    <2>1. /\ thread' = [thread EXCEPT ![t] = closes] /\ stream' = stream
          /\ should_log_all_calls' = thread[t].want
        BY <1>1, <1>6 DEF SetFlag
    <2>2. closes \in ThreadState /\ closes.at = "closes" /\ ~closes.calm /\ thread[t].want = FALSE
        BY <1>1, <1>2, <1>6 DEF ThreadState
    <2> HIDE DEF closes
    <2>3. \A u \in Thread : thread'[u] = IF u = t THEN closes ELSE thread[u]
        BY <1>1, <2>1
    <2>4. LoggingTypeOK' /\ \A u \in Thread : ~thread'[u].calm
        BY <1>1, <1>2, <2>1, <2>2, <2>3 DEF LoggingInv, LoggingTypeOK
    <2>5. Toggling(t)' /\ \A u \in Thread : Toggling(u)' => u = t
        BY <1>3, <2>2, <2>3 DEF Toggling
    <2>6. Toggles'
        BY <2>1, <2>2, <2>3, <2>5 DEF Toggles, Toggling
    <2> QED
        BY <2>4, <2>5, <2>6 DEF LoggingInv, FlagMeansOpen, NobodyToggles, CallsOnCourse
<1>7. CASE Close(t)
    <2>1. /\ thread' = [thread EXCEPT ![t] = Outside] /\ should_log_all_calls' = should_log_all_calls
          /\ stream' \in [open : BOOLEAN, failed : BOOLEAN] /\ thread[t].at = "closes"
        BY <1>1, <1>7 DEF Close
    <2>2. ~should_log_all_calls
        BY <2>1 DEF LoggingInv, Toggles
    <2>3. \A u \in Thread : thread'[u] = IF u = t THEN Outside ELSE thread[u]
        BY <1>1, <2>1
    <2>4. LoggingTypeOK' /\ \A u \in Thread : ~thread'[u].calm
        BY <1>1, <1>2, <2>1, <2>3, OutsideType DEF LoggingInv, LoggingTypeOK
    <2>5. \A u \in Thread : ~Toggling(u)'
        BY <1>3, <2>3, OutsideType DEF Toggling
    <2> QED
        BY <2>1, <2>2, <2>4, <2>5 DEF LoggingInv, Toggles, Toggling, FlagMeansOpen, CallsOnCourse
<1> QED
    BY <1>4, <1>5, <1>6, <1>7

-----------------------------------------------------------------------------
(***************************************************************************)
(* The invariant: outside log_all_calls a set flag comes with an open      *)
(* file, and an undisturbed call has the name if it will need it.          *)
(***************************************************************************)
THEOREM LoggingInvariance ==
    ASSUME OneAtATime, OpenSucceeds = {TRUE}
    PROVE  LoggingSpec => []LoggingInv
<1>1. LoggingInit => LoggingInv
    <2> SUFFICES ASSUME LoggingInit PROVE LoggingInv
        OBVIOUS
    <2>1. \A t \in Thread : thread[t] = Outside
        BY DEF LoggingInit
    <2>2. LoggingTypeOK
        BY OutsideType DEF LoggingInit, LoggingTypeOK
    <2> QED
        BY <2>1, <2>2, OutsideType DEF LoggingInit, LoggingInv, Toggles, Toggling, FlagMeansOpen, CallsOnCourse
<1>2. LoggingInv /\ [LoggingNext]_loggingVars => LoggingInv'
    <2> SUFFICES ASSUME LoggingInv, [LoggingNext]_loggingVars PROVE LoggingInv'
        OBVIOUS
    <2>1. CASE UNCHANGED loggingVars
        BY <2>1 DEF loggingVars, LoggingInv, LoggingTypeOK, Toggles, Toggling, FlagMeansOpen, NobodyToggles, CallsOnCourse
    <2> QED
        BY <2>1, ToggleInv, InsideToggleInv, CallStepsInv DEF LoggingNext
<1> QED
    BY <1>1, <1>2, PTL DEF LoggingSpec

(***************************************************************************)
(* Hooks are found whether calls are logged or not, as long as that does   *)
(* not change during the call, if log_all_calls can open its file and runs *)
(* in one thread at a time.                                                *)
(***************************************************************************)
THEOREM CallsFindHooks ==
    ASSUME OneAtATime, OpenSucceeds = {TRUE}
    PROVE  LoggingSpec => []UndisturbedCallsFindHooks
<1>1. LoggingInv => UndisturbedCallsFindHooks
    BY DEF LoggingInv, CallsOnCourse, UndisturbedCallsFindHooks
<1> QED
    BY <1>1, LoggingInvariance, PTL
=============================================================================

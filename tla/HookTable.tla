------------------------------ MODULE HookTable ------------------------------
(***************************************************************************)
(* The intrusive hash table of hook_manager.cpp.  A node belongs to up to  *)
(* four singly linked lists at once; the head of a list at one level is an *)
(* element of the list one level up:                                       *)
(*                                                                         *)
(*   level 1  next_collision      one node per FName in the bucket         *)
(*   level 2  next_function       one node per full name with that FName   *)
(*   level 3  next_type           one node per hook type on that function  *)
(*   level 4  next_in_collection  every hook of that type                  *)
(*                                                                         *)
(* A table is a value [bucket, heap]: bucket maps an index of the hash     *)
(* table to its first node (or Null), heap maps the nodes that are still   *)
(* owned by some shared_ptr to their contents.  This module only has       *)
(* operators on such values; HookManager gives them their actors.          *)
(***************************************************************************)
EXTENDS Naturals, Sequences, FiniteSets, SequencesExt

CONSTANTS
    Func,       \* full path names of the functions that may be hooked
    FName,      \* the FNames of those functions
    NameOf,     \* NameOf[f]: what follows the last '.' or ':' of f
    Bucket,     \* indexes of hooks_hash_table
    BucketOf,   \* BucketOf[n]: the index the FName n hashes to
    Ident,      \* hook identifiers
    Generation, \* bound on the nodes of one hook alive at a time
    Null        \* the null shared_ptr

Type == {"PRE", "POST", "POST_UNCONDITIONAL"}

Hook == [func : Func, type : Type, identifier : Ident]

(***************************************************************************)
(* A node is named by the hook it was made for and by its generation: the  *)
(* node of a hook that was removed may still be held when it is added      *)
(* again.                                                                  *)
(***************************************************************************)
Node == Hook \X Generation

ASSUME TableAssumption ==
    /\ NameOf \in [Func -> FName]
    /\ BucketOf \in [FName -> Bucket]
    /\ Null \notin Node

Link == <<"next_collision", "next_function", "next_type", "next_in_collection">>

Level == 1 .. Len(Link)

(***************************************************************************)
(* Well-typed and without a pointer to a node that is no longer alive.     *)
(***************************************************************************)
NodeContents(alive) == [hook : Hook, next : [Level -> alive \union {Null}]]

NewNode(hook) == [hook |-> hook, next |-> [l \in Level |-> Null]]

EmptyTable == [bucket |-> [b \in Bucket |-> Null], heap |-> <<>>]

\* Slip: functions told apart by their FName alone.
MatchesByName(level, a, b) ==
    CASE level \in {1, 2} -> NameOf[a.func] = NameOf[b.func]
      [] level = 3 -> a.type = b.type
      [] level = 4 -> a.identifier = b.identifier

(***************************************************************************)
(* The part of the hook compared at each level.                            *)
(***************************************************************************)
Matches(level, a, b) ==
    CASE level = 1 -> NameOf[a.func] = NameOf[b.func]
      [] level = 2 -> a.func = b.func
      [] level = 3 -> a.type = b.type
      [] level = 4 -> a.identifier = b.identifier

HeadOf(t, hook) == t.bucket[BucketOf[NameOf[hook.func]]]

(***************************************************************************)
(* One of the "while" loops: the nodes visited along the list of a level,  *)
(* from start to the first match or, failing that, to the end of the list. *)
(***************************************************************************)
Visited(t, start, level, hook) ==
    LET walk[n \in DOMAIN t.heap] ==
            LET next == t.heap[n].next[level]
            IN  IF Matches(level, t.heap[n].hook, hook) \/ next = Null
                THEN <<n>>
                ELSE <<n>> \o walk[next]
    IN  walk[start]

Found(t, path, level, hook) == Matches(level, t.heap[Last(path)].hook, hook)

(***************************************************************************)
(* The loops of all levels up to depth: path l of the result starts where  *)
(* path l - 1 matched, and there is none below a level with no match.      *)
(***************************************************************************)
Search(t, hook, depth) ==
    LET down[l \in 0 .. depth] ==
            IF l = 0 THEN <<>>
            ELSE LET above == down[l - 1]
                     start == IF l = 1 THEN HeadOf(t, hook) ELSE Last(Last(above))
                 IN  IF Len(above) = l - 1 /\ (l > 1 => Found(t, Last(above), l - 1, hook))
                     THEN Append(above, Visited(t, start, l, hook))
                     ELSE above
    IN  down[depth]

IsFound(t, paths, depth, hook) ==
    Len(paths) = depth /\ Found(t, Last(paths), depth, hook)

(***************************************************************************)
(* has_hook                                                                *)
(***************************************************************************)
HasHook(t, hook) ==
    /\ HeadOf(t, hook) # Null
    /\ IsFound(t, Search(t, hook, 4), 4, hook)

\* Slip: a hook new to its collection is linked into the list of types.
InsertBesideType(t, hook, new, prev, level) ==
    [t EXCEPT !.heap = [n \in DOMAIN t.heap \union {new} |->
        IF n = new THEN NewNode(hook)
        ELSE IF n = prev
        THEN [t.heap[n] EXCEPT !.next[IF level = 4 THEN 3 ELSE level] = new]
        ELSE t.heap[n]]]

(***************************************************************************)
(* The table with a node new for hook following prev in a list of level,   *)
(* and with such a node as the first one of its bucket.                    *)
(***************************************************************************)
Insert(t, hook, new, prev, level) ==
    [t EXCEPT !.heap = [n \in DOMAIN t.heap \union {new} |->
        IF n = new THEN NewNode(hook)
        ELSE IF n = prev THEN [t.heap[n] EXCEPT !.next[level] = new]
        ELSE t.heap[n]]]

InsertFirst(t, hook, new) ==
    [bucket |-> [t.bucket EXCEPT ![BucketOf[NameOf[hook.func]]] = new],
     heap   |-> [n \in DOMAIN t.heap \union {new} |->
                    IF n = new THEN NewNode(hook) ELSE t.heap[n]]]

(***************************************************************************)
(* What add_hook returns: its first three loops return true as they append *)
(* a node.  The last one appends and then steps onto the node it has just  *)
(* added, so it ends in the same "return false" as for a duplicate.        *)
(***************************************************************************)
AddAnswer(t, hook) == HeadOf(t, hook) = Null \/ Len(Search(t, hook, 4)) < 4

(***************************************************************************)
(* add_hook, with new as the node it makes.  A hook that is missing from   *)
(* the list of some level goes to the end of that list.                    *)
(***************************************************************************)
AddHook(t, hook, new) ==
    LET paths == Search(t, hook, 4)
    IN  [answer |-> AddAnswer(t, hook),
         table  |-> IF HeadOf(t, hook) = Null THEN InsertFirst(t, hook, new)
                    ELSE IF Found(t, Last(paths), Len(paths), hook) THEN t
                    ELSE Insert(t, hook, new, Last(Last(paths)), Len(paths))]

\* Slip: the two assignments of a promotion the other way around.
PromoteSwapped(heap, n, level) ==
    LET next == heap[n].next[level]
    IN  IF next = Null THEN heap
        ELSE [heap EXCEPT ![next].next[level - 1] = next, ![n].next[level - 1] = next]

\* Slip: the successor does not take over the head's next pointer.
PromoteAlone(heap, n, level) ==
    LET next == heap[n].next[level]
    IN  IF next = Null THEN heap ELSE [heap EXCEPT ![n].next[level - 1] = next]

(***************************************************************************)
(* remove_hook.  A node that is not the head of its list is bypassed.  The *)
(* head is first replaced, in the list one level up, by its successor,     *)
(* which takes over the head's own next pointer there.  The removed node   *)
(* keeps all of its pointers.                                              *)
(***************************************************************************)
Promote(heap, n, level) ==
    LET next == heap[n].next[level]
    IN  IF next = Null THEN heap
        ELSE [heap EXCEPT ![next].next[level - 1] = heap[n].next[level - 1],
                          ![n].next[level - 1]    = next]

\* Slip: the removed node's own pointers are reset.
BypassAndReset(heap, prev, n, level) ==
    [heap EXCEPT ![prev].next[level] = heap[n].next[level],
                 ![n].next = [l \in Level |-> Null]]

Bypass(heap, prev, n, level) ==
    [heap EXCEPT ![prev].next[level] = heap[n].next[level]]

RemoveHook(t, hook) ==
    LET paths == Search(t, hook, 4)
        n     == Last(paths[4])
        \* The lowest level at which the node has a predecessor, if any
        inner == {l \in Level : Len(paths[l]) > 1}
        top   == IF inner = {} THEN 1 ELSE CHOOSE l \in inner : \A k \in inner : k <= l
        \* The heap once n's successors were promoted from the levels below l
        promoted[l \in Level] ==
            IF l = 4 THEN t.heap ELSE Promote(promoted[l + 1], n, l + 1)
        heap  == promoted[top]
    IN  IF ~HasHook(t, hook) THEN [answer |-> FALSE, table |-> t]
        ELSE IF inner = {}
        THEN [answer |-> TRUE,
              table  |-> [bucket |-> [t.bucket EXCEPT ![BucketOf[NameOf[hook.func]]] =
                                         heap[n].next[1]],
                          heap   |-> heap]]
        ELSE [answer |-> TRUE,
              table  |-> [t EXCEPT !.heap =
                            Bypass(heap, paths[top][Len(paths[top]) - 1], n, top)]]

\* Slip: the full name is not compared.
FirstOfName(t, func) ==
    LET key   == [func |-> func, type |-> "PRE", identifier |-> CHOOSE i \in Ident : TRUE]
        paths == Search(t, key, 1)
    IN  IF HeadOf(t, key) # Null /\ IsFound(t, paths, 1, key) THEN Last(Last(paths)) ELSE Null

(***************************************************************************)
(* The lookup at the end of preprocess_hook: the head of the type list of  *)
(* a function, Null when the function has no hook.                         *)
(***************************************************************************)
FirstOf(t, func) ==
    LET key   == [func |-> func, type |-> "PRE", identifier |-> CHOOSE i \in Ident : TRUE]
        paths == Search(t, key, 2)
    IN  IF HeadOf(t, key) # Null /\ IsFound(t, paths, 2, key) THEN Last(Last(paths)) ELSE Null

(***************************************************************************)
(* The loops of has_post_hooks and run_hooks_of_type, from any node.       *)
(***************************************************************************)
HasPostHooks(t, node) ==
    LET seek[n \in DOMAIN t.heap] ==
            \/ t.heap[n].hook.type # "PRE"
            \/ t.heap[n].next[3] # Null /\ seek[t.heap[n].next[3]]
    IN  seek[node]

\* Slip: the end of the list is taken for a match.
LastVisited(t, node, type) ==
    Last(Visited(t, node, 3, [t.heap[node].hook EXCEPT !.type = type]))

FirstOfType(t, node, type) ==
    LET last == Last(Visited(t, node, 3, [t.heap[node].hook EXCEPT !.type = type]))
    IN  IF t.heap[last].hook.type = type THEN last ELSE Null

(***************************************************************************)
(* Ownership.  Every link is a shared_ptr, so what is alive is what can be *)
(* reached from the table and from the shared_ptrs held elsewhere (pins).  *)
(***************************************************************************)
Reach(heap, roots) ==
    LET grow[seen \in SUBSET DOMAIN heap] ==
            LET onward == {heap[n].next[l] : n \in seen, l \in Level} \ ({Null} \union seen)
            IN  IF onward = {} THEN seen ELSE grow[seen \union onward]
    IN  grow[roots \ {Null}]

Linked(t) == Reach(t.heap, {t.bucket[b] : b \in Bucket})

Owned(t, pins) ==
    LET alive == Reach(t.heap, pins \union {t.bucket[b] : b \in Bucket})
    IN  [t EXCEPT !.heap = [n \in alive |-> t.heap[n]]]

Registered(t) == {t.heap[n].hook : n \in Linked(t)}
=============================================================================

--------------------------- MODULE HookTableProofs ---------------------------
(***************************************************************************)
(* Facts about the operators of HookTable: what their loops find, and that *)
(* add_hook and remove_hook keep the four levels of lists in order.        *)
(*                                                                         *)
(* The argument has two parts.  Links respect the levels (Layered) and     *)
(* lead nowhere back (Acyclic), in removed nodes too.  And each node that  *)
(* the table leads to has a rank (Ranked), the level of the one list that  *)
(* it is linked into: links never lead to a lower rank, and of the nodes   *)
(* that agree on all that the levels down to some level compare, only one  *)
(* has a rank that low.  So a search that reaches the end of a list has    *)
(* seen all there is, and what an operation moves has one place to go to.  *)
(*                                                                         *)
(* The last part is about a hook that stays: what leads to its node, from  *)
(* removed nodes as well, still does after every operation.                *)
(***************************************************************************)
EXTENDS HookTable, FiniteSetTheorems, SequenceTheorems, WellFoundedInduction, TLAPS

LEMMA LeastNumber ==
  ASSUME NEW S \in SUBSET Nat, S # {}
  PROVE  \E n \in S : \A m \in S : n <= m
<1> DEFINE R == OpToRel(<, Nat)
<1>1. \A m, n \in Nat : <<m, n>> \in R <=> m < n
  BY DEF OpToRel
<1>2. IsWellFoundedOn(R, Nat)
  BY NatLessThanWellFounded
<1> HIDE DEF R
<1>3. PICK n \in S : \A m \in S : ~(<<m, n>> \in R)
  BY <1>2, WFMin
<1>4. \A m \in S : ~(m < n)
  BY <1>1, <1>3
<1> QED
  BY <1>4

(***************************************************************************)
(* Nodes and their links.                                                  *)
(***************************************************************************)


Typed(heap) == heap \in [DOMAIN heap -> NodeContents(DOMAIN heap)] /\ DOMAIN heap \subseteq Node

\* Every set of nodes has one that links to no other of them.
Acyclic(heap) ==
    \A S \in SUBSET DOMAIN heap : S # {} => \E n \in S : \A l \in Level : heap[n].next[l] \notin S

Closed(heap, S) == \A n \in S : \A l \in Level : heap[n].next[l] # Null => heap[n].next[l] \in S

LEMMA Levels == Level = 1 .. 4
BY DEF Level, Link

LEMMA LowestLevel == 1 \in Level /\ \A k \in Level : k # 0
BY Levels

LEMMA NodeTypes ==
  ASSUME NEW heap, Typed(heap)
  PROVE  /\ Null \notin DOMAIN heap
         /\ \A n \in DOMAIN heap : heap[n].hook \in Hook
         /\ \A n \in DOMAIN heap, l \in Level : heap[n].next[l] \in DOMAIN heap \union {Null}
BY TableAssumption DEF Typed, NodeContents

(***************************************************************************)
(* What is reached is the least closed set.                                *)
(***************************************************************************)
LEMMA ReachIsLeast ==
  ASSUME NEW heap, Typed(heap), IsFiniteSet(DOMAIN heap), NEW roots \in SUBSET (DOMAIN heap \union {Null})
  PROVE  /\ Reach(heap, roots) \in SUBSET DOMAIN heap
         /\ roots \ {Null} \subseteq Reach(heap, roots)
         /\ Closed(heap, Reach(heap, roots))
         /\ \A S \in SUBSET DOMAIN heap :
               roots \ {Null} \subseteq S /\ Closed(heap, S) => Reach(heap, roots) \subseteq S
<1> DEFINE D == DOMAIN heap
           onward(seen) == {heap[n].next[l] : n \in seen, l \in Level} \ ({Null} \union seen)
           body(g) == [seen \in SUBSET D |->
                          IF onward(seen) = {} THEN seen ELSE g[seen \union onward(seen)]]
           grow == CHOOSE g : g = body(g)
           least(seen) == {n \in D : \A S \in SUBSET D : seen \subseteq S /\ Closed(heap, S) => n \in S}
           all == [seen \in SUBSET D |-> least(seen)]
<1>1. Reach(heap, roots) = grow[roots \ {Null}]
  BY DEF Reach
<1>2. \A seen \in SUBSET D : onward(seen) \in SUBSET D
  BY NodeTypes
<1>3. \A seen \in SUBSET D : onward(seen) = {} <=> Closed(heap, seen)
  BY DEF Closed
<1>4. \A seen \in SUBSET D : least(seen) \in SUBSET D /\ seen \subseteq least(seen)
  OBVIOUS
<1>5. \A seen \in SUBSET D : Closed(heap, least(seen))
  <2> SUFFICES ASSUME NEW seen \in SUBSET D, NEW n \in least(seen), NEW l \in Level,
                      heap[n].next[l] # Null
               PROVE  heap[n].next[l] \in least(seen)
    BY DEF Closed
  <2>1. heap[n].next[l] \in D
    BY NodeTypes
  <2>2. ASSUME NEW S \in SUBSET D, seen \subseteq S, Closed(heap, S) PROVE heap[n].next[l] \in S
    BY <2>2 DEF Closed
  <2> QED
    BY <2>1, <2>2
<1>6. \A seen \in SUBSET D : Closed(heap, seen) => least(seen) = seen
  OBVIOUS
<1>7. \A seen \in SUBSET D : least(seen) = least(seen \union onward(seen))
  <2>1. ASSUME NEW seen \in SUBSET D, NEW S \in SUBSET D, seen \subseteq S, Closed(heap, S)
        PROVE  onward(seen) \subseteq S
    BY <2>1 DEF Closed
  <2> HIDE DEF onward
  <2>2. ASSUME NEW seen \in SUBSET D, NEW n \in D
        PROVE  n \in least(seen) <=> n \in least(seen \union onward(seen))
    BY <2>1
  <2>3. \A seen \in SUBSET D : least(seen) \in SUBSET D /\ least(seen \union onward(seen)) \in SUBSET D
    OBVIOUS
  <2> HIDE DEF least
  <2> QED
    BY <2>2, <2>3
<1> HIDE DEF onward, least
<1>8. all = body(all)
  <2>1. \A seen \in SUBSET D : seen \union onward(seen) \in SUBSET D
    BY <1>2
  <2>2. \A seen \in SUBSET D :
           all[seen] = IF onward(seen) = {} THEN seen ELSE all[seen \union onward(seen)]
    BY <1>3, <1>6, <1>7, <2>1
  <2> QED
    BY <2>2
<1>9. grow = body(grow)
  <2> HIDE DEF body, all
  <2> QED
    BY <1>8
<1>10. \A seen \in SUBSET D :
          grow[seen] = IF onward(seen) = {} THEN seen ELSE grow[seen \union onward(seen)]
  <2> HIDE DEF grow
  <2> QED
    BY <1>9
<1> HIDE DEF grow, all
<1>11. \A seen \in SUBSET D : grow[seen] = least(seen)
  <2> DEFINE wrong == {seen \in SUBSET D : grow[seen] # least(seen)}
             left(seen) == Cardinality(D \ seen)
  <2> SUFFICES ASSUME wrong # {} PROVE FALSE
    OBVIOUS
  <2>1. \A seen \in SUBSET D : IsFiniteSet(D \ seen) /\ left(seen) \in Nat
    BY FS_Difference, FS_CardinalityType
  <2>2. PICK seen \in wrong : \A other \in wrong : left(seen) <= left(other)
    <3> DEFINE lefts == {left(s) : s \in wrong}
    <3>1. lefts \in SUBSET Nat /\ lefts # {}
      BY <2>1
    <3>2. PICK m \in lefts : \A k \in lefts : m <= k
      <4> HIDE DEF lefts
      <4> QED
        BY <3>1, LeastNumber
    <3> QED
      BY <3>2
  <2>3. onward(seen) # {}
    BY <1>3, <1>6, <1>10, <2>2
  <2> DEFINE more == seen \union onward(seen)
  <2>4. more \in SUBSET D /\ grow[more] # least(more)
    BY <1>2, <1>7, <1>10, <2>2, <2>3
  <2>5. left(more) < left(seen)
    <3>1. D \ more \in SUBSET (D \ seen) /\ D \ more # D \ seen
      <4>1. PICK x \in onward(seen) : x \in D /\ x \notin seen
        BY <1>2, <2>3 DEF onward
      <4> QED
        BY <4>1
    <3>2. left(more) <= left(seen) /\ left(more) # left(seen)
      <4>1. seen \in SUBSET D /\ IsFiniteSet(D \ seen)
        BY <2>1, <2>2
      <4> HIDE DEF more
      <4> QED
        BY <3>1, <4>1, FS_Subset
    <3>3. left(more) \in Nat /\ left(seen) \in Nat
      BY <2>1, <2>2, <2>4
    <3> HIDE DEF left
    <3> QED
      BY <3>2, <3>3
  <2>6. more \in wrong /\ left(more) \in Nat /\ left(seen) \in Nat
    BY <2>1, <2>2, <2>4
  <2>7. left(seen) <= left(more)
    BY <2>2, <2>6
  <2> HIDE DEF left
  <2> QED
    BY <2>5, <2>6, <2>7
<1>12. roots \ {Null} \in SUBSET D /\ Reach(heap, roots) = least(roots \ {Null})
  BY <1>1, <1>11
<1>13. \A seen, S \in SUBSET D : seen \subseteq S /\ Closed(heap, S) => least(seen) \subseteq S
  BY DEF least
<1> QED
  BY <1>4, <1>5, <1>12, <1>13

(***************************************************************************)
(* Hooks that the levels up to l do not tell apart.                        *)
(***************************************************************************)
Same(l, a, b) ==
    /\ BucketOf[NameOf[a.func]] = BucketOf[NameOf[b.func]]
    /\ \A k \in Level : k <= l => Matches(k, a, b)

LEMMA SameFacts ==
  /\ \A l, a : Same(l, a, a)
  /\ \A l, a, b : Same(l, a, b) => Same(l, b, a)
  /\ \A l, a, b, c : Same(l, a, b) /\ Same(l, b, c) => Same(l, a, c)
  /\ \A l, k \in 0 .. 4 : k <= l => \A a, b : Same(l, a, b) => Same(k, a, b)
  /\ \A l \in Level : \A a, b : Same(l, a, b) <=> Same(l - 1, a, b) /\ Matches(l, a, b)
  /\ \A a, b : Same(0, a, b) <=> BucketOf[NameOf[a.func]] = BucketOf[NameOf[b.func]]
<1>1. \A l, a : Same(l, a, a)
  BY Levels DEF Same, Matches
<1>2. \A l, a, b : Same(l, a, b) => Same(l, b, a)
  BY Levels DEF Same, Matches
<1>3. \A l, a, b, c : Same(l, a, b) /\ Same(l, b, c) => Same(l, a, c)
  <2>1. \A k \in Level : \A a, b, c : Matches(k, a, b) /\ Matches(k, b, c) => Matches(k, a, c)
    <3> SUFFICES ASSUME NEW k \in 1 .. 4, NEW a, NEW b, NEW c, Matches(k, a, b), Matches(k, b, c)
                 PROVE  Matches(k, a, c)
      BY Levels
    <3>1. CASE k = 1
      BY <3>1 DEF Matches
    <3>2. CASE k = 2
      BY <3>2 DEF Matches
    <3>3. CASE k = 3
      BY <3>3 DEF Matches
    <3>4. CASE k = 4
      BY <3>4 DEF Matches
    <3> QED
      BY <3>1, <3>2, <3>3, <3>4
  <2> QED
    BY <2>1 DEF Same
<1>4. \A l, k \in 0 .. 4 : k <= l => \A a, b : Same(l, a, b) => Same(k, a, b)
  BY Levels DEF Same
<1>5. \A l \in Level : \A a, b : Same(l, a, b) <=> Same(l - 1, a, b) /\ Matches(l, a, b)
  <2>1. \A l, k \in Level : k <= l <=> k <= l - 1 \/ k = l
    BY Levels
  <2> QED
    BY <2>1 DEF Same
<1>6. \A a, b : Same(0, a, b) <=> BucketOf[NameOf[a.func]] = BucketOf[NameOf[b.func]]
  BY Levels DEF Same
<1> QED
  BY <1>1, <1>2, <1>3, <1>4, <1>5, <1>6

\* All four levels together tell hooks apart.
LEMMA SameHooks ==
  ASSUME NEW a \in Hook, NEW b \in Hook, Same(4, a, b)
  PROVE  a = b
<1>1. \A k \in 1 .. 4 : Matches(k, a, b)
  BY Levels DEF Same
<1>2. Matches(2, a, b) /\ Matches(3, a, b) /\ Matches(4, a, b)
  BY <1>1
<1>3. a.func = b.func /\ a.type = b.type /\ a.identifier = b.identifier
  BY <1>2 DEF Matches
<1> QED
  BY <1>3 DEF Hook

(***************************************************************************)
(* What a loop visits from a node on: a chain of links, up to the first    *)
(* match or the end.                                                       *)
(***************************************************************************)
IsTrail(heap, start, level, hook, trail) ==
    /\ trail \in Seq(DOMAIN heap) /\ Len(trail) \in Nat \ {0} /\ trail[1] = start
    /\ \A i \in 1 .. Len(trail) - 1 :
          heap[trail[i]].next[level] = trail[i + 1] /\ ~Matches(level, heap[trail[i]].hook, hook)
    /\ \/ Matches(level, heap[trail[Len(trail)]].hook, hook)
       \/ heap[trail[Len(trail)]].next[level] = Null

LEMMA Singletons ==
  ASSUME NEW S, NEW x \in S
  PROVE  <<x>> \in Seq(S) /\ Len(<<x>>) = 1 /\ <<x>>[1] = x
OBVIOUS

LEMMA ShortTrail ==
  ASSUME NEW heap, NEW n \in DOMAIN heap, NEW level, NEW hook,
         Matches(level, heap[n].hook, hook) \/ heap[n].next[level] = Null
  PROVE  IsTrail(heap, n, level, hook, <<n>>)
<1> DEFINE trail == <<n>>
<1>1. trail \in Seq(DOMAIN heap) /\ Len(trail) = 1 /\ trail[1] = n
  BY Singletons
<1> HIDE DEF trail
<1>2. trail[Len(trail)] = n /\ 1 .. Len(trail) - 1 = {} /\ Len(trail) \in Nat \ {0}
  BY <1>1
<1>3. IsTrail(heap, n, level, hook, trail)
  BY <1>1, <1>2 DEF IsTrail
<1> QED
  BY <1>3 DEF trail

LEMMA LongerTrail ==
  ASSUME NEW heap, NEW n \in DOMAIN heap, NEW level, NEW hook, NEW trail,
         IsTrail(heap, heap[n].next[level], level, hook, trail), ~Matches(level, heap[n].hook, hook)
  PROVE  IsTrail(heap, n, level, hook, <<n>> \o trail)
<1> DEFINE longer == <<n>> \o trail
<1>1. /\ trail \in Seq(DOMAIN heap) /\ Len(trail) \in Nat \ {0} /\ trail[1] = heap[n].next[level]
  BY DEF IsTrail
<1>2. /\ longer \in Seq(DOMAIN heap) /\ Len(longer) = Len(trail) + 1 /\ longer[1] = n
      /\ \A i \in 2 .. Len(longer) : longer[i] = trail[i - 1]
  BY <1>1
<1> HIDE DEF longer
<1>3. ASSUME NEW i \in 1 .. Len(longer) - 1
      PROVE  /\ heap[longer[i]].next[level] = longer[i + 1]
             /\ ~Matches(level, heap[longer[i]].hook, hook)
  <2>1. CASE i = 1
    BY <1>1, <1>2, <2>1
  <2>2. CASE i > 1
    <3>1. i - 1 \in 1 .. Len(trail) - 1 /\ longer[i] = trail[i - 1] /\ longer[i + 1] = trail[i]
      BY <1>1, <1>2, <2>2
    <3>2. /\ heap[trail[i - 1]].next[level] = trail[(i - 1) + 1]
          /\ ~Matches(level, heap[trail[i - 1]].hook, hook)
      BY <3>1 DEF IsTrail
    <3> QED
      BY <3>1, <3>2
  <2> QED
    BY <1>1, <1>2, <2>1, <2>2
<1>4. longer[Len(longer)] = trail[Len(trail)]
  BY <1>1, <1>2
<1> QED
  BY <1>1, <1>2, <1>3, <1>4 DEF IsTrail, longer

LEMMA VisitedFacts ==
  ASSUME NEW t, Typed(t.heap), Acyclic(t.heap), IsFiniteSet(DOMAIN t.heap),
         NEW start \in DOMAIN t.heap, NEW level \in Level, NEW hook
  PROVE  IsTrail(t.heap, start, level, hook, Visited(t, start, level, hook))
<1> DEFINE D == DOMAIN t.heap
           next(n) == t.heap[n].next[level]
           stops(n) == Matches(level, t.heap[n].hook, hook) \/ next(n) = Null
           body(w) == [n \in D |-> IF stops(n) THEN <<n>> ELSE <<n>> \o w[next(n)]]
           walks == CHOOSE w : w = body(w)
           Solves(f, S) == \A n \in S :
              \/ stops(n) /\ f[n] = <<n>>
              \/ ~stops(n) /\ next(n) \in S /\ f[n] = <<n>> \o f[next(n)]
           solved == {S \in SUBSET D : \E f : Solves(f, S)}
           left(S) == Cardinality(D \ S)
<1>1. Visited(t, start, level, hook) = walks[start]
  BY DEF Visited
<1>2. \A n \in D : ~stops(n) => next(n) \in D
  BY NodeTypes
<1>3. {} \in solved
  OBVIOUS
<1>4. \A S \in SUBSET D : IsFiniteSet(D \ S) /\ left(S) \in Nat
  BY FS_Difference, FS_CardinalityType
<1>5. PICK S \in solved : \A other \in solved : left(S) <= left(other)
  <2> DEFINE lefts == {left(s) : s \in solved}
  <2>1. lefts \in SUBSET Nat /\ lefts # {}
    <3> HIDE DEF left
    <3> QED
      BY <1>3, <1>4
  <2>2. PICK m \in lefts : \A k \in lefts : m <= k
    <3> HIDE DEF lefts
    <3> QED
      BY <2>1, LeastNumber
  <2> HIDE DEF solved, left
  <2> QED
    BY <2>2
<1>6. PICK f : Solves(f, S)
  BY <1>5
<1>7. S = D
  <2> SUFFICES ASSUME S # D PROVE FALSE
    OBVIOUS
  <2>1. S \in SUBSET D /\ D \ S \in SUBSET D /\ D \ S # {}
    BY <1>5
  <2>2. PICK n \in D \ S : \A l \in Level : t.heap[n].next[l] \notin D \ S
    <3> HIDE DEF D
    <3> QED
      BY <2>1 DEF Acyclic, D
  <2>3. n \in D /\ n \notin S /\ (~stops(n) => next(n) \in S)
    BY <1>2, <2>2
  <2> DEFINE more == S \union {n}
             g == [m \in more |-> IF m \in S THEN f[m]
                                  ELSE IF stops(n) THEN <<n>> ELSE <<n>> \o f[next(n)]]
  <2> HIDE DEF stops, next
  <2>4. Solves(g, more)
    BY <1>6, <2>3
  <2>5. more \in solved /\ more \in SUBSET D
    BY <2>1, <2>3, <2>4
  <2>6. left(more) < left(S)
    <3>1. D \ more \in SUBSET (D \ S) /\ D \ more # D \ S
      BY <2>3
    <3>2. IsFiniteSet(D \ S)
      BY <1>4, <2>1
    <3>3. left(more) <= left(S) /\ left(more) # left(S)
      <4> HIDE DEF more, D
      <4> QED
        BY <3>1, <3>2, FS_Subset
    <3>4. left(more) \in Nat /\ left(S) \in Nat
      BY <1>4, <2>1, <2>5
    <3> HIDE DEF left
    <3> QED
      BY <3>3, <3>4
  <2>7. left(S) <= left(more) /\ left(more) \in Nat /\ left(S) \in Nat
    BY <1>4, <1>5, <2>1, <2>5
  <2> HIDE DEF left
  <2> QED
    BY <2>6, <2>7
<1>8. walks = body(walks)
  <2> DEFINE all == [n \in D |-> f[n]]
  <2>1. all = body(all)
    <3> HIDE DEF stops, next
    <3>1. \A n \in D : IF stops(n) THEN all[n] = <<n>> ELSE all[n] = <<n>> \o all[next(n)]
      BY <1>6, <1>7
    <3> QED
      BY <3>1
  <2> HIDE DEF body, all
  <2> QED
    BY <2>1
<1>9. \A n \in D : walks[n] = IF stops(n) THEN <<n>> ELSE <<n>> \o walks[next(n)]
  <2> HIDE DEF walks, stops, next
  <2> QED
    BY <1>8
<1> HIDE DEF walks
<1> DEFINE wrong == {n \in D : ~IsTrail(t.heap, n, level, hook, walks[n])}
<1>10. ASSUME wrong # {} PROVE FALSE
  <2>1. PICK n \in wrong : \A l \in Level : t.heap[n].next[l] \notin wrong
    BY <1>10 DEF Acyclic
  <2>2. n \in D /\ next(n) \notin wrong
    BY <2>1
  <2>3. CASE stops(n)
    <3>1. walks[n] = <<n>>
      BY <1>9, <2>2, <2>3
    <3>2. IsTrail(t.heap, n, level, hook, <<n>>)
      BY <2>2, <2>3, ShortTrail
    <3> QED
      BY <2>1, <3>1, <3>2
  <2>4. CASE ~stops(n)
    <3>1. walks[n] = <<n>> \o walks[next(n)] /\ next(n) \in D /\ ~Matches(level, t.heap[n].hook, hook)
      BY <1>2, <1>9, <2>2, <2>4
    <3>2. IsTrail(t.heap, next(n), level, hook, walks[next(n)])
      BY <2>2, <3>1
    <3>3. IsTrail(t.heap, n, level, hook, <<n>> \o walks[next(n)])
      BY <2>2, <3>1, <3>2, LongerTrail, Zenon
    <3> QED
      BY <2>1, <3>1, <3>3, Zenon
  <2> QED
    BY <2>3, <2>4
<1> QED
  BY <1>1, <1>10

(***************************************************************************)
(* Heaps whose links respect the levels, removed nodes included.           *)
(***************************************************************************)
Layered(heap) ==
    \A n \in DOMAIN heap, l \in Level :
        heap[n].next[l] # Null => Same(l - 1, heap[n].hook, heap[heap[n].next[l]].hook)

SoundHeap(heap) ==
    Typed(heap) /\ IsFiniteSet(DOMAIN heap) /\ Acyclic(heap) /\ Layered(heap)

SoundTable(t) ==
    /\ t = [bucket |-> t.bucket, heap |-> t.heap]
    /\ SoundHeap(t.heap)
    /\ t.bucket \in [Bucket -> DOMAIN t.heap \union {Null}]

(***************************************************************************)
(* The rank of a node that is linked is the level of the list it is linked *)
(* into, 0 for the first node of a bucket.  It is in the lists of its rank *)
(* and of the levels below, as the head of the latter.                     *)
(***************************************************************************)
Ranked(t, rank) ==
    LET linked == Linked(t)
    IN  /\ rank \in [linked -> 0 .. 4]
        /\ \A b \in Bucket : t.bucket[b] # Null =>
              /\ rank[t.bucket[b]] = 0
              /\ BucketOf[NameOf[t.heap[t.bucket[b]].hook.func]] = b
        /\ \A n \in linked, l \in Level : t.heap[n].next[l] # Null =>
              rank[n] <= l /\ rank[t.heap[n].next[l]] = l
        /\ \A m, n \in linked, l \in Level :
              t.heap[m].next[l] = t.heap[n].next[l] /\ t.heap[m].next[l] # Null => m = n
        /\ \A m, n \in linked, l \in 0 .. 4 :
              rank[m] <= l /\ rank[n] <= l /\ Same(l, t.heap[m].hook, t.heap[n].hook) => m = n

InOrder(t) == SoundTable(t) /\ \E rank : Ranked(t, rank)

LEMMA LinkedFacts ==
  ASSUME NEW t, SoundTable(t)
  PROVE  /\ Linked(t) \in SUBSET DOMAIN t.heap
         /\ \A b \in Bucket : t.bucket[b] # Null => t.bucket[b] \in Linked(t)
         /\ \A n \in Linked(t), l \in Level : t.heap[n].next[l] # Null => t.heap[n].next[l] \in Linked(t)
         /\ \A S \in SUBSET DOMAIN t.heap :
               /\ \A b \in Bucket : t.bucket[b] # Null => t.bucket[b] \in S
               /\ \A n \in S, l \in Level : t.heap[n].next[l] # Null => t.heap[n].next[l] \in S
               => Linked(t) \subseteq S
<1> DEFINE roots == {t.bucket[b] : b \in Bucket}
<1>1. Typed(t.heap) /\ IsFiniteSet(DOMAIN t.heap) /\ roots \in SUBSET (DOMAIN t.heap \union {Null})
  BY DEF SoundTable, SoundHeap
<1>2. Linked(t) = Reach(t.heap, roots)
  BY DEF Linked
<1>3. \A b \in Bucket : t.bucket[b] # Null <=> t.bucket[b] \in roots \ {Null}
  OBVIOUS
<1>4. \A S : roots \ {Null} \subseteq S <=> \A b \in Bucket : t.bucket[b] # Null => t.bucket[b] \in S
  OBVIOUS
<1> HIDE DEF roots
<1>5. /\ Reach(t.heap, roots) \in SUBSET DOMAIN t.heap
      /\ roots \ {Null} \subseteq Reach(t.heap, roots)
      /\ Closed(t.heap, Reach(t.heap, roots))
      /\ \A S \in SUBSET DOMAIN t.heap :
            roots \ {Null} \subseteq S /\ Closed(t.heap, S) => Reach(t.heap, roots) \subseteq S
  BY <1>1, ReachIsLeast
<1>6. \A b \in Bucket : t.bucket[b] # Null => t.bucket[b] \in Linked(t)
  BY <1>2, <1>4, <1>5
<1>7. Closed(t.heap, Linked(t))
  BY <1>2, <1>5
<1>8. ASSUME NEW S \in SUBSET DOMAIN t.heap,
             \A b \in Bucket : t.bucket[b] # Null => t.bucket[b] \in S, Closed(t.heap, S)
      PROVE  Linked(t) \subseteq S
  BY <1>2, <1>4, <1>5, <1>8
<1> QED
  BY <1>2, <1>5, <1>6, <1>7, <1>8 DEF Closed

(***************************************************************************)
(* What Ranked says, with the nodes' links and hooks as functions.         *)
(***************************************************************************)
LEMMA RankedFacts ==
  ASSUME NEW t, SoundTable(t), NEW rank, Ranked(t, rank)
  PROVE  /\ \A n \in Linked(t) : rank[n] \in 0 .. 4
         /\ \A n \in Linked(t) : t.heap[n].hook \in Hook
         /\ \A n \in Linked(t), l \in Level : t.heap[n].next[l] # Null =>
               /\ t.heap[n].next[l] \in Linked(t)
               /\ rank[n] <= l /\ rank[t.heap[n].next[l]] = l
               /\ Same(l - 1, t.heap[n].hook, t.heap[t.heap[n].next[l]].hook)
<1>1. \A n \in DOMAIN t.heap : t.heap[n].hook \in Hook
  BY NodeTypes DEF SoundTable, SoundHeap
<1> QED
  BY <1>1, LinkedFacts DEF Ranked, SoundTable, SoundHeap, Layered

\* Only the first node of a bucket has rank 0.
LEMMA RankZero ==
  ASSUME NEW t, SoundTable(t), NEW rank, Ranked(t, rank), NEW n \in Linked(t), rank[n] = 0
  PROVE  \E b \in Bucket : t.bucket[b] = n
<1> DEFINE S == {m \in Linked(t) : rank[m] = 0 => \E b \in Bucket : t.bucket[b] = m}
<1>1. S \in SUBSET DOMAIN t.heap
  BY LinkedFacts
<1>2. \A b \in Bucket : t.bucket[b] # Null => t.bucket[b] \in S
  BY LinkedFacts
<1>3. \A m \in S, l \in Level : t.heap[m].next[l] # Null => t.heap[m].next[l] \in S
  BY RankedFacts, Levels
<1>4. Linked(t) \subseteq S
  <2> HIDE DEF S
  <2> QED
    BY <1>1, <1>2, <1>3, LinkedFacts
<1> QED
  BY <1>4

(***************************************************************************)
(* At every level the lists hold a node for each hook that is registered.  *)
(***************************************************************************)
LEMMA Represented ==
  ASSUME NEW t, SoundTable(t), NEW rank, Ranked(t, rank), NEW n \in Linked(t), NEW l \in 0 .. 4
  PROVE  \E m \in Linked(t) : rank[m] <= l /\ Same(l, t.heap[m].hook, t.heap[n].hook)
<1> DEFINE L == Linked(t)
           H(x) == t.heap[x].hook
           N(x, k) == t.heap[x].next[k]
           S == {x \in L : \E m \in L : rank[m] <= l /\ Same(l, H(m), H(x))}
<1>1. S \in SUBSET DOMAIN t.heap
  BY LinkedFacts
<1>2. \A b \in Bucket : t.bucket[b] # Null => t.bucket[b] \in S
  <2> SUFFICES ASSUME NEW b \in Bucket, t.bucket[b] # Null PROVE t.bucket[b] \in S
    OBVIOUS
  <2>1. t.bucket[b] \in L /\ rank[t.bucket[b]] = 0
    BY LinkedFacts, SMTT(30) DEF Ranked
  <2> QED
    BY <2>1, SameFacts
<1>3. ASSUME NEW x \in S, NEW k \in Level, N(x, k) # Null PROVE N(x, k) \in S
  <2>1. /\ x \in L /\ N(x, k) \in L /\ rank[N(x, k)] = k /\ k \in 1 .. 4
        /\ Same(k - 1, H(x), H(N(x, k)))
    BY <1>3, RankedFacts, Levels
  <2>2. CASE k <= l
    BY <2>1, <2>2, SameFacts
  <2>3. CASE l < k
    <3>1. PICK m \in L : rank[m] <= l /\ Same(l, H(m), H(x))
      OBVIOUS
    <3>2. l <= k - 1 /\ k - 1 \in 0 .. 4
      BY <2>1, <2>3
    <3>3. Same(l, H(x), H(N(x, k)))
      BY <2>1, <3>2, SameFacts
    <3>4. Same(l, H(m), H(N(x, k)))
      BY <3>1, <3>3, SameFacts
    <3> QED
      BY <2>1, <3>1, <3>4
  <2> QED
    BY <2>1, <2>2, <2>3
<1>4. L \subseteq S
  <2> HIDE DEF S
  <2> QED
    BY <1>1, <1>2, <1>3, LinkedFacts
<1> QED
  BY <1>4

(***************************************************************************)
(* A node of a list is met by whoever follows the list from its head.      *)
(***************************************************************************)
LEMMA HangsFromHead ==
  ASSUME NEW t, SoundTable(t), NEW rank, Ranked(t, rank), NEW l \in Level,
         NEW z \in Linked(t), rank[z] <= l - 1, NEW S, z \in S,
         \A n \in S : t.heap[n].next[l] # Null => t.heap[n].next[l] \in S,
         NEW y \in Linked(t), rank[y] <= l, Same(l - 1, t.heap[z].hook, t.heap[y].hook)
  PROVE  y \in S
<1> DEFINE L == Linked(t)
           H(x) == t.heap[x].hook
           N(x, k) == t.heap[x].next[k]
           met == {x \in L : rank[x] <= l /\ Same(l - 1, H(z), H(x)) => x \in S}
<1>0. l \in 1 .. 4 /\ l - 1 \in 0 .. 4
  BY Levels
<1>1. met \in SUBSET DOMAIN t.heap
  BY LinkedFacts, SMTT(30)
<1>2. \A x \in L : rank[x] <= l - 1 /\ Same(l - 1, H(z), H(x)) => x = z
  BY <1>0 DEF Ranked
<1>3. \A b \in Bucket : t.bucket[b] # Null => t.bucket[b] \in met
  <2> SUFFICES ASSUME NEW b \in Bucket, t.bucket[b] # Null PROVE t.bucket[b] \in met
    OBVIOUS
  <2>1. t.bucket[b] \in L /\ rank[t.bucket[b]] = 0
    BY LinkedFacts, SMTT(30) DEF Ranked
  <2> QED
    BY <1>0, <1>2, <2>1
<1>4. ASSUME NEW x \in met, NEW k \in Level, N(x, k) # Null PROVE N(x, k) \in met
  <2>1. /\ x \in L /\ N(x, k) \in L /\ rank[N(x, k)] = k /\ k \in 1 .. 4 /\ rank[x] <= k
        /\ Same(k - 1, H(x), H(N(x, k)))
    BY <1>4, RankedFacts, Levels, SMTT(30)
  <2> SUFFICES ASSUME k <= l, Same(l - 1, H(z), H(N(x, k))) PROVE N(x, k) \in S
    BY <2>1, SMTT(30)
  <2>2. CASE k < l
    BY <1>0, <1>2, <2>1, <2>2
  <2>3. CASE k = l
    <3>1. Same(l - 1, H(z), H(x))
      BY <2>1, <2>3, SameFacts, SMTT(30)
    <3>2. x \in S
      BY <2>1, <2>3, <3>1
    <3> QED
      BY <1>4, <2>3, <3>2, SMTT(30)
  <2> QED
    BY <1>0, <2>1, <2>2, <2>3
<1>5. L \subseteq met
  <2> HIDE DEF met
  <2> QED
    BY <1>1, <1>3, <1>4, LinkedFacts
<1> QED
  BY <1>5

(***************************************************************************)
(* A path along the list that holds, at its level, the hooks the levels    *)
(* above do not tell from hook.                                            *)
(***************************************************************************)
Traced(t, rank, hook, l, path) ==
    /\ IsTrail(t.heap, path[1], l, hook, path)
    /\ rank[path[1]] <= l - 1
    /\ \A i \in 1 .. Len(path) :
          /\ path[i] \in Linked(t)
          /\ rank[path[i]] <= l
          /\ i > 1 => rank[path[i]] = l
          /\ Same(l - 1, t.heap[path[i]].hook, hook)

LEMMA LastOfTrail ==
  ASSUME NEW heap, NEW start, NEW level, NEW hook, NEW trail, IsTrail(heap, start, level, hook, trail)
  PROVE  /\ trail \in Seq(DOMAIN heap) /\ Len(trail) \in Nat \ {0} /\ trail[1] = start
         /\ Last(trail) = trail[Len(trail)] /\ Last(trail) \in DOMAIN heap
BY DEF IsTrail, Last

LEMMA OneList ==
  ASSUME NEW t, SoundTable(t), NEW rank, Ranked(t, rank), NEW hook, NEW l \in Level,
         NEW z \in Linked(t), rank[z] <= l - 1, Same(l - 1, t.heap[z].hook, hook)
  PROVE  LET path == Visited(t, z, l, hook)
         IN  /\ Traced(t, rank, hook, l, path) /\ path[1] = z
             /\ Found(t, path, l, hook) <=> Same(l, t.heap[Last(path)].hook, hook)
             /\ ~Found(t, path, l, hook) => \A x \in Linked(t) : ~Same(l, t.heap[x].hook, hook)
<1> DEFINE L == Linked(t)
           H(x) == t.heap[x].hook
           N(x) == t.heap[x].next[l]
           path == Visited(t, z, l, hook)
           fits(i) == /\ path[i] \in L
                      /\ rank[path[i]] <= l
                      /\ i > 1 => rank[path[i]] = l
                      /\ Same(l - 1, H(path[i]), hook)
<1>0. l \in 1 .. 4 /\ l - 1 \in 0 .. 4 /\ l \in Int
  BY Levels
<1>1. IsTrail(t.heap, z, l, hook, path)
  <2>1. z \in DOMAIN t.heap
    BY LinkedFacts
  <2> QED
    BY <2>1, VisitedFacts DEF SoundTable, SoundHeap
<1>2. path \in Seq(DOMAIN t.heap) /\ Len(path) \in Nat \ {0} /\ path[1] = z /\ Last(path) = path[Len(path)]
  BY <1>1, LastOfTrail
<1>3. \A i \in 1 .. Len(path) - 1 : N(path[i]) = path[i + 1] /\ ~Matches(l, H(path[i]), hook)
  BY <1>1 DEF IsTrail
<1>4. Matches(l, H(path[Len(path)]), hook) \/ N(path[Len(path)]) = Null
  BY <1>1 DEF IsTrail
<1> HIDE DEF path
<1>5. rank[z] \in 0 .. 4 /\ \A x \in L : x # Null /\ x \in DOMAIN t.heap
  <2>1. Null \notin DOMAIN t.heap
    BY NodeTypes DEF SoundTable, SoundHeap
  <2> QED
    BY <2>1, RankedFacts, LinkedFacts
<1>6. \A i \in 1 .. Len(path) : fits(i)
  <2> DEFINE wrong == {i \in 1 .. Len(path) : ~fits(i)}
  <2> SUFFICES ASSUME wrong # {} PROVE FALSE
    OBVIOUS
  <2>1. PICK i \in wrong : \A j \in wrong : i <= j
    <3>1. wrong \in SUBSET Nat
      BY <1>2
    <3> HIDE DEF wrong
    <3> QED
      BY <3>1, LeastNumber
  <2>2. i \in 1 .. Len(path) /\ ~fits(i) /\ i \in Nat
    BY <1>2, <2>1
  <2>3. fits(1)
    BY <1>0, <1>2, <1>5
  <2>4. i > 1 /\ i - 1 \in 1 .. Len(path) - 1 /\ i - 1 \in 1 .. Len(path) /\ (i - 1) + 1 = i
    <3> HIDE DEF fits
    <3> QED
      BY <1>2, <2>2, <2>3
  <2>5. fits(i - 1)
    <3>1. i - 1 \notin wrong
      <4> HIDE DEF wrong
      <4> QED
        BY <2>1, <2>2, <2>4
    <3> QED
      BY <2>4, <3>1
  <2>6. N(path[i - 1]) = path[i] /\ path[i - 1] \in L
    BY <1>3, <2>4, <2>5
  <2>7. path[i] \in DOMAIN t.heap /\ path[i] # Null
    <3>1. path[i] \in DOMAIN t.heap
      BY <1>2, <2>2
    <3> QED
      BY <3>1, NodeTypes DEF SoundTable, SoundHeap
  <2>8. path[i] \in L /\ rank[path[i]] = l /\ Same(l - 1, H(path[i - 1]), H(path[i]))
    BY <2>6, <2>7, RankedFacts
  <2>9. Same(l - 1, H(path[i]), hook)
    <3>1. Same(l - 1, H(path[i - 1]), hook)
      BY <2>5
    <3> QED
      BY <2>8, <3>1, SameFacts
  <2> QED
    BY <1>0, <2>2, <2>8, <2>9
<1>7. Traced(t, rank, hook, l, path)
  BY <1>1, <1>2, <1>6 DEF Traced
<1>8. Last(path) \in L /\ Same(l - 1, H(Last(path)), hook)
  BY <1>2, <1>6
<1>9. Found(t, path, l, hook) <=> Same(l, H(Last(path)), hook)
  BY <1>8, SameFacts DEF Found
<1>10. ASSUME ~Found(t, path, l, hook), NEW x \in L, Same(l, H(x), hook) PROVE FALSE
  <2> DEFINE met == {path[i] : i \in 1 .. Len(path)}
  <2>1. z \in met
    BY <1>2
  <2>2. ~Matches(l, H(path[Len(path)]), hook) /\ N(path[Len(path)]) = Null
    BY <1>2, <1>4, <1>10 DEF Found
  <2>3. \A i \in 1 .. Len(path) : N(path[i]) # Null => N(path[i]) \in met
    <3> SUFFICES ASSUME NEW i \in 1 .. Len(path), N(path[i]) # Null PROVE N(path[i]) \in met
      OBVIOUS
    <3>1. i \in 1 .. Len(path) - 1 /\ i + 1 \in 1 .. Len(path)
      BY <1>2, <2>2
    <3> QED
      BY <1>3, <3>1
  <2>4. \A n \in met : N(n) # Null => N(n) \in met
    BY <2>3
  <2>5. \A n \in met : ~Matches(l, H(n), hook)
    <3> SUFFICES ASSUME NEW i \in 1 .. Len(path) PROVE ~Matches(l, H(path[i]), hook)
      OBVIOUS
    <3>1. CASE i = Len(path)
      BY <2>2, <3>1
    <3>2. CASE i # Len(path)
      BY <1>2, <1>3, <3>2
    <3> QED
      BY <3>1, <3>2
  <2>6. PICK y \in L : rank[y] <= l /\ Same(l, H(y), H(x))
    <3>1. l \in 0 .. 4
      BY <1>0
    <3> QED
      BY <1>10, <3>1, Represented
  <2>7. Same(l, H(y), hook) /\ Same(l - 1, H(y), hook) /\ Matches(l, H(y), hook)
    BY <1>10, <2>6, SameFacts
  <2>8. Same(l - 1, H(z), H(y))
    BY <2>7, SameFacts
  <2>9. y \in met
    <3> HIDE DEF met
    <3> QED
      BY <2>1, <2>4, <2>6, <2>8, HangsFromHead
  <2> QED
    BY <2>5, <2>7, <2>9
<1> QED
  BY <1>2, <1>7, <1>9, <1>10 DEF path

(***************************************************************************)
(* The four loops, each started where the one before it ended.             *)
(***************************************************************************)
Path1(t, hook) == Visited(t, HeadOf(t, hook), 1, hook)
Path2(t, hook) == Visited(t, Last(Path1(t, hook)), 2, hook)
Path3(t, hook) == Visited(t, Last(Path2(t, hook)), 3, hook)
Path4(t, hook) == Visited(t, Last(Path3(t, hook)), 4, hook)

Paths(t, hook, depth) ==
    IF depth = 1 \/ ~Found(t, Path1(t, hook), 1, hook) THEN <<Path1(t, hook)>>
    ELSE IF depth = 2 \/ ~Found(t, Path2(t, hook), 2, hook) THEN <<Path1(t, hook), Path2(t, hook)>>
    ELSE IF depth = 3 \/ ~Found(t, Path3(t, hook), 3, hook)
    THEN <<Path1(t, hook), Path2(t, hook), Path3(t, hook)>>
    ELSE <<Path1(t, hook), Path2(t, hook), Path3(t, hook), Path4(t, hook)>>

LEMMA Appended ==
  ASSUME NEW S, NEW s \in Seq(S), NEW x \in S, NEW r \in Seq(S), Len(r) = Len(s) + 1,
         \A i \in 1 .. Len(s) : r[i] = s[i], r[Len(r)] = x
  PROVE  Append(s, x) = r
<1>1. Append(s, x) \in Seq(S) /\ Len(Append(s, x)) = Len(s) + 1
  OBVIOUS
<1>2. \A i \in 1 .. Len(s) : Append(s, x)[i] = r[i]
  BY AppendProperties
<1>3. Append(s, x)[Len(s) + 1] = r[Len(r)]
  BY AppendProperties
<1> DEFINE app == Append(s, x)
<1> HIDE DEF app
<1>4. \A i \in 1 .. Len(app) : app[i] = r[i]
  BY <1>1, <1>2, <1>3 DEF app
<1> QED
  BY <1>1, <1>4, SeqEqual DEF app

LEMMA GrowTwo ==
  ASSUME NEW a, NEW b
  PROVE  /\ Len(<<a>>) = 1 /\ Last(<<a>>) = a
         /\ Append(<<a>>, b) = <<a, b>>
<1> DEFINE S == {a, b}
           one == <<a>>
           two == <<a, b>>
<1>1. one \in Seq(S) /\ Len(one) = 1 /\ one[1] = a
  OBVIOUS
<1>2. two \in Seq(S) /\ Len(two) = 2 /\ two[1] = a /\ two[2] = b
  OBVIOUS
<1>3. b \in S
  OBVIOUS
<1> HIDE DEF S, one, two
<1>4. Len(two) = Len(one) + 1 /\ two[Len(two)] = b
  BY <1>1, <1>2
<1>5. \A i \in 1 .. Len(one) : two[i] = one[i]
  BY <1>1, <1>2
<1>6. Append(one, b) = two
  BY <1>1, <1>2, <1>3, <1>4, <1>5, Appended
<1>7. Last(one) = a
  BY <1>1 DEF Last
<1> QED
  BY <1>1, <1>6, <1>7 DEF one, two

LEMMA GrowThree ==
  ASSUME NEW a, NEW b, NEW c
  PROVE  /\ Len(<<a, b>>) = 2 /\ Last(<<a, b>>) = b
         /\ Append(<<a, b>>, c) = <<a, b, c>>
<1> DEFINE S == {a, b, c}
           two == <<a, b>>
           three == <<a, b, c>>
<1>1. two \in Seq(S) /\ Len(two) = 2 /\ two[1] = a /\ two[2] = b
  OBVIOUS
<1>2. three \in Seq(S) /\ Len(three) = 3 /\ three[1] = a /\ three[2] = b /\ three[3] = c
  OBVIOUS
<1>3. c \in S
  OBVIOUS
<1> HIDE DEF S, two, three
<1>4. Len(three) = Len(two) + 1 /\ three[Len(three)] = c
  BY <1>1, <1>2
<1>5. \A i \in 1 .. Len(two) : three[i] = two[i]
  BY <1>1, <1>2
<1>6. Append(two, c) = three
  BY <1>1, <1>2, <1>3, <1>4, <1>5, Appended
<1>7. Last(two) = b
  BY <1>1 DEF Last
<1> QED
  BY <1>1, <1>6, <1>7 DEF two, three

LEMMA GrowFour ==
  ASSUME NEW a, NEW b, NEW c, NEW d
  PROVE  /\ Len(<<a, b, c>>) = 3 /\ Last(<<a, b, c>>) = c
         /\ Append(<<a, b, c>>, d) = <<a, b, c, d>>
<1> DEFINE S == {a, b, c, d}
           three == <<a, b, c>>
           four == <<a, b, c, d>>
<1>1. three \in Seq(S) /\ Len(three) = 3 /\ three[1] = a /\ three[2] = b /\ three[3] = c
  OBVIOUS
<1>2. four \in Seq(S) /\ Len(four) = 4 /\ four[1] = a /\ four[2] = b /\ four[3] = c /\ four[4] = d
  OBVIOUS
<1>3. d \in S
  OBVIOUS
<1> HIDE DEF S, three, four
<1>4. Len(four) = Len(three) + 1 /\ four[Len(four)] = d
  BY <1>1, <1>2
<1>5. \A i \in 1 .. Len(three) : four[i] = three[i]
  BY <1>1, <1>2
<1>6. Append(three, d) = four
  BY <1>1, <1>2, <1>3, <1>4, <1>5, Appended
<1>7. Last(three) = c
  BY <1>1 DEF Last
<1> QED
  BY <1>1, <1>6, <1>7 DEF three, four

LEMMA SearchUnfolds ==
  ASSUME NEW t, NEW hook, NEW depth \in 1 .. 4
  PROVE  Search(t, hook, depth) = Paths(t, hook, depth)
<1> DEFINE start(l, above) == IF l = 1 THEN HeadOf(t, hook) ELSE Last(Last(above))
           goes(l, above) == Len(above) = l - 1 /\ (l > 1 => Found(t, Last(above), l - 1, hook))
           step(l, above) == IF goes(l, above)
                             THEN Append(above, Visited(t, start(l, above), l, hook)) ELSE above
           body(d) == [l \in 0 .. depth |-> IF l = 0 THEN <<>> ELSE step(l, d[l - 1])]
           down == CHOOSE d : d = body(d)
           all == [l \in 0 .. depth |-> IF l = 0 THEN <<>> ELSE Paths(t, hook, l)]
           V1 == Path1(t, hook)
           V2 == Path2(t, hook)
           V3 == Path3(t, hook)
           V4 == Path4(t, hook)
<1>1. Search(t, hook, depth) = down[depth]
  BY DEF Search
<1>2. step(1, <<>>) = <<V1>>
  BY DEF Path1
<1> HIDE DEF V1, V2, V3, V4
<1>3. step(2, <<V1>>) = IF Found(t, V1, 1, hook) THEN <<V1, V2>> ELSE <<V1>>
  <2>1. V2 = Visited(t, Last(V1), 2, hook)
    BY DEF V1, V2, Path2
  <2> DEFINE above == <<V1>>
             longer == <<V1, V2>>
  <2>2. Len(above) = 1 /\ Last(above) = V1 /\ Append(above, V2) = longer
    BY GrowTwo
  <2> HIDE DEF above, longer
  <2>3. 2 - 1 = 1 /\ 2 > 1 /\ 2 # 1
    OBVIOUS
  <2>4. goes(2, above) <=> Found(t, V1, 1, hook)
    BY <2>2, <2>3
  <2>5. start(2, above) = Last(V1)
    BY <2>2, <2>3
  <2>6. Append(above, Visited(t, start(2, above), 2, hook)) = longer
    BY <2>1, <2>2, <2>5
  <2> HIDE DEF goes, start
  <2>7. step(2, above) = IF Found(t, V1, 1, hook) THEN longer ELSE above
    BY <2>4, <2>6
  <2> QED
    BY <2>7 DEF above, longer
<1>4. step(3, <<V1, V2>>) = IF Found(t, V2, 2, hook) THEN <<V1, V2, V3>> ELSE <<V1, V2>>
  <2>1. V3 = Visited(t, Last(V2), 3, hook)
    BY DEF V2, V3, Path3
  <2> DEFINE above == <<V1, V2>>
             longer == <<V1, V2, V3>>
  <2>2. Len(above) = 2 /\ Last(above) = V2 /\ Append(above, V3) = longer
    BY GrowThree
  <2> HIDE DEF above, longer
  <2>3. 3 - 1 = 2 /\ 3 > 1 /\ 3 # 1
    OBVIOUS
  <2>4. goes(3, above) <=> Found(t, V2, 2, hook)
    BY <2>2, <2>3
  <2>5. start(3, above) = Last(V2)
    BY <2>2, <2>3
  <2>6. Append(above, Visited(t, start(3, above), 3, hook)) = longer
    BY <2>1, <2>2, <2>5
  <2> HIDE DEF goes, start
  <2>7. step(3, above) = IF Found(t, V2, 2, hook) THEN longer ELSE above
    BY <2>4, <2>6
  <2> QED
    BY <2>7 DEF above, longer
<1>5. step(4, <<V1, V2, V3>>) = IF Found(t, V3, 3, hook) THEN <<V1, V2, V3, V4>> ELSE <<V1, V2, V3>>
  <2>1. V4 = Visited(t, Last(V3), 4, hook)
    BY DEF V3, V4, Path4
  <2> DEFINE above == <<V1, V2, V3>>
             longer == <<V1, V2, V3, V4>>
  <2>2. Len(above) = 3 /\ Last(above) = V3 /\ Append(above, V4) = longer
    BY GrowFour
  <2> HIDE DEF above, longer
  <2>3. 4 - 1 = 3 /\ 4 > 1 /\ 4 # 1
    OBVIOUS
  <2>4. goes(4, above) <=> Found(t, V3, 3, hook)
    BY <2>2, <2>3
  <2>5. start(4, above) = Last(V3)
    BY <2>2, <2>3
  <2>6. Append(above, Visited(t, start(4, above), 4, hook)) = longer
    BY <2>1, <2>2, <2>5
  <2> HIDE DEF goes, start
  <2>7. step(4, above) = IF Found(t, V3, 3, hook) THEN longer ELSE above
    BY <2>4, <2>6
  <2> QED
    BY <2>7 DEF above, longer
<1>6. \A l \in 3 .. 4 : step(l, <<V1>>) = <<V1>>
  OBVIOUS
<1>7. step(4, <<V1, V2>>) = <<V1, V2>>
  OBVIOUS
<1> HIDE DEF step
<1>8. Paths(t, hook, 1) = step(1, <<>>)
  BY <1>2 DEF Paths, V1, V2, V3, V4
<1>9. Paths(t, hook, 2) = step(2, Paths(t, hook, 1))
  BY <1>3 DEF Paths, V1, V2, V3, V4
<1>10. Paths(t, hook, 3) = step(3, Paths(t, hook, 2))
  BY <1>4, <1>6 DEF Paths, V1, V2, V3, V4
<1>11. Paths(t, hook, 4) = step(4, Paths(t, hook, 3))
  BY <1>5, <1>6, <1>7 DEF Paths, V1, V2, V3, V4
<1>12. all = body(all)
  <2> SUFFICES ASSUME NEW l \in 0 .. depth
               PROVE  all[l] = IF l = 0 THEN <<>> ELSE step(l, all[l - 1])
    OBVIOUS
  <2>1. CASE l = 0
    BY <2>1
  <2>2. CASE l = 1
    BY <1>8, <2>2
  <2>3. CASE l \in 2 .. 4
    <3>1. l - 1 \in 0 .. depth /\ l - 1 # 0 /\ l # 0
      BY <2>3
    <3>2. all[l] = Paths(t, hook, l) /\ all[l - 1] = Paths(t, hook, l - 1)
      BY <3>1
    <3>3. Paths(t, hook, l) = step(l, Paths(t, hook, l - 1))
      BY <1>9, <1>10, <1>11, <2>3
    <3> QED
      BY <3>1, <3>2, <3>3
  <2> QED
    BY <2>1, <2>2, <2>3
<1>13. down = body(down)
  <2> HIDE DEF body, all
  <2> QED
    BY <1>12
<1> HIDE DEF down
<1>14. \A l \in 0 .. depth : down[l] = IF l = 0 THEN <<>> ELSE step(l, down[l - 1])
  BY <1>13
<1>15. down[1] = Paths(t, hook, 1)
  BY <1>8, <1>14
<1>16. depth >= 2 => down[2] = Paths(t, hook, 2)
  BY <1>9, <1>14, <1>15
<1>17. depth >= 3 => down[3] = Paths(t, hook, 3)
  BY <1>10, <1>14, <1>16
<1>18. depth >= 4 => down[4] = Paths(t, hook, 4)
  BY <1>11, <1>14, <1>17
<1> QED
  BY <1>1, <1>15, <1>16, <1>17, <1>18

(***************************************************************************)
(* A search that ended, found or not, at the level Len(paths).             *)
(***************************************************************************)
Searched(t, rank, hook, l, path) ==
    /\ Traced(t, rank, hook, l, path)
    /\ Found(t, path, l, hook) => Same(l, t.heap[Last(path)].hook, hook)
    /\ ~Found(t, path, l, hook) => \A x \in Linked(t) : ~Same(l, t.heap[x].hook, hook)

Descends(t, rank, hook, depth, paths) ==
    /\ Len(paths) \in 1 .. depth
    /\ Last(paths) = paths[Len(paths)]
    /\ paths[1][1] = HeadOf(t, hook)
    /\ \A l \in 1 .. Len(paths) : Searched(t, rank, hook, l, paths[l])
    /\ \A l \in 1 .. Len(paths) - 1 :
          Found(t, paths[l], l, hook) /\ paths[l + 1][1] = Last(paths[l])
    /\ Len(paths) < depth => ~Found(t, Last(paths), Len(paths), hook)

LEMMA SearchedFacts ==
  ASSUME NEW t, NEW rank, NEW hook, NEW l \in Level, NEW path, Searched(t, rank, hook, l, path)
  PROVE  /\ Len(path) \in Nat \ {0} /\ Last(path) = path[Len(path)]
         /\ Last(path) \in Linked(t) /\ rank[Last(path)] <= l
         /\ Same(l - 1, t.heap[Last(path)].hook, hook)
         /\ Len(path) > 1 => rank[Last(path)] = l
<1>1. Len(path) \in Nat \ {0} /\ Last(path) = path[Len(path)]
  BY LastOfTrail DEF Searched, Traced
<1> QED
  BY <1>1 DEF Searched, Traced

LEMMA Heads ==
  ASSUME NEW t, SoundTable(t), NEW rank, Ranked(t, rank), NEW hook, hook.func \in Func
  PROVE  /\ BucketOf[NameOf[hook.func]] \in Bucket
         /\ HeadOf(t, hook) # Null =>
               /\ HeadOf(t, hook) \in Linked(t) /\ rank[HeadOf(t, hook)] = 0
               /\ Same(0, t.heap[HeadOf(t, hook)].hook, hook)
         /\ HeadOf(t, hook) = Null => \A x \in Linked(t) : ~Same(0, t.heap[x].hook, hook)
<1> DEFINE b == BucketOf[NameOf[hook.func]]
<1>1. b \in Bucket /\ HeadOf(t, hook) = t.bucket[b]
  BY TableAssumption DEF HeadOf
<1>2. ASSUME HeadOf(t, hook) # Null
      PROVE  /\ HeadOf(t, hook) \in Linked(t) /\ rank[HeadOf(t, hook)] = 0
             /\ Same(0, t.heap[HeadOf(t, hook)].hook, hook)
  <2>1. BucketOf[NameOf[t.heap[t.bucket[b]].hook.func]] = b
    BY <1>1, <1>2, Zenon DEF Ranked
  <2>2. rank[t.bucket[b]] = 0
    BY <1>1, <1>2 DEF Ranked
  <2>3. t.bucket[b] \in Linked(t)
    BY <1>1, <1>2, LinkedFacts
  <2>4. Same(0, t.heap[t.bucket[b]].hook, hook)
    BY <2>1, SameFacts, Zenon
  <2> QED
    BY <1>1, <2>2, <2>3, <2>4, Zenon
<1>3. ASSUME HeadOf(t, hook) = Null, NEW x \in Linked(t), Same(0, t.heap[x].hook, hook) PROVE FALSE
  <2>1. PICK y \in Linked(t) : rank[y] <= 0 /\ Same(0, t.heap[y].hook, t.heap[x].hook)
    <3>1. 0 \in 0 .. 4
      OBVIOUS
    <3> QED
      BY <3>1, Represented
  <2>2. rank[y] = 0 /\ Same(0, t.heap[y].hook, hook)
    <3>1. rank[y] \in 0 .. 4
      BY RankedFacts
    <3> QED
      BY <1>3, <2>1, <3>1, SameFacts
  <2>3. PICK c \in Bucket : t.bucket[c] = y
    BY <2>2, RankZero
  <2>4. y # Null
    BY LinkedFacts, NodeTypes DEF SoundTable, SoundHeap
  <2>5. BucketOf[NameOf[t.heap[y].hook.func]] = c
    BY <2>3, <2>4 DEF Ranked
  <2>6. c = b
    BY <2>2, <2>5, SameFacts
  <2> QED
    BY <1>1, <1>3, <2>3, <2>4, <2>6
<1> QED
  BY <1>1, <1>2, <1>3

LEMMA SearchDescends ==
  ASSUME NEW t, SoundTable(t), NEW rank, Ranked(t, rank), NEW hook, hook.func \in Func, HeadOf(t, hook) # Null,
         NEW depth \in 1 .. 4
  PROVE  Descends(t, rank, hook, depth, Search(t, hook, depth))
<1> DEFINE V1 == Path1(t, hook)
           V2 == Path2(t, hook)
           V3 == Path3(t, hook)
           V4 == Path4(t, hook)
           F1 == Found(t, V1, 1, hook)
           F2 == Found(t, V2, 2, hook)
           F3 == Found(t, V3, 3, hook)
           paths == Search(t, hook, depth)
<1>0. 1 \in Level /\ 2 \in Level /\ 3 \in Level /\ 4 \in Level
  BY Levels
<1>1. ASSUME NEW l \in Level, NEW z \in Linked(t), rank[z] <= l - 1, Same(l - 1, t.heap[z].hook, hook)
      PROVE  Searched(t, rank, hook, l, Visited(t, z, l, hook)) /\ Visited(t, z, l, hook)[1] = z
  BY <1>1, OneList DEF Searched
<1>2. ASSUME NEW l \in Level, NEW path, Searched(t, rank, hook, l, path), Found(t, path, l, hook)
      PROVE  Last(path) \in Linked(t) /\ rank[Last(path)] <= l /\ Same(l, t.heap[Last(path)].hook, hook)
  <2>1. Last(path) \in Linked(t) /\ rank[Last(path)] <= l
    BY <1>2, SearchedFacts
  <2>2. Same(l, t.heap[Last(path)].hook, hook)
    BY <1>2 DEF Searched
  <2> QED
    BY <2>1, <2>2
<1>3. Searched(t, rank, hook, 1, V1) /\ V1[1] = HeadOf(t, hook)
  <2>1. rank[HeadOf(t, hook)] <= 1 - 1 /\ Same(1 - 1, t.heap[HeadOf(t, hook)].hook, hook)
    BY Heads
  <2>2. HeadOf(t, hook) \in Linked(t)
    BY Heads
  <2> QED
    BY <1>0, <1>1, <2>1, <2>2 DEF Path1
<1>4. F1 => Searched(t, rank, hook, 2, V2) /\ V2[1] = Last(V1)
  <2> SUFFICES ASSUME F1 PROVE Searched(t, rank, hook, 2, V2) /\ V2[1] = Last(V1)
    OBVIOUS
  <2>1. Last(V1) \in Linked(t) /\ rank[Last(V1)] <= 2 - 1 /\ Same(2 - 1, t.heap[Last(V1)].hook, hook)
    BY <1>0, <1>2, <1>3
  <2> QED
    BY <1>0, <1>1, <2>1 DEF Path2
<1>5. F1 /\ F2 => Searched(t, rank, hook, 3, V3) /\ V3[1] = Last(V2)
  <2> SUFFICES ASSUME F1, F2 PROVE Searched(t, rank, hook, 3, V3) /\ V3[1] = Last(V2)
    OBVIOUS
  <2>1. Last(V2) \in Linked(t) /\ rank[Last(V2)] <= 3 - 1 /\ Same(3 - 1, t.heap[Last(V2)].hook, hook)
    BY <1>0, <1>2, <1>4
  <2> QED
    BY <1>0, <1>1, <2>1 DEF Path3
<1>6. F1 /\ F2 /\ F3 => Searched(t, rank, hook, 4, V4) /\ V4[1] = Last(V3)
  <2> SUFFICES ASSUME F1, F2, F3 PROVE Searched(t, rank, hook, 4, V4) /\ V4[1] = Last(V3)
    OBVIOUS
  <2>1. Last(V3) \in Linked(t) /\ rank[Last(V3)] <= 4 - 1 /\ Same(4 - 1, t.heap[Last(V3)].hook, hook)
    BY <1>0, <1>2, <1>5
  <2> QED
    BY <1>0, <1>1, <2>1 DEF Path4
<1>7. paths = Paths(t, hook, depth)
  BY SearchUnfolds
<1> HIDE DEF V1, V2, V3, V4, F1, F2, F3, paths
<1>8. CASE depth = 1 \/ ~F1
  <2>1. paths = <<V1>>
    BY <1>7, <1>8 DEF Paths, V1, F1
  <2>2. Len(paths) = 1 /\ paths[1] = V1 /\ Last(paths) = V1
    BY <2>1 DEF Last
  <2> HIDE DEF paths
  <2> QED
    BY <1>3, <1>8, <2>2 DEF Descends, paths, F1
<1>9. CASE depth # 1 /\ F1 /\ (depth = 2 \/ ~F2)
  <2>1. paths = <<V1, V2>>
    BY <1>7, <1>9 DEF Paths, V1, F1, V2, F2
  <2>2. Len(paths) = 2 /\ paths[1] = V1 /\ paths[2] = V2 /\ Last(paths) = V2
    BY <2>1 DEF Last
  <2> QED
    BY <1>3, <1>4, <1>9, <2>2 DEF Descends, paths, F1, F2
<1>10. CASE depth \notin {1, 2} /\ F1 /\ F2 /\ (depth = 3 \/ ~F3)
  <2>1. paths = <<V1, V2, V3>>
    BY <1>7, <1>10 DEF Paths, V1, F1, V2, F2, V3, F3
  <2>2. Len(paths) = 3 /\ paths[1] = V1 /\ paths[2] = V2 /\ paths[3] = V3 /\ Last(paths) = V3
    BY <2>1 DEF Last
  <2> QED
    BY <1>3, <1>4, <1>5, <1>10, <2>2 DEF Descends, paths, F1, F2, F3
<1>11. CASE depth = 4 /\ F1 /\ F2 /\ F3
  <2>1. paths = <<V1, V2, V3, V4>>
    BY <1>7, <1>11 DEF Paths, V1, F1, V2, F2, V3, F3, V4
  <2>2. /\ Len(paths) = 4 /\ paths[1] = V1 /\ paths[2] = V2 /\ paths[3] = V3 /\ paths[4] = V4
        /\ Last(paths) = V4
    BY <2>1 DEF Last
  <2> HIDE DEF paths
  <2>3. \A l \in 1 .. 4 : Searched(t, rank, hook, l, paths[l])
    BY <1>3, <1>4, <1>5, <1>6, <1>11, <2>2
  <2>4. \A l \in 1 .. 3 : Found(t, paths[l], l, hook) /\ paths[l + 1][1] = Last(paths[l])
    BY <1>4, <1>5, <1>6, <1>11, <2>2 DEF F1, F2, F3
  <2>5. /\ \A l \in 1 .. Len(paths) : Searched(t, rank, hook, l, paths[l])
        /\ \A l \in 1 .. Len(paths) - 1 :
              Found(t, paths[l], l, hook) /\ paths[l + 1][1] = Last(paths[l])
    BY <2>2, <2>3, <2>4
  <2>6. Len(paths) \in 1 .. depth /\ Last(paths) = paths[Len(paths)] /\ ~(Len(paths) < depth)
        /\ paths[1][1] = HeadOf(t, hook)
    BY <1>3, <1>11, <2>2
  <2>7. Descends(t, rank, hook, depth, paths)
    BY <2>5, <2>6 DEF Descends
  <2> QED
    BY <2>7 DEF paths
<1> QED
  BY <1>8, <1>9, <1>10, <1>11 DEF paths

(***************************************************************************)
(* has_hook and the lookup of preprocess_hook find what is registered.     *)
(***************************************************************************)
LEMMA HasHookIsExact ==
  ASSUME NEW t, SoundTable(t), NEW rank, Ranked(t, rank), NEW hook \in Hook
  PROVE  HasHook(t, hook) <=> hook \in Registered(t)
<1>0. hook.func \in Func
  BY DEF Hook
<1> DEFINE paths == Search(t, hook, 4)
<1>1. \A x \in Linked(t) : t.heap[x].hook \in Hook
  BY RankedFacts
<1>2. CASE HeadOf(t, hook) = Null
  <2>1. \A x \in Linked(t) : ~Same(0, t.heap[x].hook, hook)
    BY <1>0, <1>2, Heads
  <2>2. \A x \in Linked(t) : t.heap[x].hook # hook
    BY <2>1, SameFacts
  <2> QED
    BY <1>2, <2>2 DEF HasHook, Registered
<1>3. CASE HeadOf(t, hook) # Null
  <2>1. Descends(t, rank, hook, 4, paths)
    <3>1. 4 \in 1 .. 4
      OBVIOUS
    <3> QED
      BY <1>0, <1>3, <3>1, SearchDescends
  <2> DEFINE l == Len(paths)
  <2>2. l \in 1 .. 4 /\ l \in Level /\ Searched(t, rank, hook, l, Last(paths))
    <3>1. l \in 1 .. 4
      BY <2>1 DEF Descends
    <3> QED
      BY <2>1, <3>1, Levels DEF Descends
  <2> HIDE DEF paths
  <2>3. CASE Found(t, Last(paths), l, hook)
    <3>1. l = 4
      BY <2>1, <2>2, <2>3 DEF Descends
    <3>2. Same(4, t.heap[Last(Last(paths))].hook, hook) /\ Last(Last(paths)) \in Linked(t)
      BY <2>2, <2>3, <3>1, SearchedFacts DEF Searched
    <3>3. t.heap[Last(Last(paths))].hook = hook
      BY <1>1, <3>2, SameHooks
    <3>4. HasHook(t, hook)
      BY <1>3, <2>3, <3>1 DEF HasHook, IsFound, paths
    <3> QED
      BY <3>2, <3>3, <3>4 DEF Registered
  <2>4. CASE ~Found(t, Last(paths), l, hook)
    <3>1. \A x \in Linked(t) : ~Same(l, t.heap[x].hook, hook)
      BY <2>2, <2>4 DEF Searched
    <3>2. \A x \in Linked(t) : t.heap[x].hook # hook
      BY <3>1, SameFacts
    <3>3. ~HasHook(t, hook)
      BY <2>4 DEF HasHook, IsFound, paths
    <3> QED
      BY <3>2, <3>3 DEF Registered
  <2> QED
    BY <2>3, <2>4
<1> QED
  BY <1>2, <1>3

LEMMA FirstOfIsExact ==
  ASSUME NEW t, SoundTable(t), NEW rank, Ranked(t, rank), NEW func \in Func
  PROVE  /\ FirstOf(t, func) # Null <=> \E x \in Linked(t) : t.heap[x].hook.func = func
         /\ FirstOf(t, func) # Null =>
               /\ FirstOf(t, func) \in Linked(t) /\ t.heap[FirstOf(t, func)].hook.func = func
               /\ rank[FirstOf(t, func)] <= 2
<1> DEFINE key == [func |-> func, type |-> "PRE", identifier |-> CHOOSE i \in Ident : TRUE]
           paths == Search(t, key, 2)
           l == Len(paths)
           first == Last(Last(paths))
<1>1. key.func = func
  OBVIOUS
<1>2. FirstOf(t, func) = IF HeadOf(t, key) # Null /\ IsFound(t, paths, 2, key) THEN first ELSE Null
  BY DEF FirstOf
<1> HIDE DEF key, paths
<1>3. \A x \in Linked(t), k \in 0 .. 2 : t.heap[x].hook.func = func => Same(k, t.heap[x].hook, key)
  <2> SUFFICES ASSUME NEW x \in Linked(t), NEW k \in 0 .. 2, t.heap[x].hook.func = key.func
               PROVE  Same(k, t.heap[x].hook, key)
    BY <1>1
  <2> QED
    BY Levels DEF Same, Matches
<1>4. CASE HeadOf(t, key) = Null
  <2>1. \A x \in Linked(t) : ~Same(0, t.heap[x].hook, key)
    BY <1>1, <1>4, Heads
  <2> QED
    BY <1>2, <1>3, <1>4, <2>1
<1>5. CASE HeadOf(t, key) # Null
  <2>1. Descends(t, rank, key, 2, paths)
    <3>1. 2 \in 1 .. 4
      OBVIOUS
    <3> QED
      BY <1>1, <1>5, <3>1, SearchDescends DEF paths
  <2>2. l \in 1 .. 2 /\ l \in Level /\ Searched(t, rank, key, l, Last(paths))
    <3>1. l \in 1 .. 2
      BY <2>1 DEF Descends
    <3> QED
      BY <2>1, <3>1, Levels DEF Descends
  <2>3. CASE Found(t, Last(paths), l, key)
    <3>1. l = 2
      BY <2>1, <2>2, <2>3 DEF Descends
    <3>2. first \in Linked(t) /\ first # Null /\ rank[first] <= 2
      <4>1. first \in Linked(t) /\ rank[first] <= 2
        BY <2>2, <3>1, SearchedFacts
      <4> QED
        BY <4>1, LinkedFacts, NodeTypes DEF SoundTable, SoundHeap
    <3>3. Same(2, t.heap[first].hook, key)
      BY <2>2, <2>3, <3>1 DEF Searched
    <3>4. Matches(2, t.heap[first].hook, key)
      BY <3>3, Levels DEF Same
    <3>5. t.heap[first].hook.func = func
      BY <1>1, <3>4 DEF Matches
    <3>6. FirstOf(t, func) = first
      BY <1>2, <1>5, <2>3, <3>1 DEF IsFound
    <3> HIDE DEF first
    <3> QED
      BY <3>2, <3>5, <3>6
  <2>4. CASE ~Found(t, Last(paths), l, key)
    <3>1. \A x \in Linked(t) : ~Same(l, t.heap[x].hook, key)
      BY <2>2, <2>4 DEF Searched
    <3>2. FirstOf(t, func) = Null
      BY <1>2, <2>4 DEF IsFound
    <3>3. l \in 0 .. 2
      BY <2>2
    <3>4. \A x \in Linked(t) : t.heap[x].hook.func # func
      <4> HIDE DEF l
      <4> QED
        BY <1>3, <3>1, <3>3
    <3> QED
      BY <3>2, <3>4
  <2> QED
    BY <2>3, <2>4
<1> QED
  BY <1>4, <1>5

\* There is one node per hook.
LEMMA OneNodePerHook ==
  ASSUME NEW t, SoundTable(t), NEW rank, Ranked(t, rank)
  PROVE  /\ \A m, n \in Linked(t) : t.heap[m].hook = t.heap[n].hook => m = n
         /\ Cardinality(Registered(t)) = Cardinality(Linked(t))
<1>1. \A m, n \in Linked(t) : t.heap[m].hook = t.heap[n].hook => m = n
  <2> SUFFICES ASSUME NEW m \in Linked(t), NEW n \in Linked(t), t.heap[m].hook = t.heap[n].hook
               PROVE  m = n
    OBVIOUS
  <2>1. 4 \in 0 .. 4 /\ rank[m] <= 4 /\ rank[n] <= 4
    BY RankedFacts
  <2>2. Same(4, t.heap[m].hook, t.heap[n].hook)
    BY SameFacts
  <2> QED
    BY <2>1, <2>2 DEF Ranked
<1>2. IsFiniteSet(Linked(t))
  BY LinkedFacts, FS_Subset DEF SoundTable, SoundHeap
<1> DEFINE hookOf == [n \in Linked(t) |-> t.heap[n].hook]
<1>3. hookOf \in Bijection(Linked(t), Registered(t))
  BY <1>1 DEF Bijection, Injection, Surjection, Registered, IsInjective
<1>4. ExistsBijection(Linked(t), Registered(t))
  BY <1>3 DEF ExistsBijection
<1> QED
  BY <1>1, <1>2, <1>4, FS_Bijection

(***************************************************************************)
(* No node is reached from its own links.                                  *)
(***************************************************************************)
LEMMA NoCycle ==
  ASSUME NEW heap, Typed(heap), IsFiniteSet(DOMAIN heap), Acyclic(heap), NEW n \in DOMAIN heap
  PROVE  n \notin Reach(heap, {heap[n].next[l] : l \in Level})
<1> DEFINE D == DOMAIN heap
           out(x) == {heap[x].next[l] : l \in Level}
           R(x) == Reach(heap, out(x))
<1>1. \A x \in D : out(x) \in SUBSET (D \union {Null})
  BY NodeTypes
<1>2. ASSUME NEW x \in D
      PROVE  /\ R(x) \in SUBSET D
             /\ \A l \in Level : heap[x].next[l] # Null => heap[x].next[l] \in R(x)
             /\ Closed(heap, R(x))
             /\ \A S \in SUBSET D :
                   (\A l \in Level : heap[x].next[l] # Null => heap[x].next[l] \in S) /\ Closed(heap, S)
                   => R(x) \subseteq S
  <2> DEFINE roots == out(x)
  <2>1. roots \in SUBSET (D \union {Null})
    BY <1>1
  <2>2. \A S : roots \ {Null} \subseteq S <=> \A l \in Level : heap[x].next[l] # Null => heap[x].next[l] \in S
    OBVIOUS
  <2> HIDE DEF roots
  <2>3. /\ Reach(heap, roots) \in SUBSET DOMAIN heap
        /\ roots \ {Null} \subseteq Reach(heap, roots)
        /\ Closed(heap, Reach(heap, roots))
        /\ \A S \in SUBSET DOMAIN heap :
              roots \ {Null} \subseteq S /\ Closed(heap, S) => Reach(heap, roots) \subseteq S
    BY <2>1, ReachIsLeast
  <2>4. R(x) = Reach(heap, roots)
    BY DEF roots
  <2> HIDE DEF R
  <2> QED
    BY <2>2, <2>3, <2>4
<1> HIDE DEF R, out
<1> SUFFICES ASSUME n \in R(n) PROVE FALSE
  BY DEF R, out
<1> DEFINE S == {x \in R(n) : n \in R(x)}
<1>3. S \in SUBSET D /\ S # {}
  BY <1>2
<1>4. ASSUME NEW x \in S PROVE \E l \in Level : heap[x].next[l] \in S
  <2>1. x \in D /\ x \in R(n) /\ n \in R(x)
    BY <1>2
  <2> DEFINE U == {y \in D : \E l \in Level : heap[x].next[l] # Null
                                           /\ (y = heap[x].next[l] \/ y \in R(heap[x].next[l]))}
  <2>2. \A l \in Level : heap[x].next[l] # Null => heap[x].next[l] \in D
    BY <2>1, NodeTypes
  <2>3. \A l \in Level : heap[x].next[l] # Null => heap[x].next[l] \in U
    BY <2>2
  <2>4. Closed(heap, U)
    <3> SUFFICES ASSUME NEW y \in U, NEW k \in Level, heap[y].next[k] # Null PROVE heap[y].next[k] \in U
      BY DEF Closed
    <3>1. PICK l \in Level : heap[x].next[l] # Null
                          /\ (y = heap[x].next[l] \/ y \in R(heap[x].next[l]))
      OBVIOUS
    <3>2. heap[y].next[k] \in R(heap[x].next[l]) /\ heap[y].next[k] \in D
      BY <1>2, <2>2, <3>1 DEF Closed
    <3> QED
      BY <3>1, <3>2
  <2>5. n \in U
    <3>1. U \in SUBSET D
      OBVIOUS
    <3> HIDE DEF U
    <3> QED
      BY <1>2, <2>1, <2>3, <2>4, <3>1
  <2>6. PICK l \in Level : heap[x].next[l] # Null /\ (n = heap[x].next[l] \/ n \in R(heap[x].next[l]))
    BY <2>5
  <2>7. heap[x].next[l] \in R(n)
    BY <1>2, <2>1, <2>6 DEF Closed
  <2> QED
    BY <2>6, <2>7
<1> HIDE DEF S
<1> QED
  BY <1>3, <1>4 DEF Acyclic

(***************************************************************************)
(* The lists of a ranked table are laid out as the diagram has it.         *)
(***************************************************************************)
LEMMA RankedIsLayered ==
  ASSUME NEW t, SoundTable(t), NEW rank, Ranked(t, rank), NEW n \in Linked(t), NEW l \in Level,
         t.heap[n].next[l] # Null
  PROVE  /\ \A k \in 1 .. l - 1 : Matches(k, t.heap[n].hook, t.heap[t.heap[n].next[l]].hook)
         /\ ~Matches(l, t.heap[n].hook, t.heap[t.heap[n].next[l]].hook)
         /\ \A m \in Linked(t), k \in 1 .. l - 1 : t.heap[m].next[k] # t.heap[n].next[l]
<1> DEFINE z == t.heap[n].next[l]
<1>0. l \in 1 .. 4 /\ l \in 0 .. 4
  BY Levels
<1>1. z \in Linked(t) /\ rank[n] <= l /\ rank[z] = l /\ Same(l - 1, t.heap[n].hook, t.heap[z].hook)
  BY RankedFacts
<1>2. z \in DOMAIN t.heap /\ z # Null
  BY <1>1, LinkedFacts, NodeTypes DEF SoundTable, SoundHeap
<1>3. z # n
  <2>1. PICK x \in {n} : \A k \in Level : t.heap[x].next[k] \notin {n}
    <3>1. {n} \in SUBSET DOMAIN t.heap /\ {n} # {}
      BY LinkedFacts
    <3> QED
      BY <3>1 DEF SoundTable, SoundHeap, Acyclic
  <2> QED
    BY <2>1
<1> HIDE DEF z
<1>4. \A k \in 1 .. l - 1 : Matches(k, t.heap[n].hook, t.heap[z].hook)
  BY <1>0, <1>1, Levels, SMTT(30) DEF Same
<1>5. ASSUME Matches(l, t.heap[n].hook, t.heap[z].hook) PROVE FALSE
  <2>1. Same(l, t.heap[n].hook, t.heap[z].hook)
    BY <1>1, <1>5, SameFacts
  <2>2. rank[z] <= l
    BY <1>0, <1>1
  <2> QED
    BY <1>0, <1>1, <1>3, <2>1, <2>2 DEF Ranked
<1>6. ASSUME NEW m \in Linked(t), NEW k \in 1 .. l - 1, t.heap[m].next[k] = z PROVE FALSE
  <2>1. k \in Level /\ k # l
    BY <1>0, Levels
  <2>2. rank[z] = k
    BY <1>2, <1>6, <2>1, RankedFacts
  <2> QED
    BY <1>1, <2>1, <2>2
<1> QED
  BY <1>4, <1>5, <1>6 DEF z

(***************************************************************************)
(* A table with a node new for hook at the end of a list of level, after   *)
(* prev, or (level 0) as the first node of its bucket.                     *)
(***************************************************************************)
Lengthened(t, t2, hook, new, prev, level) ==
    /\ t2 = [bucket |-> t2.bucket, heap |-> t2.heap]
    /\ DOMAIN t2.heap = DOMAIN t.heap \union {new}
    /\ Typed(t2.heap)
    /\ \A n \in DOMAIN t.heap : t2.heap[n].hook = t.heap[n].hook
    /\ \A n \in DOMAIN t.heap, l \in Level :
          t2.heap[n].next[l] = IF n = prev /\ l = level THEN new ELSE t.heap[n].next[l]
    /\ t2.heap[new].hook = hook
    /\ \A l \in Level : t2.heap[new].next[l] = Null
    /\ t2.bucket \in [Bucket -> DOMAIN t2.heap \union {Null}]
    /\ \A b \in Bucket :
          t2.bucket[b] = IF level = 0 /\ b = BucketOf[NameOf[hook.func]] THEN new ELSE t.bucket[b]

\* The end of the list that hook is missing from.
MissingAfter(t, rank, hook, prev, level) ==
    /\ \A x \in Linked(t) : ~Same(level, t.heap[x].hook, hook)
    /\ IF level = 0 THEN HeadOf(t, hook) = Null
       ELSE /\ prev \in Linked(t) /\ rank[prev] <= level /\ t.heap[prev].next[level] = Null
            /\ Same(level - 1, t.heap[prev].hook, hook)

LEMMA InsertFirstLengthens ==
  ASSUME NEW t, SoundTable(t), NEW hook \in Hook, NEW new \in Node, new \notin DOMAIN t.heap
  PROVE  Lengthened(t, InsertFirst(t, hook, new), hook, new, Null, 0)
<1> DEFINE t2 == InsertFirst(t, hook, new)
           D2 == DOMAIN t.heap \union {new}
<1>1. /\ t2.bucket = [t.bucket EXCEPT ![BucketOf[NameOf[hook.func]]] = new]
      /\ t2.heap = [n \in D2 |-> IF n = new THEN NewNode(hook) ELSE t.heap[n]]
      /\ t2 = [bucket |-> t2.bucket, heap |-> t2.heap]
  BY DEF InsertFirst
<1> HIDE DEF t2
<1>2. t2.bucket \in [Bucket -> D2 \union {Null}]
  BY <1>1 DEF SoundTable
<1>3. Null \notin DOMAIN t.heap /\ 0 \notin Level
  BY NodeTypes, Levels DEF SoundTable, SoundHeap
<1>4. /\ NewNode(hook).hook = hook /\ \A l \in Level : NewNode(hook).next[l] = Null
      /\ NewNode(hook) \in NodeContents(D2)
  BY DEF NewNode, NodeContents
<1>5. Typed(t2.heap)
  <2>1. \A n \in DOMAIN t.heap : t.heap[n] \in NodeContents(D2)
    BY DEF SoundTable, SoundHeap, Typed, NodeContents
  <2>2. D2 \subseteq Node
    BY DEF SoundTable, SoundHeap, Typed
  <2> QED
    BY <1>1, <1>4, <2>1, <2>2 DEF Typed
<1>6. \A b \in Bucket : t2.bucket[b] = IF b = BucketOf[NameOf[hook.func]] THEN new ELSE t.bucket[b]
  BY <1>1 DEF SoundTable
<1>7. Lengthened(t, t2, hook, new, Null, 0)
  BY <1>1, <1>2, <1>3, <1>4, <1>5, <1>6 DEF Lengthened
<1> QED
  BY <1>7 DEF t2

LEMMA InsertLengthens ==
  ASSUME NEW t, SoundTable(t), NEW hook \in Hook, NEW new \in Node, new \notin DOMAIN t.heap,
         NEW prev \in DOMAIN t.heap, NEW level \in Level
  PROVE  Lengthened(t, Insert(t, hook, new, prev, level), hook, new, prev, level)
<1> DEFINE t2 == Insert(t, hook, new, prev, level)
           D2 == DOMAIN t.heap \union {new}
           longer == [t.heap[prev] EXCEPT !.next[level] = new]
<1>1. /\ t2.bucket = t.bucket
      /\ t2.heap = [n \in D2 |-> IF n = new THEN NewNode(hook)
                                 ELSE IF n = prev THEN [t.heap[n] EXCEPT !.next[level] = new]
                                 ELSE t.heap[n]]
      /\ t2 = [bucket |-> t2.bucket, heap |-> t2.heap]
  <2>1. t = [bucket |-> t.bucket, heap |-> t.heap]
    BY DEF SoundTable
  <2> QED
    BY <2>1 DEF Insert
<1> HIDE DEF t2
<1>2. t2.bucket \in [Bucket -> D2 \union {Null}]
  BY <1>1 DEF SoundTable
<1>3. \A n \in DOMAIN t.heap : t.heap[n] \in [hook : Hook, next : [Level -> DOMAIN t.heap \union {Null}]]
  BY DEF SoundTable, SoundHeap, Typed, NodeContents
<1>4. /\ NewNode(hook).hook = hook /\ \A l \in Level : NewNode(hook).next[l] = Null
      /\ NewNode(hook) \in NodeContents(D2)
  BY DEF NewNode, NodeContents
<1>5. /\ longer.hook = t.heap[prev].hook
      /\ \A l \in Level : longer.next[l] = IF l = level THEN new ELSE t.heap[prev].next[l]
      /\ longer \in NodeContents(D2)
  BY <1>3 DEF NodeContents
<1> HIDE DEF longer
<1>6. \A n \in D2 : t2.heap[n] = IF n = new THEN NewNode(hook) ELSE IF n = prev THEN longer ELSE t.heap[n]
  BY <1>1 DEF longer
<1>7. Typed(t2.heap)
  <2>1. \A n \in DOMAIN t.heap : t.heap[n] \in NodeContents(D2)
    BY <1>3 DEF NodeContents
  <2>2. D2 \subseteq Node
    BY DEF SoundTable, SoundHeap, Typed
  <2>3. \A n \in D2 : t2.heap[n] \in NodeContents(D2)
    BY <1>4, <1>5, <1>6, <2>1
  <2> QED
    BY <1>1, <2>2, <2>3 DEF Typed
<1>8. \A b \in Bucket : t2.bucket[b] = IF level = 0 THEN new ELSE t.bucket[b]
  BY <1>1, Levels
<1>9. level # 0
  BY Levels
<1>10. \A n \in DOMAIN t.heap, l \in Level :
          t2.heap[n].next[l] = IF n = prev /\ l = level THEN new ELSE t.heap[n].next[l]
  BY <1>5, <1>6
<1>11. t2.heap[new] = NewNode(hook) /\ \A n \in DOMAIN t.heap : t2.heap[n].hook = t.heap[n].hook
  BY <1>5, <1>6
<1>12. DOMAIN t2.heap = D2
  BY <1>1
<1>13. Lengthened(t, t2, hook, new, prev, level)
  BY <1>1, <1>2, <1>4, <1>7, <1>8, <1>9, <1>10, <1>11, <1>12 DEF Lengthened
<1> QED
  BY <1>13 DEF t2

LEMMA LengthenedIsInOrder ==
  ASSUME NEW t, SoundTable(t), NEW rank, Ranked(t, rank), NEW hook \in Hook, NEW new, new \notin DOMAIN t.heap,
         NEW prev, NEW level \in 0 .. 4, NEW t2,
         Lengthened(t, t2, hook, new, prev, level), MissingAfter(t, rank, hook, prev, level)
  PROVE  /\ SoundTable(t2)
         /\ Linked(t2) = Linked(t) \union {new}
         /\ \E r : Ranked(t2, r)
<1> DEFINE D == DOMAIN t.heap
           L == Linked(t)
           N(n, l) == t.heap[n].next[l]
           H(n) == t.heap[n].hook
           N2(n, l) == t2.heap[n].next[l]
           H2(n) == t2.heap[n].hook
           home == BucketOf[NameOf[hook.func]]
<1>1. /\ DOMAIN t2.heap = D \union {new} /\ Typed(t2.heap)
      /\ t2 = [bucket |-> t2.bucket, heap |-> t2.heap]
      /\ t2.bucket \in [Bucket -> DOMAIN t2.heap \union {Null}]
  BY DEF Lengthened
<1>2. /\ \A n \in D : H2(n) = H(n)
      /\ \A n \in D, l \in Level : N2(n, l) = IF n = prev /\ l = level THEN new ELSE N(n, l)
      /\ H2(new) = hook
      /\ \A l \in Level : N2(new, l) = Null
      /\ \A b \in Bucket : t2.bucket[b] = IF level = 0 /\ b = home THEN new ELSE t.bucket[b]
  BY DEF Lengthened
<1>3. /\ \A x \in L : ~Same(level, H(x), hook)
      /\ level = 0 => t.bucket[home] = Null
      /\ level # 0 => /\ prev \in L /\ rank[prev] <= level /\ N(prev, level) = Null
                      /\ Same(level - 1, H(prev), hook)
  BY DEF MissingAfter, HeadOf
<1>4. /\ L \in SUBSET D
      /\ \A b \in Bucket : t.bucket[b] # Null => t.bucket[b] \in L
      /\ \A n \in L, l \in Level : N(n, l) # Null => N(n, l) \in L
      /\ \A S \in SUBSET D :
               /\ \A b \in Bucket : t.bucket[b] # Null => t.bucket[b] \in S
               /\ \A n \in S, l \in Level : N(n, l) # Null => N(n, l) \in S
               => L \subseteq S
  BY LinkedFacts
<1>5. /\ Typed(t.heap) /\ IsFiniteSet(D) /\ Acyclic(t.heap) /\ Layered(t.heap)
      /\ Null \notin D /\ Null \notin D \union {new}
      /\ \A n \in D, l \in Level : N(n, l) \in D \union {Null}
  <2>1. Typed(t.heap) /\ IsFiniteSet(D) /\ Acyclic(t.heap) /\ Layered(t.heap)
    BY DEF SoundTable, SoundHeap
  <2>2. Null \notin DOMAIN t2.heap
    BY <1>1, NodeTypes
  <2> QED
    BY <1>1, <2>1, <2>2, NodeTypes
<1>6. home \in Bucket /\ hook.func \in Func
  BY TableAssumption DEF Hook
<1>7. level # 0 => level \in Level
  BY Levels
<1> HIDE DEF L, D, N, H, N2, H2, home
<1>8. Acyclic(t2.heap)
  <2> SUFFICES ASSUME NEW S \in SUBSET (D \union {new}), S # {}
               PROVE  \E n \in S : \A l \in Level : N2(n, l) \notin S
    BY <1>1 DEF Acyclic, N2
  <2>1. CASE new \in S
    BY <1>2, <1>5, <2>1
  <2>2. CASE new \notin S
    <3>1. PICK n \in S : \A l \in Level : N(n, l) \notin S
      BY <1>5, <2>2 DEF Acyclic, N, D
    <3> QED
      BY <1>2, <2>2, <3>1
  <2> QED
    BY <2>1, <2>2
<1>9. ASSUME NEW n \in D \union {new}, NEW l \in Level, N2(n, l) # Null
      PROVE  Same(l - 1, H2(n), H2(N2(n, l)))
  <2>1. n \in D
    BY <1>2, <1>9
  <2>2. CASE n = prev /\ l = level
    BY <1>2, <1>3, <1>7, <2>1, <2>2, Levels
  <2>3. CASE ~(n = prev /\ l = level)
    <3>1. N2(n, l) = N(n, l) /\ N(n, l) \in D
      BY <1>2, <1>5, <1>9, <2>1, <2>3
    <3>2. Same(l - 1, H(n), H(N(n, l)))
      BY <1>5, <1>9, <2>1, <3>1 DEF Layered, N, H, D
    <3> QED
      BY <1>2, <2>1, <3>1, <3>2
  <2> QED
    BY <2>2, <2>3
<1>10. SoundTable(t2)
  <2>1. Layered(t2.heap)
    BY <1>1, <1>9 DEF Layered, N2, H2
  <2>2. IsFiniteSet(DOMAIN t2.heap)
    BY <1>1, <1>5, FS_AddElement
  <2> QED
    BY <1>1, <1>8, <2>1, <2>2 DEF SoundTable, SoundHeap
<1> DEFINE L2 == Linked(t2)
<1>11. /\ L2 \in SUBSET (D \union {new})
       /\ \A b \in Bucket : t2.bucket[b] # Null => t2.bucket[b] \in L2
       /\ \A n \in L2, l \in Level : N2(n, l) # Null => N2(n, l) \in L2
       /\ \A S \in SUBSET (D \union {new}) :
               /\ \A b \in Bucket : t2.bucket[b] # Null => t2.bucket[b] \in S
               /\ \A n \in S, l \in Level : N2(n, l) # Null => N2(n, l) \in S
               => L2 \subseteq S
  BY <1>1, <1>10, LinkedFacts DEF N2
<1> HIDE DEF L2
<1>12. L2 \subseteq L \union {new}
  <2> DEFINE S == L \union {new}
  <2>1. S \in SUBSET (D \union {new})
    BY <1>4
  <2>2. \A b \in Bucket : t2.bucket[b] # Null => t2.bucket[b] \in S
    BY <1>2, <1>4
  <2>3. \A n \in S, l \in Level : N2(n, l) # Null => N2(n, l) \in S
    BY <1>2, <1>4
  <2> HIDE DEF S
  <2>4. L2 \subseteq S
    BY <1>11, <2>1, <2>2, <2>3
  <2> QED
    BY <2>4 DEF S
<1>13. L \subseteq L2
  <2> DEFINE S == L2 \ {new}
  <2>1. S \in SUBSET D
    BY <1>11
  <2>2. \A b \in Bucket : t.bucket[b] # Null => t.bucket[b] \in S
    <3> SUFFICES ASSUME NEW b \in Bucket, t.bucket[b] # Null PROVE t.bucket[b] \in S
      OBVIOUS
    <3>1. t2.bucket[b] = t.bucket[b] /\ t.bucket[b] \in D
      BY <1>2, <1>3, <1>4
    <3>2. new \notin D
      BY DEF D
    <3> QED
      BY <1>11, <3>1, <3>2
  <2>3. \A n \in S, l \in Level : N(n, l) # Null => N(n, l) \in S
    <3> SUFFICES ASSUME NEW n \in S, NEW l \in Level, N(n, l) # Null PROVE N(n, l) \in S
      OBVIOUS
    <3>1. n \in D /\ n \in L2
      BY <2>1
    <3>2. N(n, l) \in D /\ new \notin D
      BY <1>5, <3>1 DEF D
    <3>3. ~(n = prev /\ l = level)
      <4> SUFFICES ASSUME n = prev, l = level PROVE FALSE
        OBVIOUS
      <4>1. level # 0 /\ N(prev, level) # Null
        BY Levels
      <4> QED
        BY <1>3, <4>1
    <3>4. N2(n, l) = N(n, l)
      BY <1>2, <3>1, <3>3
    <3> QED
      BY <1>11, <3>1, <3>2, <3>4
  <2> HIDE DEF S
  <2>4. L \subseteq S
    BY <1>4, <2>1, <2>2, <2>3
  <2> QED
    BY <2>4 DEF S
<1>14. new \in L2
  <2>1. CASE level = 0
    <3>1. t2.bucket[home] = new /\ new # Null
      BY <1>2, <1>5, <1>6, <2>1
    <3> QED
      BY <1>6, <1>11, <3>1
  <2>2. CASE level # 0
    <3>1. prev \in L2 /\ N2(prev, level) = new /\ new # Null
      BY <1>2, <1>3, <1>4, <1>5, <1>7, <1>13, <2>2
    <3> QED
      BY <1>7, <1>11, <2>2, <3>1
  <2> QED
    BY <2>1, <2>2
<1>15. L2 = L \union {new} /\ new \notin L /\ new \notin D
  BY <1>4, <1>12, <1>13, <1>14, SMTT(30) DEF D
<1> DEFINE r == [n \in L2 |-> IF n = new THEN level ELSE rank[n]]
<1>16. /\ \A n \in L : rank[n] \in 0 .. 4
       /\ \A b \in Bucket : t.bucket[b] # Null =>
              rank[t.bucket[b]] = 0 /\ BucketOf[NameOf[H(t.bucket[b]).func]] = b
       /\ \A n \in L, l \in Level : N(n, l) # Null => rank[n] <= l /\ rank[N(n, l)] = l
       /\ \A m, n \in L, l \in Level : N(m, l) = N(n, l) /\ N(m, l) # Null => m = n
       /\ \A m, n \in L, l \in 0 .. 4 : rank[m] <= l /\ rank[n] <= l /\ Same(l, H(m), H(n)) => m = n
  BY DEF Ranked, L, N, H
<1>17. r \in [L2 -> 0 .. 4] /\ r[new] = level /\ \A n \in L : r[n] = rank[n]
  BY <1>15, <1>16
<1> HIDE DEF r
<1>18. ASSUME NEW b \in Bucket, t2.bucket[b] # Null
       PROVE  r[t2.bucket[b]] = 0 /\ BucketOf[NameOf[H2(t2.bucket[b]).func]] = b
  <2>1. CASE level = 0 /\ b = home
    BY <1>2, <1>17, <2>1 DEF home
  <2>2. CASE ~(level = 0 /\ b = home)
    <3>1. t2.bucket[b] = t.bucket[b] /\ t.bucket[b] \in L /\ t.bucket[b] \in D
      BY <1>2, <1>4, <1>18, <2>2
    <3> QED
      BY <1>2, <1>16, <1>17, <1>18, <3>1
  <2> QED
    BY <2>1, <2>2
<1>19. ASSUME NEW n \in L2, NEW l \in Level, N2(n, l) # Null
       PROVE  r[n] <= l /\ r[N2(n, l)] = l
  <2>1. n \in L /\ n \in D
    BY <1>2, <1>4, <1>15, <1>19
  <2>2. CASE n = prev /\ l = level
    BY <1>2, <1>3, <1>17, <2>1, <2>2, Levels
  <2>3. CASE ~(n = prev /\ l = level)
    <3>1. N2(n, l) = N(n, l) /\ N(n, l) \in L
      BY <1>2, <1>4, <1>19, <2>1, <2>3
    <3> QED
      BY <1>16, <1>17, <1>19, <2>1, <3>1
  <2> QED
    BY <2>2, <2>3
<1>20. ASSUME NEW m \in L2, NEW n \in L2, NEW l \in Level, N2(m, l) = N2(n, l), N2(m, l) # Null
       PROVE  m = n
  <2>1. m \in L /\ m \in D /\ n \in L /\ n \in D
    BY <1>2, <1>4, <1>15, <1>20
  <2>2. \A k \in {m, n} : N2(k, l) = new <=> k = prev /\ l = level
    <3>1. N(m, l) # new /\ N(n, l) # new
      BY <1>5, <1>15, <2>1
    <3> QED
      BY <1>2, <2>1, <3>1
  <2>3. CASE N2(m, l) = new
    BY <1>20, <2>2, <2>3
  <2>4. CASE N2(m, l) # new
    <3>1. N2(m, l) = N(m, l) /\ N2(n, l) = N(n, l)
      BY <1>2, <1>20, <2>1, <2>4
    <3>2. N(m, l) = N(n, l) /\ N(m, l) # Null
      BY <1>20, <3>1
    <3> QED
      BY <1>16, <2>1, <3>2
  <2> QED
    BY <2>3, <2>4
<1>21. ASSUME NEW m \in L2, NEW n \in L2, NEW l \in 0 .. 4, r[m] <= l, r[n] <= l, Same(l, H2(m), H2(n))
       PROVE  m = n
  <2>1. ASSUME NEW x \in L, level <= l, Same(l, H(x), hook) PROVE FALSE
    BY <1>3, <2>1, SameFacts
  <2>2. CASE m = new /\ n # new
    <3>1. n \in L /\ n \in D /\ level <= l /\ Same(l, H(n), hook)
      BY <1>2, <1>4, <1>15, <1>17, <1>21, <2>2, SameFacts
    <3> QED
      BY <2>1, <3>1
  <2>3. CASE n = new /\ m # new
    <3>1. m \in L /\ m \in D /\ level <= l /\ Same(l, H(m), hook)
      BY <1>2, <1>4, <1>15, <1>17, <1>21, <2>3, SameFacts
    <3> QED
      BY <2>1, <3>1
  <2>4. CASE m # new /\ n # new
    BY <1>2, <1>4, <1>15, <1>16, <1>17, <1>21, <2>4, SMTT(30)
  <2> QED
    BY <2>2, <2>3, <2>4
<1>22. Ranked(t2, r)
  BY <1>17, <1>18, <1>19, <1>20, <1>21 DEF Ranked, L2, N2, H2
<1> QED
  BY <1>10, <1>15, <1>22 DEF L, L2

LEMMA MissAtEnd ==
  ASSUME NEW t, SoundTable(t), NEW rank, Ranked(t, rank), NEW hook, NEW l \in Level, NEW path,
         Searched(t, rank, hook, l, path), ~Found(t, path, l, hook)
  PROVE  MissingAfter(t, rank, hook, Last(path), l)
<1>1. Last(path) \in Linked(t) /\ rank[Last(path)] <= l /\ Same(l - 1, t.heap[Last(path)].hook, hook)
  BY SearchedFacts
<1>2. IsTrail(t.heap, path[1], l, hook, path)
  BY DEF Searched, Traced
<1>3. t.heap[Last(path)].next[l] = Null
  <2>1. Last(path) = path[Len(path)]
    BY <1>2, LastOfTrail
  <2>2. Matches(l, t.heap[Last(path)].hook, hook) \/ t.heap[Last(path)].next[l] = Null
    BY <1>2, <2>1 DEF IsTrail
  <2> QED
    BY <2>2 DEF Found
<1>4. \A x \in Linked(t) : ~Same(l, t.heap[x].hook, hook)
  BY DEF Searched
<1>5. l # 0
  BY Levels
<1> QED
  BY <1>1, <1>3, <1>4, <1>5 DEF MissingAfter

(***************************************************************************)
(* What add_hook does: nothing to a table that has the hook, and otherwise *)
(* it lengthens the list that the hook is missing from.                    *)
(***************************************************************************)
LEMMA AddHookStep ==
  ASSUME NEW t, SoundTable(t), NEW rank, Ranked(t, rank), NEW hook \in Hook,
         NEW new \in Node, new \notin DOMAIN t.heap
  PROVE  LET t2 == AddHook(t, hook, new).table
         IN  \/ t2 = t /\ hook \in Registered(t)
             \/ \E prev : \E level \in 0 .. 4 :
                   Lengthened(t, t2, hook, new, prev, level) /\ MissingAfter(t, rank, hook, prev, level)
<1> DEFINE t2 == AddHook(t, hook, new).table
           paths == Search(t, hook, 4)
           l == Len(paths)
           lengthens(prev, level) ==
               Lengthened(t, t2, hook, new, prev, level) /\ MissingAfter(t, rank, hook, prev, level)
<1>1. SoundTable(t) /\ hook.func \in Func
  BY DEF Hook
<1>2. Ranked(t, rank)
  OBVIOUS
<1>3. t2 = IF HeadOf(t, hook) = Null THEN InsertFirst(t, hook, new)
           ELSE IF Found(t, Last(paths), l, hook) THEN t
           ELSE Insert(t, hook, new, Last(Last(paths)), l)
  BY DEF AddHook
<1> HIDE DEF t2
<1>4. ASSUME NEW prev, NEW level \in 0 .. 4, Lengthened(t, t2, hook, new, prev, level),
             MissingAfter(t, rank, hook, prev, level)
      PROVE  \E p : \E k \in 0 .. 4 : lengthens(p, k)
  BY <1>4
<1> HIDE DEF lengthens
<1>5. ASSUME HeadOf(t, hook) = Null
      PROVE (t2 = t /\ hook \in Registered(t)) \/ \E p : \E k \in 0 .. 4 : lengthens(p, k)
  <2>1. Lengthened(t, t2, hook, new, Null, 0)
    BY <1>1, <1>3, <1>5, InsertFirstLengthens
  <2>2. MissingAfter(t, rank, hook, Null, 0)
    BY <1>1, <1>2, <1>5, Heads DEF MissingAfter
  <2>3. 0 \in 0 .. 4
    OBVIOUS
  <2> QED
    BY <1>4, <2>1, <2>2, <2>3
<1>6. ASSUME HeadOf(t, hook) # Null
      PROVE (t2 = t /\ hook \in Registered(t)) \/ \E p : \E k \in 0 .. 4 : lengthens(p, k)
  <2>1. Descends(t, rank, hook, 4, paths)
    <3>1. 4 \in 1 .. 4
      OBVIOUS
    <3> QED
      BY <1>1, <1>2, <1>6, <3>1, SearchDescends
  <2> HIDE DEF paths
  <2>2. l \in 1 .. 4 /\ l \in 0 .. 4 /\ l \in Level
    BY <2>1, Levels DEF Descends
  <2>3. Searched(t, rank, hook, l, Last(paths))
    BY <2>1, <2>2 DEF Descends
  <2>4. CASE Found(t, Last(paths), l, hook)
    <3>1. t2 = t
      BY <1>3, <1>6, <2>4
    <3>2. l = 4
      BY <2>1, <2>2, <2>4 DEF Descends
    <3>3. HasHook(t, hook)
      BY <1>6, <2>4, <3>2 DEF HasHook, IsFound, paths
    <3>4. hook \in Registered(t)
      BY <1>1, <1>2, <3>3, HasHookIsExact
    <3> QED
      BY <3>1, <3>4
  <2>5. CASE ~Found(t, Last(paths), l, hook)
    <3>1. MissingAfter(t, rank, hook, Last(Last(paths)), l)
      BY <1>1, <1>2, <2>2, <2>3, <2>5, MissAtEnd
    <3>2. Last(Last(paths)) \in DOMAIN t.heap
      BY <1>1, <2>2, <2>3, SearchedFacts, LinkedFacts
    <3>3. t2 = Insert(t, hook, new, Last(Last(paths)), l)
      BY <1>3, <1>6, <2>5
    <3>4. Lengthened(t, t2, hook, new, Last(Last(paths)), l)
      <4> HIDE DEF l
      <4> QED
        BY <1>1, <2>2, <3>2, <3>3, InsertLengthens
    <3> QED
      BY <1>4, <2>2, <3>1, <3>4
  <2> QED
    BY <2>4, <2>5
<1> QED
  BY <1>5, <1>6 DEF t2, lengthens

(***************************************************************************)
(* add_hook keeps the order and adds exactly its hook.                     *)
(***************************************************************************)
THEOREM AddHookFacts ==
  ASSUME NEW t, InOrder(t), NEW hook \in Hook, NEW new \in Node, new \notin DOMAIN t.heap
  PROVE  LET t2 == AddHook(t, hook, new).table
         IN  /\ InOrder(t2)
             /\ DOMAIN t.heap \subseteq DOMAIN t2.heap
             /\ \A n \in DOMAIN t.heap : t2.heap[n].hook = t.heap[n].hook
             /\ Registered(t2) = Registered(t) \union {hook}
<1> DEFINE t2 == AddHook(t, hook, new).table
<1>1. SoundTable(t)
  BY DEF InOrder
<1>2. PICK rank : Ranked(t, rank)
  BY DEF InOrder
<1>3. \/ t2 = t /\ hook \in Registered(t)
      \/ \E prev : \E level \in 0 .. 4 :
            Lengthened(t, t2, hook, new, prev, level) /\ MissingAfter(t, rank, hook, prev, level)
  BY <1>1, <1>2, AddHookStep
<1> HIDE DEF t2
<1>4. ASSUME NEW prev, NEW level \in 0 .. 4, Lengthened(t, t2, hook, new, prev, level),
             MissingAfter(t, rank, hook, prev, level)
      PROVE  /\ InOrder(t2)
             /\ DOMAIN t.heap \subseteq DOMAIN t2.heap
             /\ \A n \in DOMAIN t.heap : t2.heap[n].hook = t.heap[n].hook
             /\ Registered(t2) = Registered(t) \union {hook}
  <2>1. SoundTable(t2) /\ Linked(t2) = Linked(t) \union {new} /\ \E r : Ranked(t2, r)
    BY <1>1, <1>2, <1>4, LengthenedIsInOrder
  <2>2. /\ DOMAIN t.heap \subseteq DOMAIN t2.heap
        /\ \A n \in DOMAIN t.heap : t2.heap[n].hook = t.heap[n].hook
        /\ t2.heap[new].hook = hook
    BY <1>4 DEF Lengthened
  <2>3. Linked(t) \in SUBSET DOMAIN t.heap
    BY <1>1, LinkedFacts
  <2>4. Registered(t2) = Registered(t) \union {hook}
    BY <2>1, <2>2, <2>3 DEF Registered
  <2> QED
    BY <2>1, <2>2, <2>4 DEF InOrder
<1>5. CASE t2 = t /\ hook \in Registered(t)
  BY <1>5 DEF t2
<1> QED
  BY <1>3, <1>4, <1>5 DEF t2

(***************************************************************************)
(* A heap whose successors of n were promoted from the levels below the    *)
(* level bottom: the lowest one, h, has taken over n's links from bottom   *)
(* to its own level j, and n links to h in their place.                    *)
(***************************************************************************)
PromotedBelow(heap, heap2, n, h, j, bottom) ==
    /\ DOMAIN heap2 = DOMAIN heap
    /\ Typed(heap2)
    /\ \A x \in DOMAIN heap : heap2[x].hook = heap[x].hook
    /\ j \in bottom .. 4 /\ h = heap[n].next[j]
    /\ \A k \in Level : k > j => heap[n].next[k] = Null
    /\ h = Null => j = bottom
    /\ \A x \in DOMAIN heap, k \in Level :
          heap2[x].next[k] =
              IF x = n /\ bottom <= k /\ k < j THEN h
              ELSE IF x = h /\ bottom <= k /\ k < j THEN heap[n].next[k]
              ELSE heap[x].next[k]

LEMMA PromotedNone ==
  ASSUME NEW heap, Typed(heap), NEW n \in DOMAIN heap
  PROVE  PromotedBelow(heap, heap, n, heap[n].next[4], 4, 4)
<1>1. \A k \in Level : ~(k > 4) /\ ~(4 <= k /\ k < 4)
  BY Levels
<1>2. 4 \in 4 .. 4
  OBVIOUS
<1> QED
  BY <1>1, <1>2 DEF PromotedBelow

LEMMA PromotedMore ==
  ASSUME NEW heap, Typed(heap), NEW n \in DOMAIN heap, \A k \in Level : heap[n].next[k] # n,
         NEW heap2, NEW h, NEW j, NEW bottom \in 2 .. 4, PromotedBelow(heap, heap2, n, h, j, bottom)
  PROVE  \E h3, j3 : PromotedBelow(heap, Promote(heap2, n, bottom), n, h3, j3, bottom - 1)
<1> DEFINE D == DOMAIN heap
           N(x, k) == heap[x].next[k]
           N2(x, k) == heap2[x].next[k]
           heap3 == Promote(heap2, n, bottom)
           N3(x, k) == heap3[x].next[k]
<1>1. /\ DOMAIN heap2 = D /\ Typed(heap2) /\ j \in bottom .. 4 /\ j \in Level /\ h = N(n, j)
      /\ \A x \in D : heap2[x].hook = heap[x].hook
      /\ \A k \in Level : k > j => N(n, k) = Null
      /\ h = Null => j = bottom
      /\ \A x \in D, k \in Level :
            N2(x, k) = IF x = n /\ bottom <= k /\ k < j THEN h
                       ELSE IF x = h /\ bottom <= k /\ k < j THEN N(n, k) ELSE N(x, k)
  BY Levels DEF PromotedBelow
<1>2. Null \notin D /\ h \in D \union {Null} /\ h # n /\ \A x \in D, k \in Level : N(x, k) \in D \union {Null}
  BY <1>1, NodeTypes
<1>3. bottom \in Level /\ bottom - 1 \in Level /\ bottom - 1 \in 1 .. 4
  BY Levels
<1>4. N2(n, bottom) = h /\ N2(n, bottom - 1) = N(n, bottom - 1)
  <2>1. ~(bottom <= bottom - 1)
    OBVIOUS
  <2>2. bottom = j \/ (bottom <= bottom /\ bottom < j)
    BY <1>1
  <2> HIDE DEF N, N2
  <2> QED
    BY <1>1, <1>2, <1>3, <2>1, <2>2
<1>5. CASE h = Null
  <2>1. heap3 = heap2
    BY <1>4, <1>5 DEF Promote
  <2>2. j = bottom /\ \A k \in Level : ~(bottom <= k /\ k < j)
    BY <1>1, <1>5, Levels
  <2>3. \A x \in D, k \in Level : N2(x, k) = N(x, k)
    BY <1>1, <2>2
  <2>4. \A k \in Level : k > bottom - 1 => N(n, k) = Null
    <3>1. \A k \in Level : k > bottom - 1 => k = j \/ k > j
      BY <2>2, Levels
    <3> QED
      BY <1>1, <1>5, <3>1
  <2>5. \A k \in Level : ~(bottom - 1 <= k /\ k < bottom - 1)
    BY Levels
  <2>6. PromotedBelow(heap, heap2, n, N(n, bottom - 1), bottom - 1, bottom - 1)
    <3>1. bottom - 1 \in bottom - 1 .. 4
      OBVIOUS
    <3> QED
      BY <1>1, <2>3, <2>4, <2>5, <3>1 DEF PromotedBelow
  <2> QED
    BY <2>1, <2>6
<1>6. CASE h # Null
  <2>1. h \in D /\ n \in D /\ h # n
    BY <1>2, <1>6
  <2>2. heap3 = [heap2 EXCEPT ![h].next[bottom - 1] = N(n, bottom - 1), ![n].next[bottom - 1] = h]
    BY <1>4, <1>6 DEF Promote
  <2>3. \A x \in D : heap2[x] \in [hook : Hook, next : [Level -> D \union {Null}]]
    BY <1>1 DEF Typed, NodeContents
  <2> DEFINE lower == [heap2[h] EXCEPT !.next[bottom - 1] = N(n, bottom - 1)]
             upper == [heap2[n] EXCEPT !.next[bottom - 1] = h]
  <2>4. /\ lower \in [hook : Hook, next : [Level -> D \union {Null}]]
        /\ lower.hook = heap2[h].hook
        /\ \A k \in Level : lower.next[k] = IF k = bottom - 1 THEN N(n, bottom - 1) ELSE N2(h, k)
    <3>1. N(n, bottom - 1) \in D \union {Null}
      BY <1>2, <1>3
    <3> HIDE DEF N
    <3> QED
      BY <2>1, <2>3, <3>1
  <2>5. /\ upper \in [hook : Hook, next : [Level -> D \union {Null}]]
        /\ upper.hook = heap2[n].hook
        /\ \A k \in Level : upper.next[k] = IF k = bottom - 1 THEN h ELSE N2(n, k)
    BY <2>1, <2>3
  <2>6. /\ DOMAIN heap3 = D
        /\ \A x \in D : heap3[x] = IF x = n THEN upper ELSE IF x = h THEN lower ELSE heap2[x]
    BY <1>1, <2>1, <2>2
  <2> HIDE DEF lower, upper, heap3
  <2>7. Typed(heap3)
    <3>1. \A x \in D : heap3[x] \in NodeContents(D)
      BY <2>3, <2>4, <2>5, <2>6 DEF NodeContents
    <3>2. D \subseteq Node
      BY DEF Typed
    <3>3. heap3 = [x \in D |-> heap3[x]]
      BY <2>2, <1>1, Zenon DEF heap3, Typed
    <3> QED
      BY <2>6, <3>1, <3>2, <3>3 DEF Typed
  <2>8. \A x \in D : heap3[x].hook = heap[x].hook
    BY <1>1, <2>4, <2>5, <2>6
  <2>9. \A x \in D, k \in Level :
           N3(x, k) = IF k = bottom - 1 /\ x = n THEN h
                      ELSE IF k = bottom - 1 /\ x = h THEN N(n, k) ELSE N2(x, k)
    BY <2>1, <2>4, <2>5, <2>6
  <2>10. \A k \in Level : bottom - 1 <= k /\ k < j <=> k = bottom - 1 \/ (bottom <= k /\ k < j)
    BY <1>1, Levels
  <2>11. \A x \in D, k \in Level :
            N3(x, k) = IF x = n /\ bottom - 1 <= k /\ k < j THEN h
                       ELSE IF x = h /\ bottom - 1 <= k /\ k < j THEN N(n, k) ELSE N(x, k)
    <3> SUFFICES ASSUME NEW x \in D, NEW k \in Level
                 PROVE  N3(x, k) = IF x = n /\ bottom - 1 <= k /\ k < j THEN h
                            ELSE IF x = h /\ bottom - 1 <= k /\ k < j THEN N(n, k) ELSE N(x, k)
      OBVIOUS
    <3> HIDE DEF N, N2, N3
    <3>1. CASE k = bottom - 1
      <4>1. N3(x, k) = IF x = n THEN h ELSE IF x = h THEN N(n, k) ELSE N2(x, k)
        BY <2>9, <3>1
      <4>2. x # n /\ x # h => N2(x, k) = N(x, k)
        BY <1>1
      <4>3. bottom - 1 <= k /\ k < j
        BY <2>10, <3>1
      <4> QED
        BY <4>1, <4>2, <4>3
    <3>2. CASE k # bottom - 1
      BY <1>1, <2>9, <2>10, <3>2
    <3> QED
      BY <3>1, <3>2
  <2>12. j \in bottom - 1 .. 4
    BY <1>1
  <2>13. PromotedBelow(heap, heap3, n, h, j, bottom - 1)
    BY <1>1, <1>6, <2>6, <2>7, <2>8, <2>11, <2>12 DEF PromotedBelow
  <2> QED
    BY <2>13 DEF heap3
<1> QED
  BY <1>5, <1>6

(***************************************************************************)
(* The table without n: h takes its place, in the list of level top after  *)
(* prev, or (top 0) as the first node of the bucket.                       *)
(***************************************************************************)
Lowest(top) == IF top = 0 THEN 1 ELSE top

Unlinked(t, t2, n, h, j, prev, top) ==
    /\ t2 = [bucket |-> t2.bucket, heap |-> t2.heap]
    /\ DOMAIN t2.heap = DOMAIN t.heap
    /\ Typed(t2.heap)
    /\ \A x \in DOMAIN t.heap : t2.heap[x].hook = t.heap[x].hook
    /\ j \in Lowest(top) .. 4 /\ h = t.heap[n].next[j]
    /\ \A k \in Level : k > j => t.heap[n].next[k] = Null
    /\ h = Null => j = Lowest(top)
    /\ \A x \in DOMAIN t.heap, k \in Level :
          t2.heap[x].next[k] =
              IF x = n /\ Lowest(top) <= k /\ k < j THEN h
              ELSE IF x = h /\ Lowest(top) <= k /\ k < j THEN t.heap[n].next[k]
              ELSE IF x = prev /\ k = top THEN h
              ELSE t.heap[x].next[k]
    /\ t2.bucket \in [Bucket -> DOMAIN t2.heap \union {Null}]
    /\ \A b \in Bucket :
          t2.bucket[b] = IF top = 0 /\ b = BucketOf[NameOf[t.heap[n].hook.func]] THEN h ELSE t.bucket[b]

\* Where n is linked.
LinkedAfter(t, rank, n, prev, top) ==
    /\ n \in Linked(t) /\ rank[n] = top
    /\ IF top = 0 THEN HeadOf(t, t.heap[n].hook) = n
       ELSE prev \in Linked(t) /\ t.heap[prev].next[top] = n

LEMMA UnlinkedIsInOrder ==
  ASSUME NEW t, SoundTable(t), NEW rank, Ranked(t, rank), NEW n, NEW prev, NEW top \in 0 .. 4,
         LinkedAfter(t, rank, n, prev, top), NEW t2, NEW h, NEW j, Unlinked(t, t2, n, h, j, prev, top)
  PROVE  /\ SoundTable(t2)
         /\ Linked(t2) = Linked(t) \ {n}
         /\ \E r : Ranked(t2, r)
<1> DEFINE D == DOMAIN t.heap
           L == Linked(t)
           N(x, k) == t.heap[x].next[k]
           H(x) == t.heap[x].hook
           N2(x, k) == t2.heap[x].next[k]
           H2(x) == t2.heap[x].hook
           home == BucketOf[NameOf[t.heap[n].hook.func]]
           low == Lowest(top)
           moved(k) == low <= k /\ k < j
<1>1. /\ DOMAIN t2.heap = D /\ Typed(t2.heap)
      /\ t2 = [bucket |-> t2.bucket, heap |-> t2.heap]
      /\ t2.bucket \in [Bucket -> D \union {Null}]
  BY DEF Unlinked
<1>2. /\ \A x \in D : H2(x) = H(x)
      /\ \A x \in D, k \in Level :
            N2(x, k) = IF x = n /\ moved(k) THEN h
                       ELSE IF x = h /\ moved(k) THEN N(n, k)
                       ELSE IF x = prev /\ k = top THEN h
                       ELSE N(x, k)
      /\ \A b \in Bucket : t2.bucket[b] = IF top = 0 /\ b = home THEN h ELSE t.bucket[b]
  BY DEF Unlinked
<1>3. /\ n \in L /\ rank[n] = top
      /\ top = 0 => t.bucket[home] = n
      /\ top # 0 => prev \in L /\ N(prev, top) = n
  BY DEF LinkedAfter, HeadOf
<1>4. /\ L \in SUBSET D
      /\ \A b \in Bucket : t.bucket[b] # Null => t.bucket[b] \in L
      /\ \A x \in L, k \in Level : N(x, k) # Null => N(x, k) \in L
      /\ \A S \in SUBSET D :
               /\ \A b \in Bucket : t.bucket[b] # Null => t.bucket[b] \in S
               /\ \A x \in S, k \in Level : N(x, k) # Null => N(x, k) \in S
               => L \subseteq S
  BY LinkedFacts
<1>5. /\ Typed(t.heap) /\ IsFiniteSet(D) /\ Acyclic(t.heap) /\ Layered(t.heap)
      /\ Null \notin D
      /\ \A x \in D, k \in Level : N(x, k) \in D \union {Null}
  BY NodeTypes, SMTT(30) DEF SoundTable, SoundHeap
<1>6. /\ \A x \in L : rank[x] \in 0 .. 4
      /\ \A b \in Bucket : t.bucket[b] # Null =>
             rank[t.bucket[b]] = 0 /\ BucketOf[NameOf[H(t.bucket[b]).func]] = b
      /\ \A x \in L, k \in Level : N(x, k) # Null => rank[x] <= k /\ rank[N(x, k)] = k
      /\ \A x, y \in L, k \in Level : N(x, k) = N(y, k) /\ N(x, k) # Null => x = y
      /\ \A x, y \in L, k \in 0 .. 4 : rank[x] <= k /\ rank[y] <= k /\ Same(k, H(x), H(y)) => x = y
  BY DEF Ranked
<1>7. \A x \in D, k \in Level : N(x, k) # Null => Same(k - 1, H(x), H(N(x, k)))
  BY <1>5 DEF Layered
<1>8. home \in Bucket
  BY <1>3, <1>4, NodeTypes, TableAssumption DEF SoundTable, SoundHeap, Hook
<1>9. /\ low \in 1 .. 4 /\ low \in Level /\ (top # 0 => low = top /\ top \in Level) /\ top <= low
      /\ (top = 0 => low = 1)
      /\ Level = 1 .. 4
  BY Levels DEF Lowest
<1>10. /\ j \in low .. 4 /\ j \in Level /\ h = N(n, j)
       /\ \A k \in Level : k > j => N(n, k) = Null
       /\ h = Null => j = low
  BY <1>9 DEF Unlinked
<1>11. \A x \in D, k \in Level : N(x, k) # x
  <2> SUFFICES ASSUME NEW x \in D, NEW k \in Level, N(x, k) = x PROVE FALSE
    OBVIOUS
  <2>1. {x} \in SUBSET D /\ {x} # {}
    OBVIOUS
  <2>2. PICK y \in {x} : \A l \in Level : t.heap[y].next[l] \notin {x}
    <3> HIDE DEF D
    <3> QED
      BY <1>5, <2>1 DEF Acyclic, D
  <2> QED
    BY <2>2
<1> HIDE DEF D, L, N, H, N2, H2, home, low, moved
\* n is in no list above its own, and h heads all those in between.
<1>12. \A k \in Level : N(n, k) # Null => low <= k /\ k <= j
  <2> SUFFICES ASSUME NEW k \in Level, N(n, k) # Null PROVE low <= k /\ k <= j
    OBVIOUS
  <2>1. rank[n] <= k
    BY <1>3, <1>6
  <2> QED
    BY <1>3, <1>9, <1>10, <2>1
<1>13. ASSUME h # Null
       PROVE  /\ h \in L /\ h \in D /\ h # n /\ rank[h] = j /\ Same(j - 1, H(n), H(h))
              /\ (top # 0 => h # prev)
              /\ \A k \in Level : N(h, k) # Null => j <= k
  <2>1. h \in L /\ h \in D /\ h # n /\ rank[h] = j /\ Same(j - 1, H(n), H(h))
    BY <1>3, <1>4, <1>6, <1>7, <1>10, <1>11, <1>13
  <2>2. \A k \in Level : N(h, k) # Null => j <= k
    BY <1>6, <2>1
  <2>3. ASSUME top # 0, h = prev PROVE FALSE
    <3>1. {n, h} \in SUBSET D /\ {n, h} # {} /\ top \in Level /\ N(h, top) = n /\ N(n, j) = h
      BY <1>3, <1>4, <1>9, <1>10, <2>1, <2>3
    <3>2. PICK x \in {n, h} : \A k \in Level : N(x, k) \notin {n, h}
      BY <1>5, <3>1 DEF Acyclic, D, N
    <3> QED
      BY <1>10, <3>1, <3>2
  <2> QED
    BY <2>1, <2>2, <2>3
<1>14. \A k \in Level : moved(k) => h # Null /\ N(n, k) # h /\ k # j
  <2> SUFFICES ASSUME NEW k \in Level, moved(k) PROVE h # Null /\ N(n, k) # h /\ k # j
    OBVIOUS
  <2>1. h # Null /\ k # j
    BY <1>9, <1>10 DEF moved
  <2>2. N(n, k) # h
    <3> SUFFICES ASSUME N(n, k) = h PROVE FALSE
      OBVIOUS
    <3>1. rank[h] = k
      BY <1>3, <1>6, <2>1
    <3> QED
      BY <1>13, <2>1, <3>1
  <2> QED
    BY <2>1, <2>2
\* The links of each node.
<1>15. /\ \A k \in Level : N2(n, k) = IF moved(k) THEN h ELSE N(n, k)
       /\ h # Null => \A k \in Level : N2(h, k) = IF moved(k) THEN N(n, k) ELSE N(h, k)
       /\ top # 0 => \A k \in Level : N2(prev, k) = IF k = top THEN h ELSE N(prev, k)
       /\ \A x \in D, k \in Level : x # n /\ x # h /\ ~(top # 0 /\ x = prev) => N2(x, k) = N(x, k)
  <2>1. top # 0 => prev # n /\ prev \in D
    BY <1>3, <1>4, <1>9, <1>11
  <2>2. \A k \in Level : k = top => top # 0
    BY <1>9
  <2>3. \A k \in Level : N2(n, k) = IF moved(k) THEN h ELSE N(n, k)
    BY <1>2, <1>3, <1>4, <1>11, <1>14, <2>1, <2>2
  <2>4. h # Null => \A k \in Level : N2(h, k) = IF moved(k) THEN N(n, k) ELSE N(h, k)
    BY <1>2, <1>13, <2>2
  <2>5. top # 0 => \A k \in Level : N2(prev, k) = IF k = top THEN h ELSE N(prev, k)
    BY <1>2, <1>13, <1>14, <2>1
  <2>6. \A x \in D, k \in Level : x # n /\ x # h /\ ~(top # 0 /\ x = prev) => N2(x, k) = N(x, k)
    BY <1>2, <2>2
  <2> QED
    BY <2>3, <2>4, <2>5, <2>6
<1> DEFINE L1 == L \ {n}
<1>16. /\ L1 \in SUBSET D /\ n \notin L1 /\ n \in D /\ L = L1 \union {n}
       /\ h # Null => h \in L1
       /\ \A k \in Level : N(n, k) # Null => N(n, k) \in L1
       /\ top # 0 => prev \in L1 /\ prev \in D
  BY <1>3, <1>4, <1>9, <1>11, <1>13
<1> HIDE DEF L1
<1>17. \A x \in L1, k \in Level : N(x, k) = n => top # 0 /\ x = prev /\ k = top
  <2> SUFFICES ASSUME NEW x \in L1, NEW k \in Level, N(x, k) = n PROVE top # 0 /\ x = prev /\ k = top
    OBVIOUS
  <2>1. n # Null /\ x \in L
    BY <1>5, <1>16
  <2>2. rank[n] = k /\ k # 0
    BY <1>6, <1>9, <2>1
  <2> QED
    BY <1>3, <1>6, <1>9, <2>1, <2>2
<1>18. \A x \in L, k \in Level : N2(x, k) # Null => N2(x, k) \in L1
  <2> SUFFICES ASSUME NEW x \in L, NEW k \in Level, N2(x, k) # Null PROVE N2(x, k) \in L1
    OBVIOUS
  <2>1. CASE x = n
    BY <1>14, <1>15, <1>16, <2>1
  <2>2. CASE x # n
    <3>1. x \in L1 /\ x \in D
      BY <1>16, <2>2
    <3>2. CASE N2(x, k) = N(x, k)
      <4>1. N(x, k) \in L
        BY <1>4, <3>2
      <4>2. N(x, k) # n
        <5> SUFFICES ASSUME N(x, k) = n PROVE FALSE
          OBVIOUS
        <5>1. top # 0 /\ x = prev /\ k = top
          BY <1>17, <3>1
        <5>2. N2(x, k) = h
          BY <1>15, <5>1
        <5> QED
          BY <1>13, <3>2, <5>2
      <4> QED
        BY <1>16, <3>2, <4>1, <4>2
    <3>3. CASE N2(x, k) # N(x, k)
      <4>1. N2(x, k) = h \/ N2(x, k) = N(n, k)
        <5>1. CASE x = h
          <6>1. h # Null
            BY <1>5, <3>1, <5>1
          <6> QED
            BY <1>15, <3>3, <5>1, <6>1
        <5>2. CASE top # 0 /\ x = prev
          BY <1>15, <3>3, <5>2
        <5>3. CASE x # h /\ ~(top # 0 /\ x = prev)
          BY <1>15, <2>2, <3>1, <3>3, <5>3
        <5> QED
          BY <5>1, <5>2, <5>3
      <4> QED
        BY <1>16, <4>1
    <3> QED
      BY <3>2, <3>3
  <2> QED
    BY <2>1, <2>2
<1>19. Acyclic(t2.heap)
  <2> SUFFICES ASSUME NEW S \in SUBSET D, S # {}
               PROVE  \E x \in S : \A k \in Level : N2(x, k) \notin S
    BY <1>1 DEF Acyclic, N2
  <2> DEFINE S1 == S \intersect L1
  <2>1. CASE S1 = {}
    <3>1. CASE n \in S
      <4>1. \A k \in Level : N2(n, k) \notin S
        BY <1>5, <1>16, <1>18, <2>1
      <4> QED
        BY <3>1, <4>1
    <3>2. CASE n \notin S
      <4>1. PICK x \in S : \A k \in Level : N(x, k) \notin S
        BY <1>5 DEF Acyclic, N, D
      <4>2. x \in D /\ x # n /\ x \notin L1 /\ x # Null
        BY <1>5, <2>1, <3>2
      <4>3. \A k \in Level : N2(x, k) = N(x, k)
        BY <1>15, <1>16, <4>2
      <4> QED
        BY <4>1, <4>3
    <3> QED
      BY <3>1, <3>2
  <2>2. CASE S1 # {}
    <3> SUFFICES \E x \in S1 : \A k \in Level : N2(x, k) \notin S1
      <4>1. \A x \in S1, k \in Level : N2(x, k) \notin S1 => N2(x, k) \notin S
        BY <1>5, <1>16, <1>18
      <4> QED
        BY <4>1
    <3>1. /\ S1 \in SUBSET D /\ S1 \subseteq L1 /\ n \notin S1 /\ n \in D
          /\ \A T \in SUBSET D : T # {} => \E x \in T : \A k \in Level : N(x, k) \notin T
      BY <1>5, <1>16 DEF Acyclic, N, D
    <3> HIDE DEF S1
    <3>2. ASSUME NEW x \in S1, x # h, top # 0 => x # prev, NEW T, \A k \in Level : N(x, k) \notin T,
                 S1 \ {h} \subseteq T
          PROVE  \A k \in Level : N2(x, k) \notin S1
      <4> SUFFICES ASSUME NEW k \in Level, N2(x, k) \in S1 PROVE FALSE
        OBVIOUS
      <4>1. x # n /\ x \in L /\ x \in D
        BY <1>16, <3>1
      <4>2. N2(x, k) = N(x, k)
        BY <1>15, <3>2, <4>1
      <4>3. N(x, k) = h
        BY <3>2, <4>2
      <4>4. h # Null /\ N(n, j) = h
        BY <1>5, <1>10, <3>1, <4>2, <4>3
      <4>5. k = j
        BY <1>6, <1>13, <4>1, <4>3, <4>4
      <4> QED
        BY <1>3, <1>6, <1>10, <4>1, <4>3, <4>4, <4>5
    <3>3. CASE h \notin S1
      <4>1. PICK x \in S1 : \A k \in Level : N(x, k) \notin S1
        BY <2>2, <3>1
      <4>2. CASE top # 0 /\ x = prev
        <5>1. \A k \in Level : N2(x, k) = h \/ N2(x, k) = N(x, k)
          BY <1>15, <4>2
        <5> QED
          BY <3>3, <4>1, <5>1
      <4>3. CASE ~(top # 0 /\ x = prev)
        <5>1. x # h /\ (top # 0 => x # prev) /\ S1 \ {h} \subseteq S1
          BY <3>3, <4>3
        <5> QED
          BY <3>2, <4>1, <5>1
      <4> QED
        BY <4>2, <4>3
    <3>4. CASE h \in S1
      <4>1. h # Null /\ N(n, j) = h /\ h # n
        BY <1>5, <1>10, <1>13, <3>1, <3>4
      <4>2. PICK x \in S1 \union {n} : \A k \in Level : N(x, k) \notin S1 \union {n}
        <5>1. S1 \union {n} \in SUBSET D /\ S1 \union {n} # {}
          BY <3>1
        <5> QED
          BY <3>1, <5>1
      <4>3. x \in S1 /\ (top # 0 => x # prev)
        BY <1>3, <1>9, <1>10, <3>4, <4>1, <4>2
      <4>4. CASE x # h
        <5>1. S1 \ {h} \subseteq S1 \union {n}
          OBVIOUS
        <5> QED
          BY <3>2, <4>2, <4>3, <4>4, <5>1
      <4>5. CASE x = h /\ \A k \in Level : moved(k) => N(n, k) \notin S1
        <5>1. \A k \in Level : N2(h, k) = N(h, k) \/ (moved(k) /\ N2(h, k) = N(n, k))
          BY <1>15, <4>1
        <5> QED
          BY <3>4, <4>2, <4>5, <5>1
      <4>6. CASE x = h /\ \E k \in Level : moved(k) /\ N(n, k) \in S1
        <5> DEFINE T == (S1 \ {h}) \union {n}
        <5>1. PICK i \in Level : moved(i) /\ N(n, i) \in S1
          BY <4>6
        <5>2. N(n, i) \in T
          BY <1>14, <5>1
        <5>3. PICK y \in T : \A k \in Level : N(y, k) \notin T
          <6>1. T \in SUBSET D /\ T # {}
            BY <3>1
          <6> HIDE DEF T
          <6> QED
            BY <3>1, <6>1
        <5>4. y # n /\ y \in S1 /\ y # h
          BY <5>2, <5>3
        <5>5. top # 0 => y # prev
          BY <1>3, <1>9, <5>3
        <5>6. S1 \ {h} \subseteq T
          OBVIOUS
        <5> HIDE DEF T
        <5>7. \A k \in Level : N2(y, k) \notin S1
          BY <3>2, <5>3, <5>4, <5>5, <5>6
        <5> QED
          BY <5>4, <5>7
      <4> QED
        BY <4>3, <4>4, <4>5, <4>6
    <3> QED
      BY <3>3, <3>4
  <2> QED
    BY <2>1, <2>2
<1>20. ASSUME NEW x \in D, NEW k \in Level, N2(x, k) # Null
       PROVE  Same(k - 1, H2(x), H2(N2(x, k))) /\ N2(x, k) \in D
  <2>1. CASE x = n /\ moved(k)
    <3>1. N2(n, k) = h /\ h # Null /\ h \in D /\ Same(j - 1, H(n), H(h))
      BY <1>13, <1>14, <1>15, <2>1
    <3>2. j - 1 \in 0 .. 4 /\ k - 1 \in 0 .. 4 /\ k - 1 <= j - 1
      BY <1>9, <1>10, <2>1 DEF moved
    <3>3. Same(k - 1, H(n), H(h))
      BY <3>1, <3>2, SameFacts
    <3> QED
      BY <1>2, <2>1, <3>1, <3>3
  <2>2. CASE h # Null /\ x = h /\ moved(k)
    <3>1. N2(h, k) = N(n, k) /\ Same(j - 1, H(n), H(h)) /\ N(n, k) \in D /\ n \in D /\ h \in D
      BY <1>5, <1>13, <1>15, <1>16, <1>20, <2>2
    <3>2. j - 1 \in 0 .. 4 /\ k - 1 \in 0 .. 4 /\ k - 1 <= j - 1
      BY <1>9, <1>10, <2>2 DEF moved
    <3>3. Same(k - 1, H(h), H(n))
      BY <3>1, <3>2, SameFacts
    <3>4. Same(k - 1, H(n), H(N(n, k)))
      BY <1>7, <1>20, <2>2, <3>1
    <3>5. Same(k - 1, H(h), H(N(n, k)))
      BY <3>3, <3>4, SameFacts
    <3> QED
      BY <1>2, <2>2, <3>1, <3>5
  <2>3. CASE top # 0 /\ x = prev /\ k = top
    <3>1. N2(prev, top) = h /\ h # Null /\ h \in D /\ Same(j - 1, H(n), H(h)) /\ prev \in D /\ n \in D
      BY <1>13, <1>15, <1>16, <1>20, <2>3
    <3>2. j - 1 \in 0 .. 4 /\ top - 1 \in 0 .. 4 /\ top - 1 <= j - 1
      BY <1>9, <1>10, <2>3
    <3>3. Same(top - 1, H(n), H(h))
      BY <3>1, <3>2, SameFacts
    <3>4. Same(top - 1, H(prev), H(n))
      <4>1. N(prev, top) = n /\ n # Null /\ top \in Level
        BY <1>3, <1>5, <1>9, <2>3, <3>1
      <4> QED
        BY <1>7, <3>1, <4>1
    <3>5. Same(top - 1, H(prev), H(h))
      BY <3>3, <3>4, SameFacts
    <3> QED
      BY <1>2, <2>3, <3>1, <3>5
  <2>4. CASE N2(x, k) = N(x, k)
    <3>1. N(x, k) \in D /\ Same(k - 1, H(x), H(N(x, k)))
      BY <1>5, <1>7, <1>20, <2>4
    <3> QED
      BY <1>2, <2>4, <3>1
  <2>5. x = h => h # Null
    BY <1>5
  <2> QED
    BY <1>15, <2>1, <2>2, <2>3, <2>4, <2>5
<1>21. SoundTable(t2)
  <2>1. Layered(t2.heap)
    BY <1>1, <1>20 DEF Layered, N2, H2
  <2>2. IsFiniteSet(DOMAIN t2.heap)
    BY <1>1, <1>5
  <2> QED
    BY <1>1, <1>19, <2>1, <2>2 DEF SoundTable, SoundHeap
<1> DEFINE L2 == Linked(t2)
<1>22. /\ L2 \in SUBSET D
       /\ \A b \in Bucket : t2.bucket[b] # Null => t2.bucket[b] \in L2
       /\ \A x \in L2, k \in Level : N2(x, k) # Null => N2(x, k) \in L2
       /\ \A S \in SUBSET D :
               /\ \A b \in Bucket : t2.bucket[b] # Null => t2.bucket[b] \in S
               /\ \A x \in S, k \in Level : N2(x, k) # Null => N2(x, k) \in S
               => L2 \subseteq S
  BY <1>1, <1>21, LinkedFacts DEF N2
<1> HIDE DEF L2
\* A bucket's first node is n only if n has no other place.
<1>23. \A b \in Bucket : t.bucket[b] = n => top = 0 /\ b = home
  <2> SUFFICES ASSUME NEW b \in Bucket, t.bucket[b] = n PROVE top = 0 /\ b = home
    OBVIOUS
  <2>1. n # Null
    BY <1>5, <1>16
  <2> QED
    BY <1>3, <1>6, <2>1 DEF home, H
<1>24. L2 \subseteq L1
  <2>1. \A b \in Bucket : t2.bucket[b] # Null => t2.bucket[b] \in L1
    <3> SUFFICES ASSUME NEW b \in Bucket, t2.bucket[b] # Null PROVE t2.bucket[b] \in L1
      OBVIOUS
    <3>1. CASE top = 0 /\ b = home
      BY <1>2, <1>16, <3>1
    <3>2. CASE ~(top = 0 /\ b = home)
      <4>1. t2.bucket[b] = t.bucket[b] /\ t.bucket[b] # n /\ t.bucket[b] \in L
        BY <1>2, <1>4, <1>23, <3>2
      <4> QED
        BY <1>16, <4>1
    <3> QED
      BY <3>1, <3>2
  <2>2. \A x \in L1, k \in Level : N2(x, k) # Null => N2(x, k) \in L1
    BY <1>16, <1>18
  <2> QED
    BY <1>16, <1>22, <2>1, <2>2
\* Whoever reached n reaches h instead, and from h what n linked to.
<1>25. L1 \subseteq L2
  <2> DEFINE held == IF top = 0 THEN TRUE ELSE prev \in L2
             S == L2 \union (IF held THEN {n} ELSE {})
  <2>1. S \in SUBSET D
    BY <1>16, <1>22
  <2>2. held /\ h # Null => h \in L2
    <3> SUFFICES ASSUME held, h # Null PROVE h \in L2
      OBVIOUS
    <3>1. CASE top = 0
      BY <1>2, <1>8, <1>22, <3>1
    <3>2. CASE top # 0
      BY <1>9, <1>15, <1>22, <3>2
    <3> QED
      BY <3>1, <3>2
  <2>3. \A b \in Bucket : t.bucket[b] # Null => t.bucket[b] \in S
    <3> SUFFICES ASSUME NEW b \in Bucket, t.bucket[b] # Null PROVE t.bucket[b] \in S
      OBVIOUS
    <3>1. CASE t.bucket[b] = n
      BY <1>23, <3>1
    <3>2. CASE t.bucket[b] # n
      <4>1. ~(top = 0 /\ b = home)
        BY <1>3, <3>2
      <4>2. t2.bucket[b] = t.bucket[b]
        BY <1>2, <4>1
      <4> QED
        BY <1>22, <4>2
    <3> QED
      BY <3>1, <3>2
  <2>4. ASSUME NEW x \in S, NEW k \in Level, N(x, k) # Null PROVE N(x, k) \in S
    <3>1. CASE x = n /\ x \notin L2
      <4>1. held
        BY <3>1
      <4>2. low <= k /\ k <= j
        BY <1>12, <2>4, <3>1
      <4>3. CASE k = j
        BY <1>10, <2>2, <2>4, <3>1, <4>1, <4>3
      <4>4. CASE k # j
        <5>1. moved(k) /\ h # Null
          BY <1>9, <1>10, <1>14, <4>2, <4>4 DEF moved
        <5>2. N2(h, k) = N(n, k) /\ h \in L2
          BY <1>15, <2>2, <4>1, <5>1
        <5> QED
          BY <1>22, <2>4, <3>1, <5>2
      <4> QED
        BY <4>3, <4>4
    <3>2. CASE x \in L2
      <4>1. x \in L1 /\ x \in D /\ x # n /\ x \in L
        BY <1>16, <1>24, <3>2
      <4>2. CASE N(x, k) = n
        <5>1. top # 0 /\ x = prev
          BY <1>17, <4>1, <4>2
        <5> QED
          BY <3>2, <4>2, <5>1
      <4>3. CASE N(x, k) # n
        <5>1. top # 0 => ~(x = prev /\ k = top)
          BY <1>3, <4>3
        <5>2. x = h => ~moved(k)
          <6> SUFFICES ASSUME x = h, moved(k) PROVE FALSE
            OBVIOUS
          <6>1. j <= k
            BY <1>5, <1>13, <2>4, <4>1
          <6> QED
            BY <1>9, <1>10, <6>1 DEF moved
        <5>3. N2(x, k) = N(x, k)
          <6>1. CASE x = h
            <7>1. h # Null
              BY <1>5, <4>1, <6>1
            <7> QED
              BY <1>15, <5>2, <6>1, <7>1
          <6>2. CASE top # 0 /\ x = prev
            BY <1>15, <5>1, <6>2
          <6>3. CASE x # h /\ ~(top # 0 /\ x = prev)
            BY <1>15, <4>1, <6>3
          <6> QED
            BY <6>1, <6>2, <6>3
        <5> QED
          BY <1>22, <2>4, <3>2, <5>3
      <4> QED
        BY <4>2, <4>3
    <3> QED
      BY <3>1, <3>2
  <2>5. L \subseteq S
    <3> HIDE DEF S
    <3> QED
      BY <1>4, <2>1, <2>3, <2>4
  <2> QED
    BY <1>16, <2>5
<1>26. L2 = L1
  BY <1>24, <1>25
<1> DEFINE r == [x \in L1 |-> IF x = h THEN top ELSE rank[x]]
<1>27. /\ r \in [L1 -> 0 .. 4]
       /\ h # Null => r[h] = top
       /\ \A x \in L1 : x # h => r[x] = rank[x]
       /\ \A x \in L1 : x \in L /\ x \in D /\ x # n /\ x # Null /\ rank[x] \in 0 .. 4
  BY <1>5, <1>6, <1>16
<1> HIDE DEF r
<1>28. ASSUME NEW b \in Bucket, t2.bucket[b] # Null
       PROVE  r[t2.bucket[b]] = 0 /\ BucketOf[NameOf[H2(t2.bucket[b]).func]] = b
  <2>1. CASE top = 0 /\ b = home
    <3>1. t2.bucket[b] = h /\ h # Null /\ h \in D /\ r[h] = 0 /\ H2(h) = H(h)
      BY <1>2, <1>13, <1>27, <1>28, <2>1
    <3>2. Same(0, H(n), H(h))
      <4>1. j - 1 \in 0 .. 4 /\ 0 \in 0 .. 4 /\ 0 <= j - 1
        BY <1>9, <1>10
      <4>2. Same(j - 1, H(n), H(h))
        BY <1>13, <3>1
      <4> QED
        BY <4>1, <4>2, SameFacts
    <3>3. BucketOf[NameOf[H(n).func]] = BucketOf[NameOf[H(h).func]]
      BY <3>2, SameFacts
    <3> QED
      BY <2>1, <3>1, <3>3 DEF home, H
  <2>2. CASE ~(top = 0 /\ b = home)
    <3>1. /\ t2.bucket[b] = t.bucket[b] /\ t.bucket[b] \in L /\ t.bucket[b] \in D /\ t.bucket[b] # n
          /\ rank[t.bucket[b]] = 0 /\ t.bucket[b] \in L1
      BY <1>2, <1>4, <1>6, <1>16, <1>23, <1>28, <2>2
    <3>2. t.bucket[b] # h
      <4> SUFFICES ASSUME t.bucket[b] = h PROVE FALSE
        OBVIOUS
      <4>1. rank[h] = j /\ j # 0
        BY <1>9, <1>10, <1>13, <1>28, <3>1
      <4> QED
        BY <3>1, <4>1
    <3> QED
      BY <1>2, <1>6, <1>27, <1>28, <3>1, <3>2
  <2> QED
    BY <2>1, <2>2
<1>29. ASSUME NEW x \in L1, NEW k \in Level, N2(x, k) # Null
       PROVE  r[x] <= k /\ r[N2(x, k)] = k
  <2>1. CASE x = h /\ moved(k)
    <3>1. h # Null /\ N2(h, k) = N(n, k) /\ N(n, k) # h /\ N(n, k) \in L1
      BY <1>14, <1>15, <1>16, <1>29, <2>1
    <3>2. rank[N(n, k)] = k /\ r[h] = top
      BY <1>3, <1>6, <1>27, <1>29, <2>1, <3>1
    <3>3. top <= k
      BY <1>9, <2>1 DEF moved
    <3> QED
      BY <1>27, <2>1, <3>1, <3>2, <3>3
  <2>2. CASE top # 0 /\ x = prev /\ k = top
    <3>1. N2(x, k) = h /\ h # Null /\ x # h
      BY <1>13, <1>15, <1>29, <2>2
    <3>2. rank[x] <= top
      <4>1. N(prev, top) = n /\ n # Null /\ prev \in L /\ top \in Level
        BY <1>3, <1>5, <1>9, <1>16, <2>2
      <4> QED
        BY <1>6, <2>2, <4>1
    <3> QED
      BY <1>27, <2>2, <3>1, <3>2
  <2>3. CASE ~(x = h /\ moved(k)) /\ ~(top # 0 /\ x = prev /\ k = top)
    <3>1. N2(x, k) = N(x, k)
      <4>1. CASE x = h
        BY <1>15, <1>27, <2>3, <4>1
      <4>2. CASE x # h
        BY <1>15, <1>27, <2>3, <4>2
      <4> QED
        BY <4>1, <4>2
    <3>2. N(x, k) \in L1 /\ x \in L
      BY <1>18, <1>27, <1>29, <3>1
    <3>3. rank[x] <= k /\ rank[N(x, k)] = k
      BY <1>6, <1>29, <3>1, <3>2
    <3>4. N(x, k) # h
      <4> SUFFICES ASSUME N(x, k) = h PROVE FALSE
        OBVIOUS
      <4>1. h # Null /\ rank[h] = j
        BY <1>13, <1>29, <3>1
      <4>2. N(x, j) = N(n, j) /\ N(x, j) # Null
        BY <1>10, <3>3, <4>1
      <4> QED
        BY <1>3, <1>6, <1>10, <1>27, <4>2
    <3>5. r[x] <= k
      <4>1. CASE x = h
        <5>1. j <= k /\ top <= j /\ r[h] = top
          BY <1>9, <1>10, <1>13, <1>27, <1>29, <3>1, <4>1
        <5> QED
          BY <1>9, <1>10, <4>1, <5>1
      <4>2. CASE x # h
        BY <1>27, <3>3, <4>2
      <4> QED
        BY <4>1, <4>2
    <3> QED
      BY <1>27, <3>1, <3>2, <3>3, <3>4, <3>5
  <2> QED
    BY <2>1, <2>2, <2>3
\* Where a link of the new table comes from in the old one.
<1>30. ASSUME NEW x \in L1, NEW k \in Level, N2(x, k) # Null
       PROVE  \/ x = h /\ moved(k) /\ N2(x, k) = N(n, k)
              \/ top # 0 /\ x = prev /\ k = top /\ N2(x, k) = h /\ h # Null
              \/ N2(x, k) = N(x, k) /\ N(x, k) # h /\ x \in L
  <2>1. CASE x = h /\ moved(k)
    BY <1>14, <1>15, <2>1
  <2>2. CASE top # 0 /\ x = prev /\ k = top
    BY <1>15, <1>30, <2>2
  <2>3. CASE ~(x = h /\ moved(k)) /\ ~(top # 0 /\ x = prev /\ k = top)
    <3>1. N2(x, k) = N(x, k)
      <4>1. CASE x = h
        BY <1>15, <1>27, <2>3, <4>1
      <4>2. CASE x # h
        BY <1>15, <1>27, <2>3, <4>2
      <4> QED
        BY <4>1, <4>2
    <3>2. x \in L /\ x # n
      BY <1>27
    <3>3. N(x, k) # h
      <4> SUFFICES ASSUME N(x, k) = h PROVE FALSE
        OBVIOUS
      <4>1. h # Null /\ rank[h] = j /\ rank[N(x, k)] = k
        BY <1>6, <1>13, <1>30, <3>1, <3>2
      <4>2. N(x, j) = N(n, j) /\ N(x, j) # Null
        BY <1>10, <4>1
      <4> QED
        BY <1>3, <1>6, <1>10, <3>2, <4>2
    <3> QED
      BY <3>1, <3>2, <3>3
  <2> QED
    BY <2>1, <2>2, <2>3
<1>31. ASSUME NEW x \in L1, NEW y \in L1, NEW k \in Level, N2(x, k) = N2(y, k), N2(x, k) # Null
       PROVE  x = y
  <2>1. \A z \in L, i \in Level : N(z, i) # Null /\ N(z, i) = N(n, i) => z = n
    BY <1>3, <1>6
  <2>2. n \notin L1 /\ \A i \in Level : moved(i) => N(n, i) # h
    BY <1>14, <1>16
  <2>3. /\ \/ x = h /\ moved(k) /\ N2(x, k) = N(n, k)
           \/ top # 0 /\ x = prev /\ k = top /\ N2(x, k) = h /\ h # Null
           \/ N2(x, k) = N(x, k) /\ N(x, k) # h /\ x \in L
        /\ \/ y = h /\ moved(k) /\ N2(y, k) = N(n, k)
           \/ top # 0 /\ y = prev /\ k = top /\ N2(y, k) = h /\ h # Null
           \/ N2(y, k) = N(y, k) /\ N(y, k) # h /\ y \in L
    BY <1>30, <1>31
  <2>4. N2(x, k) = N(x, k) /\ N2(y, k) = N(y, k) /\ x \in L /\ y \in L => x = y
    BY <1>6, <1>31
  <2>5. CASE x = h /\ moved(k) /\ N2(x, k) = N(n, k)
    BY <1>31, <2>1, <2>2, <2>3, <2>5
  <2>6. CASE y = h /\ moved(k) /\ N2(y, k) = N(n, k)
    BY <1>31, <2>1, <2>2, <2>3, <2>6
  <2> QED
    BY <1>31, <2>3, <2>4, <2>5, <2>6
<1>32. ASSUME NEW x \in L1, NEW y \in L1, NEW l \in 0 .. 4, r[x] <= l, r[y] <= l, Same(l, H(x), H(y))
       PROVE  x = y
  <2>1. ASSUME NEW z \in L1, z # h, h \in L1, top <= l, rank[z] <= l, Same(l, H(z), H(h)) PROVE FALSE
    <3>1. h # Null /\ h \in L /\ z \in L /\ z # n
      BY <1>27, <2>1
    <3>2. CASE j <= l
      BY <1>6, <1>13, <2>1, <3>1, <3>2
    <3>3. CASE l < j
      <4>1. l <= j - 1 /\ j - 1 \in 0 .. 4
        BY <1>9, <1>10, <3>3
      <4>2. Same(l, H(n), H(h))
        BY <1>13, <3>1, <4>1, SameFacts
      <4>3. Same(l, H(z), H(n))
        BY <2>1, <4>2, SameFacts
      <4> QED
        BY <1>3, <1>6, <2>1, <3>1, <4>3
    <3> QED
      BY <1>9, <1>10, <3>2, <3>3
  <2>2. CASE x = h /\ y # h
    <3>1. top <= l /\ rank[y] <= l /\ Same(l, H(y), H(h))
      BY <1>27, <1>32, <2>2, SameFacts
    <3> QED
      BY <2>1, <2>2, <3>1
  <2>3. CASE x # h /\ y = h
    <3>1. top <= l /\ rank[x] <= l
      BY <1>27, <1>32, <2>3
    <3> QED
      BY <1>32, <2>1, <2>3, <3>1
  <2>4. CASE x # h /\ y # h
    BY <1>6, <1>27, <1>32, <2>4
  <2> QED
    BY <2>2, <2>3, <2>4
<1>33. \A x \in L1 : H2(x) = H(x)
  BY <1>2, <1>16, SMTT(30)
<1>34. Ranked(t2, r)
  <2>1. L1 = Linked(t2)
    BY <1>26 DEF L2
  <2> QED
    BY <1>27, <1>28, <1>29, <1>31, <1>32, <1>33, <2>1 DEF Ranked, N2, H2
<1> QED
  BY <1>21, <1>26, <1>34 DEF L, L1, L2

LEMMA SuccessorOnTop ==
  ASSUME NEW heap, Typed(heap), NEW n \in DOMAIN heap, NEW heap2, NEW h, NEW j, NEW bottom \in Level,
         PromotedBelow(heap, heap2, n, h, j, bottom)
  PROVE  heap2[n].next[bottom] = h /\ h \in DOMAIN heap \union {Null}
<1>1. /\ j \in bottom .. 4 /\ h = heap[n].next[j]
      /\ \A k \in Level : heap2[n].next[k] =
            IF n = n /\ bottom <= k /\ k < j THEN h
            ELSE IF n = h /\ bottom <= k /\ k < j THEN heap[n].next[k] ELSE heap[n].next[k]
  BY DEF PromotedBelow
<1>2. j \in Level
  BY <1>1, Levels
<1>3. bottom = j \/ bottom < j
  BY <1>1, Levels
<1> QED
  BY <1>1, <1>2, <1>3, NodeTypes, Levels

LEMMA UnlinkFirst ==
  ASSUME NEW t, SoundTable(t), NEW n \in DOMAIN t.heap, NEW heap2, NEW h, NEW j,
         PromotedBelow(t.heap, heap2, n, h, j, 1), NEW t2,
         t2 = [bucket |-> [t.bucket EXCEPT ![BucketOf[NameOf[t.heap[n].hook.func]]] = heap2[n].next[1]],
               heap   |-> heap2]
  PROVE  Unlinked(t, t2, n, h, j, Null, 0)
<1>1. 1 \in Level /\ Typed(t.heap) /\ \A k \in Level : k # 0
  <2>1. Typed(t.heap)
    BY DEF SoundTable, SoundHeap
  <2> QED
    BY <2>1, LowestLevel
<1>2. heap2[n].next[1] = h /\ h \in DOMAIN t.heap \union {Null}
  BY <1>1, SuccessorOnTop
<1>3. t2.bucket = [t.bucket EXCEPT ![BucketOf[NameOf[t.heap[n].hook.func]]] = h]
      /\ t2.heap = heap2 /\ t2 = [bucket |-> t2.bucket, heap |-> t2.heap]
  BY <1>2
<1>4. Lowest(0) = 1
  BY DEF Lowest
<1>5. t2.bucket \in [Bucket -> DOMAIN t.heap \union {Null}]
  BY <1>2, <1>3 DEF SoundTable
<1>6. \A b \in Bucket : t2.bucket[b] = IF b = BucketOf[NameOf[t.heap[n].hook.func]] THEN h ELSE t.bucket[b]
  BY <1>3 DEF SoundTable
<1>7. /\ DOMAIN heap2 = DOMAIN t.heap /\ Typed(heap2)
      /\ \A x \in DOMAIN t.heap : heap2[x].hook = t.heap[x].hook
      /\ j \in 1 .. 4 /\ h = t.heap[n].next[j]
      /\ \A k \in Level : k > j => t.heap[n].next[k] = Null
      /\ h = Null => j = 1
  BY DEF PromotedBelow
<1>8. \A x \in DOMAIN t.heap, k \in Level :
         heap2[x].next[k] = IF x = n /\ 1 <= k /\ k < j THEN h
                            ELSE IF x = h /\ 1 <= k /\ k < j THEN t.heap[n].next[k]
                            ELSE IF x = Null /\ k = 0 THEN h
                            ELSE t.heap[x].next[k]
  BY <1>1 DEF PromotedBelow
<1>9. /\ t2 = [bucket |-> t2.bucket, heap |-> t2.heap] /\ DOMAIN t2.heap = DOMAIN t.heap
      /\ Typed(t2.heap) /\ \A x \in DOMAIN t.heap : t2.heap[x].hook = t.heap[x].hook
      /\ t2.bucket \in [Bucket -> DOMAIN t2.heap \union {Null}]
  BY <1>3, <1>5, <1>7, Zenon
<1>10. \A x \in DOMAIN t.heap, k \in Level :
         t2.heap[x].next[k] = IF x = n /\ Lowest(0) <= k /\ k < j THEN h
                              ELSE IF x = h /\ Lowest(0) <= k /\ k < j THEN t.heap[n].next[k]
                              ELSE IF x = Null /\ k = 0 THEN h
                              ELSE t.heap[x].next[k]
  <2> DEFINE low == Lowest(0)
             H2 == t2.heap
  <2>1. low = 1 /\ H2 = heap2
    BY <1>3, <1>4
  <2> HIDE DEF low, H2
  <2> SUFFICES ASSUME NEW x \in DOMAIN t.heap, NEW k \in Level
               PROVE  H2[x].next[k] = IF x = n /\ low <= k /\ k < j THEN h
                              ELSE IF x = h /\ low <= k /\ k < j THEN t.heap[n].next[k]
                              ELSE IF x = Null /\ k = 0 THEN h
                              ELSE t.heap[x].next[k]
    BY DEF low, H2
  <2> QED
    BY <1>8, <2>1
<1>11. /\ j \in Lowest(0) .. 4 /\ h = t.heap[n].next[j]
       /\ \A k \in Level : k > j => t.heap[n].next[k] = Null
       /\ h = Null => j = Lowest(0)
  BY <1>4, <1>7
<1>12. \A b \in Bucket :
          t2.bucket[b] = IF 0 = 0 /\ b = BucketOf[NameOf[t.heap[n].hook.func]] THEN h ELSE t.bucket[b]
  BY <1>6
<1> QED
  BY <1>9, <1>10, <1>11, <1>12, Zenon DEF Unlinked

LEMMA UnlinkInner ==
  ASSUME NEW t, SoundTable(t), NEW n \in DOMAIN t.heap, NEW top \in Level, NEW prev \in DOMAIN t.heap,
         \A k \in Level : t.heap[n].next[k] # prev, prev # n,
         NEW heap2, NEW h, NEW j, PromotedBelow(t.heap, heap2, n, h, j, top), NEW t2,
         t2 = [t EXCEPT !.heap = Bypass(heap2, prev, n, top)]
  PROVE  Unlinked(t, t2, n, h, j, prev, top)
<1> DEFINE D == DOMAIN t.heap
           heap3 == Bypass(heap2, prev, n, top)
           past == [heap2[prev] EXCEPT !.next[top] = h]
<1>1. t2.bucket = t.bucket /\ t2.heap = heap3 /\ t2 = [bucket |-> t2.bucket, heap |-> t2.heap]
  <2>1. t = [bucket |-> t.bucket, heap |-> t.heap]
    BY DEF SoundTable
  <2> QED
    BY <2>1
<1>2. heap2[n].next[top] = h /\ h \in D \union {Null}
  BY SuccessorOnTop DEF SoundTable, SoundHeap
<1>3. DOMAIN heap2 = D /\ Typed(heap2) /\ \A x \in D : heap2[x].hook = t.heap[x].hook
  BY DEF PromotedBelow
<1>4. \A x \in D : heap2[x] \in [hook : Hook, next : [Level -> D \union {Null}]]
  BY <1>3 DEF Typed, NodeContents
<1>5. /\ past \in [hook : Hook, next : [Level -> D \union {Null}]]
      /\ past.hook = heap2[prev].hook
      /\ \A k \in Level : past.next[k] = IF k = top THEN h ELSE heap2[prev].next[k]
  BY <1>2, <1>4
<1>6. /\ DOMAIN heap3 = D
      /\ \A x \in D : heap3[x] = IF x = prev THEN past ELSE heap2[x]
      /\ heap3 = [x \in D |-> heap3[x]]
  BY <1>2, <1>3 DEF Bypass, Typed
<1> HIDE DEF past, heap3
<1>7. Typed(heap3)
  <2>1. \A x \in D : heap3[x] \in NodeContents(D)
    BY <1>4, <1>5, <1>6 DEF NodeContents
  <2>2. D \subseteq Node
    BY DEF SoundTable, SoundHeap, Typed
  <2> QED
    BY <1>6, <2>1, <2>2 DEF Typed
<1>8. /\ j \in top .. 4 /\ j \in Level /\ h = t.heap[n].next[j]
      /\ \A k \in Level : k > j => t.heap[n].next[k] = Null
      /\ h = Null => j = top
      /\ \A x \in D, k \in Level :
            heap2[x].next[k] = IF x = n /\ top <= k /\ k < j THEN h
                               ELSE IF x = h /\ top <= k /\ k < j THEN t.heap[n].next[k]
                               ELSE t.heap[x].next[k]
  BY Levels DEF PromotedBelow
<1>9. Lowest(top) = top
  BY Levels DEF Lowest
<1>10. prev # h
  BY <1>8
<1>11. ASSUME NEW x \in D, NEW k \in Level
       PROVE  heap3[x].next[k] =
                 IF x = n /\ top <= k /\ k < j THEN h
                 ELSE IF x = h /\ top <= k /\ k < j THEN t.heap[n].next[k]
                 ELSE IF x = prev /\ k = top THEN h
                 ELSE t.heap[x].next[k]
  <2>1. CASE x = prev
    <3>1. heap3[x].next[k] = IF k = top THEN h ELSE heap2[prev].next[k]
      BY <1>5, <1>6, <2>1
    <3>2. heap2[prev].next[k] = t.heap[prev].next[k]
      BY <1>8, <1>10
    <3> QED
      BY <1>10, <2>1, <3>1, <3>2
  <2>2. CASE x # prev
    <3>1. heap3[x].next[k] = heap2[x].next[k]
      BY <1>6, <2>2
    <3> QED
      BY <1>8, <2>2, <3>1
  <2> QED
    BY <2>1, <2>2
<1>12. \A x \in D : heap3[x].hook = t.heap[x].hook
  BY <1>3, <1>5, <1>6
<1>13. top # 0 /\ t2.bucket \in [Bucket -> D \union {Null}]
  BY <1>1, Levels DEF SoundTable
<1>14. /\ t2.heap = heap3 /\ DOMAIN t2.heap = D /\ t2.bucket = t.bucket
       /\ t2 = [bucket |-> t2.bucket, heap |-> t2.heap]
  BY <1>1, <1>6
<1> HIDE DEF D
<1>15. \A b \in Bucket :
          t2.bucket[b] = IF top = 0 /\ b = BucketOf[NameOf[t.heap[n].hook.func]] THEN h ELSE t.bucket[b]
  BY <1>13, <1>14
<1>16. \A x \in D, k \in Level :
          t2.heap[x].next[k] =
                 IF x = n /\ top <= k /\ k < j THEN h
                 ELSE IF x = h /\ top <= k /\ k < j THEN t.heap[n].next[k]
                 ELSE IF x = prev /\ k = top THEN h
                 ELSE t.heap[x].next[k]
  BY <1>11, <1>14
<1>17. Typed(t2.heap) /\ \A x \in D : t2.heap[x].hook = t.heap[x].hook
  BY <1>7, <1>12, <1>14
<1> QED
  BY <1>8, <1>9, <1>13, <1>14, <1>15, <1>16, <1>17 DEF Unlinked, D

\* The promotions of remove_hook, from the lowest level up.
LEMMA PromotionsBelow ==
  ASSUME NEW heap, Typed(heap), NEW n \in DOMAIN heap, \A k \in Level : heap[n].next[k] # n,
         NEW promoted,
         promoted = CHOOSE f : f = [l \in Level |-> IF l = 4 THEN heap ELSE Promote(f[l + 1], n, l + 1)],
         NEW top \in Level
  PROVE  \E h, j : PromotedBelow(heap, promoted[top], n, h, j, top)
<1> DEFINE body(f) == [l \in Level |-> IF l = 4 THEN heap ELSE Promote(f[l + 1], n, l + 1)]
           heap3 == Promote(heap, n, 4)
           heap2 == Promote(heap3, n, 3)
           heap1 == Promote(heap2, n, 2)
           all == [l \in Level |-> IF l = 4 THEN heap ELSE IF l = 3 THEN heap3
                                   ELSE IF l = 2 THEN heap2 ELSE heap1]
<1>1. all = body(all)
  <2> SUFFICES ASSUME NEW l \in Level
               PROVE  all[l] = IF l = 4 THEN heap ELSE Promote(all[l + 1], n, l + 1)
    OBVIOUS
  <2>1. l \in 1 .. 4
    BY Levels
  <2> HIDE DEF all
  <2>2. all[4] = heap /\ all[3] = heap3 /\ all[2] = heap2 /\ all[1] = heap1
    <3> HIDE DEF heap1, heap2, heap3
    <3> QED
      BY Levels DEF all
  <2>3. CASE l = 4
    BY <2>2, <2>3
  <2>4. CASE l = 3
    BY <2>2, <2>4
  <2>5. CASE l = 2
    BY <2>2, <2>5
  <2>6. CASE l = 1
    BY <2>2, <2>6
  <2> QED
    BY <2>1, <2>3, <2>4, <2>5, <2>6
<1>2. promoted = body(promoted)
  <2>1. promoted = CHOOSE f : f = body(f)
    OBVIOUS
  <2> HIDE DEF body, all
  <2> QED
    BY <1>1, <2>1
<1>3. \A l \in Level : promoted[l] = IF l = 4 THEN heap ELSE Promote(promoted[l + 1], n, l + 1)
  BY <1>2
<1> DEFINE good(l) == \E h, j : PromotedBelow(heap, promoted[l], n, h, j, l)
<1>4. good(4)
  <2>1. promoted[4] = heap
    <3>1. 4 \in Level
      BY Levels
    <3> QED
      BY <1>3, <3>1
  <2>2. PromotedBelow(heap, promoted[4], n, heap[n].next[4], 4, 4)
    BY <2>1, PromotedNone
  <2> QED
    BY <2>2
<1>5. ASSUME NEW l \in 1 .. 3, good(l + 1) PROVE good(l)
  <2>1. l \in Level /\ l + 1 \in 2 .. 4 /\ (l + 1) - 1 = l /\ l # 4
    BY Levels
  <2>2. promoted[l] = Promote(promoted[l + 1], n, l + 1)
    BY <1>3, <2>1
  <2>3. PICK h, j : PromotedBelow(heap, promoted[l + 1], n, h, j, l + 1)
    BY <1>5
  <2>4. \E h3, j3 : PromotedBelow(heap, Promote(promoted[l + 1], n, l + 1), n, h3, j3, (l + 1) - 1)
    BY <2>1, <2>3, PromotedMore
  <2> QED
    BY <2>1, <2>2, <2>4
<1> HIDE DEF good
<1>6. good(3)
  <2>1. 3 \in 1 .. 3 /\ 3 + 1 = 4
    OBVIOUS
  <2> QED
    BY <1>4, <1>5, <2>1
<1>7. good(2)
  <2>1. 2 \in 1 .. 3 /\ 2 + 1 = 3
    OBVIOUS
  <2> QED
    BY <1>5, <1>6, <2>1
<1>8. good(1)
  <2>1. 1 \in 1 .. 3 /\ 1 + 1 = 2
    OBVIOUS
  <2> QED
    BY <1>5, <1>7, <2>1
<1>9. good(top)
  BY <1>4, <1>6, <1>7, <1>8, Levels
<1> QED
  BY <1>9 DEF good

(***************************************************************************)
(* Whoever shares the ownership of the nodes cannot change what is linked. *)
(***************************************************************************)
LEMMA OwnedFacts ==
  ASSUME NEW t, InOrder(t), NEW pins \in SUBSET (DOMAIN t.heap \union {Null})
  PROVE  LET t2 == Owned(t, pins)
         IN  /\ InOrder(t2)
             /\ DOMAIN t2.heap \subseteq DOMAIN t.heap
             /\ pins \subseteq DOMAIN t2.heap \union {Null}
             /\ \A n \in DOMAIN t2.heap : t2.heap[n] = t.heap[n]
             /\ Linked(t2) = Linked(t)
             /\ Registered(t2) = Registered(t)
<1> DEFINE t2 == Owned(t, pins)
           D == DOMAIN t.heap
           roots == pins \union {t.bucket[b] : b \in Bucket}
           alive == Reach(t.heap, roots)
           L == Linked(t)
           L2 == Linked(t2)
<1>1. SoundTable(t) /\ Typed(t.heap) /\ IsFiniteSet(D) /\ Acyclic(t.heap) /\ Layered(t.heap)
      /\ t.bucket \in [Bucket -> D \union {Null}] /\ t = [bucket |-> t.bucket, heap |-> t.heap]
  BY DEF InOrder, SoundTable, SoundHeap
<1>2. roots \in SUBSET (D \union {Null})
  BY <1>1
<1>3. alive \in SUBSET D /\ roots \ {Null} \subseteq alive /\ Closed(t.heap, alive)
  <2> HIDE DEF roots
  <2> QED
    BY <1>1, <1>2, ReachIsLeast
<1>4. t2 = [t EXCEPT !.heap = [n \in alive |-> t.heap[n]]]
  BY DEF Owned
<1> HIDE DEF t2, alive
<1>5. /\ t2.bucket = t.bucket /\ t2 = [bucket |-> t2.bucket, heap |-> t2.heap]
      /\ DOMAIN t2.heap = alive /\ t2.heap = [n \in alive |-> t.heap[n]]
      /\ \A n \in alive : t2.heap[n] = t.heap[n]
  BY <1>1, <1>4
<1>6. \A n \in alive, l \in Level : t.heap[n].next[l] # Null => t.heap[n].next[l] \in alive
  BY <1>3 DEF Closed
<1>7. \A n \in D : t.heap[n] \in [hook : Hook, next : [Level -> D \union {Null}]]
  BY <1>1 DEF Typed, NodeContents
<1>8. Typed(t2.heap)
  <2>1. \A n \in alive : t2.heap[n] \in NodeContents(alive)
    <3> SUFFICES ASSUME NEW n \in alive PROVE t.heap[n] \in NodeContents(alive)
      BY <1>5
    <3>1. t.heap[n] \in [hook : Hook, next : [Level -> D \union {Null}]]
      BY <1>3, <1>7
    <3>2. \A l \in Level : t.heap[n].next[l] \in alive \union {Null}
      BY <1>6
    <3> QED
      BY <3>1, <3>2 DEF NodeContents
  <2>2. alive \subseteq Node
    BY <1>1, <1>3 DEF Typed
  <2> QED
    BY <1>5, <2>1, <2>2 DEF Typed
<1>9. Acyclic(t2.heap)
  BY <1>1, <1>3, <1>5 DEF Acyclic
<1>10. Layered(t2.heap)
  BY <1>1, <1>3, <1>5, <1>6 DEF Layered
<1>11. t2.bucket \in [Bucket -> alive \union {Null}]
  <2>1. \A b \in Bucket : t.bucket[b] \in alive \union {Null}
    BY <1>3
  <2> QED
    BY <1>1, <1>5, <2>1
<1>12. SoundTable(t2)
  BY <1>1, <1>3, <1>5, <1>8, <1>9, <1>10, <1>11, FS_Subset DEF SoundTable, SoundHeap
<1>13. /\ L \in SUBSET D
       /\ \A b \in Bucket : t.bucket[b] # Null => t.bucket[b] \in L
       /\ \A n \in L, l \in Level : t.heap[n].next[l] # Null => t.heap[n].next[l] \in L
       /\ \A S \in SUBSET D :
               /\ \A b \in Bucket : t.bucket[b] # Null => t.bucket[b] \in S
               /\ \A n \in S, l \in Level : t.heap[n].next[l] # Null => t.heap[n].next[l] \in S
               => L \subseteq S
  BY <1>1, LinkedFacts
<1>14. /\ L2 \in SUBSET alive
       /\ \A b \in Bucket : t2.bucket[b] # Null => t2.bucket[b] \in L2
       /\ \A n \in L2, l \in Level : t2.heap[n].next[l] # Null => t2.heap[n].next[l] \in L2
       /\ \A S \in SUBSET alive :
               /\ \A b \in Bucket : t2.bucket[b] # Null => t2.bucket[b] \in S
               /\ \A n \in S, l \in Level : t2.heap[n].next[l] # Null => t2.heap[n].next[l] \in S
               => L2 \subseteq S
  BY <1>5, <1>12, LinkedFacts
<1> HIDE DEF L, L2
<1>15. L \subseteq alive
  BY <1>3, <1>6, <1>13
<1>16. L \subseteq L2
  BY <1>3, <1>5, <1>13, <1>14
<1>17. L2 \subseteq L
  BY <1>5, <1>13, <1>14, <1>15
<1>18. L2 = L
  BY <1>16, <1>17
<1>19. \E rank : Ranked(t2, rank)
  <2>1. PICK rank : Ranked(t, rank)
    BY DEF InOrder
  <2>2. L = Linked(t) /\ Linked(t2) = L
    BY <1>18 DEF L, L2
  <2>3. \A n \in L : t2.heap[n] = t.heap[n]
    BY <1>5, <1>15
  <2>4. \A b \in Bucket : t.bucket[b] # Null => t2.heap[t.bucket[b]] = t.heap[t.bucket[b]]
    BY <1>13, <2>3, SMTT(30)
  <2>5. Ranked(t2, rank)
    <3>1. rank \in [L -> 0 .. 4]
      BY <2>1, <2>2 DEF Ranked
    <3>2. ASSUME NEW b \in Bucket, t2.bucket[b] # Null
          PROVE  rank[t2.bucket[b]] = 0 /\ BucketOf[NameOf[t2.heap[t2.bucket[b]].hook.func]] = b
      <4>1. t2.bucket[b] = t.bucket[b]
        BY <1>5, Zenon
      <4>2. rank[t.bucket[b]] = 0 /\ BucketOf[NameOf[t.heap[t.bucket[b]].hook.func]] = b
        BY <2>1, <3>2, <4>1 DEF Ranked
      <4>3. t2.heap[t.bucket[b]] = t.heap[t.bucket[b]]
        BY <2>4, <3>2, <4>1
      <4> QED
        BY <4>1, <4>2, <4>3
    <3>3. ASSUME NEW n \in L, NEW l \in Level, t2.heap[n].next[l] # Null
          PROVE  rank[n] <= l /\ rank[t2.heap[n].next[l]] = l
      <4>1. t2.heap[n] = t.heap[n]
        BY <2>3
      <4>2. t.heap[n].next[l] # Null => rank[n] <= l /\ rank[t.heap[n].next[l]] = l
        BY <2>1, <2>2 DEF Ranked
      <4> QED
        BY <3>3, <4>1, <4>2
    <3>4. ASSUME NEW m \in L, NEW n \in L, NEW l \in Level,
                 t2.heap[m].next[l] = t2.heap[n].next[l], t2.heap[m].next[l] # Null
          PROVE  m = n
      <4>1. t2.heap[n] = t.heap[n] /\ t2.heap[m] = t.heap[m]
        BY <2>3, Zenon
      <4>2. t.heap[m].next[l] = t.heap[n].next[l] /\ t.heap[m].next[l] # Null => m = n
        BY <2>1, <2>2 DEF Ranked
      <4> QED
        BY <3>4, <4>1, <4>2
    <3>5. ASSUME NEW m \in L, NEW n \in L, NEW l \in 0 .. 4,
                 rank[m] <= l, rank[n] <= l, Same(l, t2.heap[m].hook, t2.heap[n].hook)
          PROVE  m = n
      <4>1. t2.heap[n] = t.heap[n] /\ t2.heap[m] = t.heap[m]
        BY <2>3, Zenon
      <4>2. Same(l, t.heap[m].hook, t.heap[n].hook) => m = n
        BY <2>1, <2>2, <3>5 DEF Ranked
      <4> QED
        BY <3>5, <4>1, <4>2
    <3> QED
      BY <2>2, <3>1, <3>2, <3>3, <3>4, <3>5 DEF Ranked
  <2> QED
    BY <2>5
<1>20. Registered(t2) = Registered(t)
  BY <1>5, <1>15, <1>18 DEF Registered, L, L2
<1>21. pins \subseteq alive \union {Null}
  BY <1>3
<1> QED
  BY <1>3, <1>5, <1>12, <1>18, <1>19, <1>20, <1>21 DEF InOrder, L, L2, t2

(***************************************************************************)
(* What remove_hook does: nothing to a table that lacks the hook, and      *)
(* otherwise it unlinks the hook's node, its successor taking its place.   *)
(***************************************************************************)
LEMMA RemoveHookStep ==
  ASSUME NEW t, SoundTable(t), NEW rank, Ranked(t, rank), NEW hook \in Hook
  PROVE  LET t2 == RemoveHook(t, hook).table
         IN  \/ t2 = t /\ hook \notin Registered(t)
             \/ \E n, prev, h, j : \E top \in 0 .. 4 :
                   /\ t.heap[n].hook = hook
                   /\ LinkedAfter(t, rank, n, prev, top) /\ Unlinked(t, t2, n, h, j, prev, top)
<1> DEFINE paths == Search(t, hook, 4)
           n == Last(paths[4])
           inner == {l \in Level : Len(paths[l]) > 1}
           top == IF inner = {} THEN 1 ELSE CHOOSE l \in inner : \A k \in inner : k <= l
           promoted == CHOOSE f : f = [l \in Level |-> IF l = 4 THEN t.heap ELSE Promote(f[l + 1], n, l + 1)]
           t2 == RemoveHook(t, hook).table
           N(x, k) == t.heap[x].next[k]
           L == Linked(t)
           unlinks == \E x, prev, h, j : \E up \in 0 .. 4 :
               /\ t.heap[x].hook = hook
               /\ LinkedAfter(t, rank, x, prev, up) /\ Unlinked(t, t2, x, h, j, prev, up)
           done == (t2 = t /\ hook \notin Registered(t)) \/ unlinks
<1>1. Ranked(t, rank)
  OBVIOUS
<1>2. SoundTable(t) /\ Typed(t.heap) /\ Acyclic(t.heap) /\ L \in SUBSET DOMAIN t.heap
  BY LinkedFacts DEF SoundTable, SoundHeap
<1>3. ASSUME ~HasHook(t, hook) PROVE done
  <2>1. t2 = t
    BY <1>3 DEF RemoveHook
  <2>2. hook \notin Registered(t)
    BY <1>1, <1>2, <1>3, HasHookIsExact
  <2> QED
    BY <2>1, <2>2
<1>4. ASSUME HasHook(t, hook) PROVE done
  <2>1. hook.func \in Func /\ HeadOf(t, hook) # Null /\ IsFound(t, paths, 4, hook)
    BY <1>4 DEF HasHook, Hook
  <2>2. Descends(t, rank, hook, 4, paths)
    <3>1. 4 \in 1 .. 4
      OBVIOUS
    <3> QED
      BY <1>1, <1>2, <2>1, <3>1, SearchDescends
  <2> DEFINE first == [bucket |-> [t.bucket EXCEPT ![BucketOf[NameOf[hook.func]]] = promoted[top][n].next[1]],
                        heap   |-> promoted[top]]
             later == [t EXCEPT !.heap = Bypass(promoted[top], paths[top][Len(paths[top]) - 1], n, top)]
  <2>3. t2 = IF inner = {} THEN first ELSE later
    <3> DEFINE r == RemoveHook(t, hook)
               none == inner = {}
    <3>1. r = IF ~HasHook(t, hook) THEN [answer |-> FALSE, table |-> t]
              ELSE IF none THEN [answer |-> TRUE, table |-> first]
              ELSE [answer |-> TRUE, table |-> later]
      BY Zenon DEF RemoveHook
    <3>2. t2 = r.table
      OBVIOUS
    <3> HIDE DEF r, none, first, later, t2
    <3>3. t2 = IF none THEN first ELSE later
      BY <1>4, <3>1, <3>2
    <3> QED
      BY <3>3 DEF none
  <2> HIDE DEF t2, promoted, paths
  <2>4. /\ Len(paths) = 4 /\ Found(t, paths[4], 4, hook)
        /\ \A l \in 1 .. 4 : Searched(t, rank, hook, l, paths[l])
        /\ \A l \in 1 .. 3 : Found(t, paths[l], l, hook) /\ paths[l + 1][1] = Last(paths[l])
        /\ paths[1][1] = HeadOf(t, hook)
    BY <2>1, <2>2 DEF IsFound, Descends
  <2> DEFINE z(l) == Last(paths[l])
  <2>5. ASSUME NEW l \in Level
        PROVE  /\ Len(paths[l]) \in Nat \ {0} /\ z(l) = paths[l][Len(paths[l])]
               /\ z(l) \in L /\ rank[z(l)] <= l
               /\ Len(paths[l]) > 1 => rank[z(l)] = l
               /\ Len(paths[l]) = 1 => z(l) = paths[l][1]
    <3>1. Searched(t, rank, hook, l, paths[l])
      BY <2>4, Levels
    <3> QED
      BY <3>1, SearchedFacts
  <2>6. n \in L /\ n \in DOMAIN t.heap /\ t.heap[n].hook = hook /\ n # Null
    <3>1. 4 \in Level
      BY Levels
    <3>2. n \in L /\ n \in DOMAIN t.heap
      BY <1>2, <2>5, <3>1
    <3>3. Same(4, t.heap[n].hook, hook)
      BY <2>4 DEF Searched
    <3>4. t.heap[n].hook \in Hook /\ Null \notin DOMAIN t.heap
      BY <1>2, <3>2, NodeTypes
    <3> QED
      BY <3>2, <3>3, <3>4, SameHooks
  <2>7. \A k \in Level : N(n, k) # n
    <3>1. {n} \in SUBSET DOMAIN t.heap /\ {n} # {}
      BY <2>6
    <3> HIDE DEF n
    <3>2. \E x \in {n} : \A k \in Level : t.heap[x].next[k] \notin {n}
      BY <1>2, <3>1 DEF Acyclic
    <3> QED
      BY <3>2
  \* What it takes: where n is linked, and the table without it.
  <2>8. ASSUME NEW up \in 0 .. 4, NEW prev, LinkedAfter(t, rank, n, prev, up),
               NEW h, NEW j, Unlinked(t, t2, n, h, j, prev, up)
        PROVE  done
    BY <2>6, <2>8
  <2> HIDE DEF done
  <2>9. ASSUME inner = {} PROVE done
    <3>1. \A l \in Level : Len(paths[l]) = 1
      <4> SUFFICES ASSUME NEW l \in Level PROVE Len(paths[l]) = 1
        OBVIOUS
      <4>1. l \notin inner
        BY <2>9
      <4>2. ~(Len(paths[l]) > 1)
        BY <4>1
      <4>3. Len(paths[l]) \in Nat \ {0}
        BY <2>5
      <4>4. \A k \in Nat \ {0} : ~(k > 1) => k = 1
        OBVIOUS
      <4> QED
        BY <4>2, <4>3, <4>4, Zenon
    <3>2. \A l \in Level : z(l) = paths[l][1]
      BY <2>5, <3>1
    <3>3. n = HeadOf(t, hook)
      <4>1. 1 \in Level /\ 2 \in Level /\ 3 \in Level /\ 4 \in Level
        BY Levels
      <4>2. z(1) = HeadOf(t, hook) /\ z(2) = paths[2][1] /\ z(3) = paths[3][1] /\ z(4) = paths[4][1]
        BY <2>4, <3>2, <4>1
      <4>3. /\ paths[1 + 1][1] = z(1) /\ paths[2 + 1][1] = z(2) /\ paths[3 + 1][1] = z(3)
            /\ 1 + 1 = 2 /\ 2 + 1 = 3 /\ 3 + 1 = 4
        BY <2>4
      <4> HIDE DEF z
      <4>4. z(4) = HeadOf(t, hook)
        BY <4>2, <4>3
      <4> QED
        BY <4>4 DEF z
    <3>4. rank[n] = 0
      BY <1>1, <1>2, <2>1, <3>3, Heads
    <3>5. LinkedAfter(t, rank, n, Null, 0)
      BY <2>6, <3>3, <3>4 DEF LinkedAfter
    <3>6. t2 = [bucket |-> [t.bucket EXCEPT ![BucketOf[NameOf[t.heap[n].hook.func]]] = promoted[1][n].next[1]],
                heap   |-> promoted[1]]
      <4>1. top = 1
        BY <2>9
      <4> HIDE DEF top, n
      <4>2. t2 = first
        BY <2>3, <2>9
      <4> QED
        BY <2>6, <4>1, <4>2
    <3>7. PICK h, j : PromotedBelow(t.heap, promoted[1], n, h, j, 1)
      <4> HIDE DEF n
      <4>1. promoted = CHOOSE f : f = [l \in Level |-> IF l = 4 THEN t.heap ELSE Promote(f[l + 1], n, l + 1)]
        BY DEF promoted
      <4> QED
        BY <1>2, <2>6, <2>7, <4>1, LowestLevel, PromotionsBelow
    <3>8. Unlinked(t, t2, n, h, j, Null, 0)
      BY <1>2, <2>6, <3>6, <3>7, UnlinkFirst
    <3>9. 0 \in 0 .. 4
      OBVIOUS
    <3> QED
      BY <2>8, <3>5, <3>8, <3>9
  <2>10. ASSUME inner # {} PROVE done
    <3> DEFINE prev == paths[top][Len(paths[top]) - 1]
    <3>1. top \in inner /\ \A k \in inner : k <= top
      <4>1. \E m \in inner : \A k \in inner : k <= m
        <5>1. inner \in SUBSET (1 .. 4)
          BY Levels
        <5> HIDE DEF inner
        <5>2. CASE 4 \in inner
          BY <5>1, <5>2
        <5>3. CASE 4 \notin inner /\ 3 \in inner
          BY <5>1, <5>3
        <5>4. CASE 4 \notin inner /\ 3 \notin inner /\ 2 \in inner
          BY <5>1, <5>4
        <5>5. CASE 4 \notin inner /\ 3 \notin inner /\ 2 \notin inner
          <6>1. \A k \in inner : k = 1
            BY <5>1, <5>5
          <6>2. 1 \in inner /\ 1 <= 1
            BY <2>10, <6>1
          <6> QED
            BY <6>1, <6>2
        <5> QED
          BY <5>2, <5>3, <5>4, <5>5
      <4>2. top = CHOOSE l \in inner : \A k \in inner : k <= l
        BY <2>10
      <4> HIDE DEF inner, top
      <4> QED
        BY <4>1, <4>2
    <3>2. top \in Level /\ Len(paths[top]) > 1
      BY <3>1
    <3>3. t2 = [t EXCEPT !.heap = Bypass(promoted[top], prev, n, top)]
      BY <2>3, <2>10
    <3> HIDE DEF top
    <3>4. \A l \in Level : l > top => Len(paths[l]) = 1
      <4> SUFFICES ASSUME NEW l \in Level, l > top PROVE Len(paths[l]) = 1
        OBVIOUS
      <4>1. ~(l <= top)
        BY <3>2, Levels
      <4>2. l \notin inner
        BY <3>1, <4>1
      <4>3. ~(Len(paths[l]) > 1)
        BY <4>2
      <4>4. Len(paths[l]) \in Nat \ {0}
        BY <2>5
      <4>5. \A k \in Nat \ {0} : ~(k > 1) => k = 1
        OBVIOUS
      <4> QED
        BY <4>3, <4>4, <4>5, Zenon
    <3>5. n = z(top)
      <4>1. \A l \in 1 .. 3 : l >= top => z(l + 1) = z(l)
        <5> SUFFICES ASSUME NEW l \in 1 .. 3, l >= top PROVE z(l + 1) = z(l)
          OBVIOUS
        <5>1. l + 1 \in Level /\ l + 1 > top
          BY <3>2, Levels
        <5>2. z(l + 1) = paths[l + 1][1]
          BY <2>5, <3>4, <5>1
        <5> QED
          BY <2>4, <5>2
      <4>2. top = 1 \/ top = 2 \/ top = 3 \/ top = 4
        BY <3>2, Levels
      <4> HIDE DEF z
      <4>3. /\ 1 \in 1 .. 3 /\ 2 \in 1 .. 3 /\ 3 \in 1 .. 3
            /\ 1 + 1 = 2 /\ 2 + 1 = 3 /\ 3 + 1 = 4
        OBVIOUS
      <4>4. top <= 3 => z(4) = z(3)
        BY <4>1, <4>2, <4>3
      <4>5. top <= 2 => z(3) = z(2)
        BY <4>1, <4>2, <4>3
      <4>6. top <= 1 => z(2) = z(1)
        BY <4>1, <4>2, <4>3
      <4>7. z(4) = z(top)
        BY <4>2, <4>4, <4>5, <4>6
      <4> QED
        BY <4>7 DEF z
    <3>6. rank[n] = top
      BY <2>5, <3>2, <3>5
    <3>7. prev \in L /\ N(prev, top) = n
      <4>1. Traced(t, rank, hook, top, paths[top])
        BY <2>4, <3>2, Levels DEF Searched
      <4> DEFINE path == paths[top]
                 i == Len(path) - 1
      <4>2. Len(path) \in Nat /\ i \in 1 .. Len(path) /\ i \in 1 .. Len(path) - 1 /\ i + 1 = Len(path)
        BY <2>5, <3>2
      <4>3. n = path[Len(path)]
        BY <2>5, <3>2, <3>5
      <4> HIDE DEF path, i, n
      <4>4. path[i] \in L /\ N(path[i], top) = path[i + 1]
        BY <4>1, <4>2 DEF Traced, IsTrail, path
      <4> QED
        BY <4>2, <4>3, <4>4 DEF path, i
    <3>8. prev # n /\ \A k \in Level : N(n, k) # prev
      <4>1. prev \in DOMAIN t.heap
        BY <1>2, <3>7
      <4> HIDE DEF prev, n
      <4>2. prev # n
        BY <2>7, <3>2, <3>7
      <4>3. {prev, n} \in SUBSET DOMAIN t.heap /\ {prev, n} # {}
        BY <2>6, <4>1
      <4>4. PICK x \in {prev, n} : \A k \in Level : t.heap[x].next[k] \notin {prev, n}
        BY <1>2, <4>3 DEF Acyclic
      <4>5. x = n
        BY <3>2, <3>7, <4>4
      <4> QED
        BY <4>2, <4>4, <4>5
    <3>9. PICK h, j : PromotedBelow(t.heap, promoted[top], n, h, j, top)
      <4> HIDE DEF n
      <4>1. promoted = CHOOSE f : f = [l \in Level |-> IF l = 4 THEN t.heap ELSE Promote(f[l + 1], n, l + 1)]
        BY DEF promoted
      <4> QED
        BY <1>2, <2>6, <2>7, <3>2, <4>1, PromotionsBelow
    <3> HIDE DEF n, prev
    <3>10. Unlinked(t, t2, n, h, j, prev, top)
      <4>1. prev \in DOMAIN t.heap
        BY <1>2, <3>7
      <4> QED
        BY <1>2, <2>6, <3>2, <3>3, <3>8, <3>9, <4>1, UnlinkInner
    <3>11. top \in 0 .. 4 /\ top # 0
      BY <3>2, Levels
    <3>12. LinkedAfter(t, rank, n, prev, top)
      BY <2>6, <3>6, <3>7, <3>11 DEF LinkedAfter
    <3> QED
      BY <2>8, <3>10, <3>11, <3>12
  <2> QED
    BY <2>9, <2>10
<1> HIDE DEF t2
<1>5. done
  BY <1>3, <1>4
<1> QED
  BY <1>5 DEF t2

(***************************************************************************)
(* remove_hook, with all its promotions, keeps the order and takes exactly *)
(* its hook away.                                                          *)
(***************************************************************************)
THEOREM RemoveHookFacts ==
  ASSUME NEW t, InOrder(t), NEW hook \in Hook
  PROVE  LET t2 == RemoveHook(t, hook).table
         IN  /\ InOrder(t2)
             /\ DOMAIN t2.heap = DOMAIN t.heap
             /\ \A x \in DOMAIN t.heap : t2.heap[x].hook = t.heap[x].hook
             /\ Registered(t2) = Registered(t) \ {hook}
<1> DEFINE t2 == RemoveHook(t, hook).table
           L == Linked(t)
<1>1. PICK rank : Ranked(t, rank)
  BY DEF InOrder
<1>2. SoundTable(t) /\ L \in SUBSET DOMAIN t.heap
  BY LinkedFacts DEF InOrder
<1>3. \/ t2 = t /\ hook \notin Registered(t)
      \/ \E n, prev, h, j : \E top \in 0 .. 4 :
            /\ t.heap[n].hook = hook
            /\ LinkedAfter(t, rank, n, prev, top) /\ Unlinked(t, t2, n, h, j, prev, top)
  BY <1>1, <1>2, RemoveHookStep
<1> HIDE DEF t2
<1>4. CASE t2 = t /\ hook \notin Registered(t)
  BY <1>4 DEF t2
<1>5. CASE ~(t2 = t /\ hook \notin Registered(t))
  <2>1. PICK n, prev, h, j : \E top \in 0 .. 4 :
            /\ t.heap[n].hook = hook
            /\ LinkedAfter(t, rank, n, prev, top) /\ Unlinked(t, t2, n, h, j, prev, top)
    BY <1>3, <1>5
  <2>2. PICK top \in 0 .. 4 :
            /\ t.heap[n].hook = hook
            /\ LinkedAfter(t, rank, n, prev, top) /\ Unlinked(t, t2, n, h, j, prev, top)
    BY <2>1
  <2>3. SoundTable(t2) /\ Linked(t2) = L \ {n} /\ \E r : Ranked(t2, r)
    BY <1>1, <1>2, <2>2, UnlinkedIsInOrder
  <2>4. DOMAIN t2.heap = DOMAIN t.heap /\ \A x \in DOMAIN t.heap : t2.heap[x].hook = t.heap[x].hook
    BY <2>2 DEF Unlinked
  <2>5. n \in L
    BY <2>2 DEF LinkedAfter
  <2>6. \A x \in L : t.heap[x].hook = hook <=> x = n
    BY <1>1, <1>2, <2>2, <2>5, OneNodePerHook
  <2>7. Registered(t2) = {t.heap[x].hook : x \in L \ {n}}
    BY <1>2, <2>3, <2>4 DEF Registered
  <2>8. Registered(t) = {t.heap[x].hook : x \in L}
    BY DEF Registered
  <2>9. Registered(t2) = Registered(t) \ {hook}
    BY <2>6, <2>7, <2>8
  <2> QED
    BY <2>3, <2>4, <2>9 DEF InOrder, t2
<1> QED
  BY <1>4, <1>5

(***************************************************************************)
(* The collections of a function, from any node of it, linked or not.      *)
(***************************************************************************)
LEMMA SameFunction ==
  /\ \A p, q : Same(2, p, q) => p.func = q.func
  /\ \A p, q : Same(3, p, q) => p.func = q.func /\ p.type = q.type
<1>1. 2 \in Level /\ 3 \in Level
  BY Levels
<1>2. \A p, q : Same(2, p, q) => Matches(2, p, q)
  BY <1>1 DEF Same
<1>3. \A p, q : Same(3, p, q) => Matches(2, p, q) /\ Matches(3, p, q)
  BY <1>1 DEF Same
<1>4. \A p, q : Matches(2, p, q) => p.func = q.func
  BY DEF Matches
<1>5. \A p, q : Matches(3, p, q) => p.type = q.type
  BY DEF Matches
<1> QED
  BY <1>2, <1>3, <1>4, <1>5

LEMMA NextInCollection ==
  ASSUME NEW t, SoundTable(t), NEW n \in DOMAIN t.heap, t.heap[n].next[4] # Null
  PROVE  LET next == t.heap[n].next[4]
         IN  /\ next \in DOMAIN t.heap
             /\ t.heap[next].hook.type = t.heap[n].hook.type
             /\ t.heap[next].hook.func = t.heap[n].hook.func
<1>1. 4 \in Level /\ 4 - 1 = 3
  BY Levels
<1>2. t.heap[n].next[4] \in DOMAIN t.heap
  BY <1>1, NodeTypes DEF SoundTable, SoundHeap
<1>3. Same(4 - 1, t.heap[n].hook, t.heap[t.heap[n].next[4]].hook)
  BY <1>1 DEF SoundTable, SoundHeap, Layered
<1>4. Same(3, t.heap[n].hook, t.heap[t.heap[n].next[4]].hook)
  BY <1>1, <1>3
<1> QED
  BY <1>2, <1>4, SameFunction

LEMMA FirstOfTypeIsOfType ==
  ASSUME NEW t, SoundTable(t), NEW node \in DOMAIN t.heap, NEW type, FirstOfType(t, node, type) # Null
  PROVE  LET first == FirstOfType(t, node, type)
         IN  /\ first \in DOMAIN t.heap
             /\ t.heap[first].hook.type = type
             /\ t.heap[first].hook.func = t.heap[node].hook.func
<1> DEFINE key == [t.heap[node].hook EXCEPT !.type = type]
           path == Visited(t, node, 3, key)
           H(x) == t.heap[x].hook
           fits(i) == H(path[i]).func = H(node).func
<1>0. 3 \in Level /\ 3 - 1 = 2
  BY Levels
<1>1. IsTrail(t.heap, node, 3, key, path)
  <2> HIDE DEF key
  <2> QED
    BY <1>0, VisitedFacts DEF SoundTable, SoundHeap
<1>2. FirstOfType(t, node, type) = IF t.heap[Last(path)].hook.type = type THEN Last(path) ELSE Null
  BY DEF FirstOfType
<1> HIDE DEF path
<1>3. /\ path \in Seq(DOMAIN t.heap) /\ Len(path) \in Nat \ {0} /\ path[1] = node
      /\ Last(path) = path[Len(path)] /\ Last(path) \in DOMAIN t.heap
  <2> HIDE DEF key
  <2> QED
    BY <1>1, LastOfTrail
<1>4. \A i \in 1 .. Len(path) - 1 : t.heap[path[i]].next[3] = path[i + 1]
  BY <1>1 DEF IsTrail
<1> HIDE DEF key
<1>5. ASSUME NEW i \in 1 .. Len(path) - 1
      PROVE  H(path[i + 1]).func = H(path[i]).func
  <2>1. path[i] \in DOMAIN t.heap /\ path[i + 1] \in DOMAIN t.heap
    BY <1>3
  <2>2. t.heap[path[i]].next[3] = path[i + 1] /\ path[i + 1] # Null
    BY <1>4, <2>1, NodeTypes DEF SoundTable, SoundHeap
  <2>3. Same(3 - 1, H(path[i]), H(path[i + 1]))
    BY <1>0, <2>1, <2>2 DEF SoundTable, SoundHeap, Layered
  <2>4. Same(2, H(path[i]), H(path[i + 1]))
    BY <1>0, <2>3
  <2> QED
    BY <2>4, SameFunction
<1>6. \A i \in 1 .. Len(path) : fits(i)
  <2> DEFINE wrong == {i \in 1 .. Len(path) : ~fits(i)}
  <2> SUFFICES ASSUME wrong # {} PROVE FALSE
    OBVIOUS
  <2>1. PICK i \in wrong : \A j \in wrong : i <= j
    <3>1. wrong \in SUBSET Nat
      BY <1>3
    <3> HIDE DEF wrong
    <3> QED
      BY <3>1, LeastNumber
  <2>2. i \in 1 .. Len(path) /\ ~fits(i) /\ i \in Nat
    BY <1>3, <2>1
  <2>3. fits(1)
    BY <1>3
  <2>4. i > 1 /\ i - 1 \in 1 .. Len(path) - 1 /\ i - 1 \in 1 .. Len(path) /\ (i - 1) + 1 = i
    <3> HIDE DEF fits
    <3> QED
      BY <1>3, <2>2, <2>3
  <2>5. fits(i - 1)
    <3>1. i - 1 \notin wrong
      <4> HIDE DEF wrong
      <4> QED
        BY <2>1, <2>2, <2>4
    <3> QED
      BY <2>4, <3>1
  <2>6. H(path[(i - 1) + 1]).func = H(path[i - 1]).func
    BY <1>5, <2>4
  <2> QED
    BY <2>2, <2>4, <2>5, <2>6
<1>7. Len(path) \in 1 .. Len(path)
  BY <1>3
<1> QED
  BY <1>2, <1>3, <1>6, <1>7

-----------------------------------------------------------------------------
(***************************************************************************)
(* Standing hooks.  From a node, run_hooks_of_type follows the list of     *)
(* types up to the type it is for, and then the collection: its way leads  *)
(* to x if every set that is closed under it has x.  Removed nodes are on  *)
(* such ways too, since calls hold on to them.                             *)
(***************************************************************************)
Onward(heap, n, type) == heap[n].next[IF heap[n].hook.type = type THEN 4 ELSE 3]

ClosedOnward(heap, S, type) == \A m \in S : Onward(heap, m, type) \in S \union {Null}

LeadsTo(heap, n, x) ==
    \A S \in SUBSET DOMAIN heap :
        n \in S /\ ClosedOnward(heap, S, heap[x].hook.type) => x \in S

\* The collection goes on from n without x.
IsPast(heap, n, x) ==
    \E S \in SUBSET DOMAIN heap :
        /\ heap[n].next[4] \in S \union {Null} /\ x \notin S
        /\ \A m \in S : heap[m].next[4] \in S \union {Null}

\* Neither the table nor what is held leads to a removed node of the hook of x.
OnlyNode(t, held, x) ==
    \E S \in SUBSET DOMAIN t.heap :
        /\ Linked(t) \subseteq S /\ held \subseteq S \union {Null}
        /\ Closed(t.heap, S)
        /\ \A m \in S : t.heap[m].hook = t.heap[x].hook => m = x

LEMMA OnwardIsLink ==
  ASSUME NEW heap, Typed(heap), NEW n \in DOMAIN heap, NEW type
  PROVE  Onward(heap, n, type) \in DOMAIN heap \union {Null}
<1>1. 3 \in Level /\ 4 \in Level
  BY Levels
<1> QED
  BY <1>1, NodeTypes DEF Onward

LEMMA LeadsOnward ==
  ASSUME NEW heap, Typed(heap), NEW n \in DOMAIN heap, NEW x \in DOMAIN heap, LeadsTo(heap, n, x), n # x
  PROVE  LET next == Onward(heap, n, heap[x].hook.type)
         IN  next # Null /\ next \in DOMAIN heap /\ LeadsTo(heap, next, x)
<1> DEFINE type == heap[x].hook.type
           next == Onward(heap, n, type)
<1>1. next \in DOMAIN heap \union {Null}
  BY OnwardIsLink
<1> HIDE DEF next
<1>2. \A S \in SUBSET DOMAIN heap : next \in S \union {Null} /\ ClosedOnward(heap, S, type) => x \in S
  <2> SUFFICES ASSUME NEW S \in SUBSET DOMAIN heap, next \in S \union {Null}, ClosedOnward(heap, S, type)
               PROVE  x \in S
    OBVIOUS
  <2>1. S \union {n} \in SUBSET DOMAIN heap /\ n \in S \union {n}
    OBVIOUS
  <2>2. ClosedOnward(heap, S \union {n}, type)
    BY DEF ClosedOnward, next
  <2>3. x \in S \union {n}
    BY <2>1, <2>2 DEF LeadsTo
  <2> QED
    BY <2>3
<1>3. next # Null
  <2>1. {} \in SUBSET DOMAIN heap /\ ClosedOnward(heap, {}, type)
    BY DEF ClosedOnward
  <2> QED
    BY <1>2, <2>1
<1> QED
  BY <1>1, <1>2, <1>3 DEF LeadsTo, next

LEMMA LeadsToFirst ==
  ASSUME NEW t, SoundTable(t), NEW node \in DOMAIN t.heap, NEW x \in DOMAIN t.heap, LeadsTo(t.heap, node, x)
  PROVE  LET first == FirstOfType(t, node, t.heap[x].hook.type)
         IN  first # Null /\ first \in DOMAIN t.heap /\ LeadsTo(t.heap, first, x)
<1> DEFINE type == t.heap[x].hook.type
           key == [t.heap[node].hook EXCEPT !.type = type]
           path == Visited(t, node, 3, key)
           last == path[Len(path)]
           D == DOMAIN t.heap
           T(n) == t.heap[n].hook.type
           on == {path[i] : i \in 1 .. Len(path)}
<1>0. 3 \in Level /\ \A n : Matches(3, t.heap[n].hook, key) <=> T(n) = type
  <2>1. Typed(t.heap) /\ t.heap[node].hook \in Hook
    BY NodeTypes DEF SoundTable, SoundHeap
  <2>2. key.type = type
    BY <2>1 DEF Hook
  <2> HIDE DEF key
  <2> QED
    BY <2>2, Levels DEF Matches
<1>1. IsTrail(t.heap, node, 3, key, path)
  <2> HIDE DEF key
  <2> QED
    BY <1>0, VisitedFacts DEF SoundTable, SoundHeap
<1>2. FirstOfType(t, node, type) = IF T(Last(path)) = type THEN Last(path) ELSE Null
  BY DEF FirstOfType
<1> HIDE DEF path
<1>3. /\ path \in Seq(D) /\ Len(path) \in Nat \ {0} /\ path[1] = node
      /\ Last(path) = last /\ last \in D
  <2> HIDE DEF key
  <2> QED
    BY <1>1, LastOfTrail
<1> HIDE DEF key
<1>4. /\ \A i \in 1 .. Len(path) - 1 : t.heap[path[i]].next[3] = path[i + 1] /\ T(path[i]) # type
      /\ T(last) = type \/ t.heap[last].next[3] = Null
  BY <1>0, <1>1 DEF IsTrail
<1>5. on \in SUBSET D /\ node \in on /\ last \in on
  BY <1>3
<1>6. \A n \in on : n = last \/ (T(n) # type /\ Onward(t.heap, n, type) \in on)
  <2> SUFFICES ASSUME NEW i \in 1 .. Len(path), path[i] # last
               PROVE  T(path[i]) # type /\ Onward(t.heap, path[i], type) \in on
    OBVIOUS
  <2>1. i \in 1 .. Len(path) - 1 /\ i + 1 \in 1 .. Len(path)
    BY <1>3
  <2>2. t.heap[path[i]].next[3] = path[i + 1] /\ T(path[i]) # type
    BY <1>4, <2>1
  <2> QED
    BY <2>1, <2>2 DEF Onward
<1> HIDE DEF on, last
<1>7. T(last) = type
  <2> SUFFICES ASSUME T(last) # type PROVE FALSE
    OBVIOUS
  <2>1. Onward(t.heap, last, type) = Null
    BY <1>4 DEF Onward
  <2>2. ClosedOnward(t.heap, on, type)
    BY <1>6, <2>1 DEF ClosedOnward
  <2>3. x \in on
    BY <1>5, <2>2 DEF LeadsTo
  <2> QED
    BY <1>6, <2>3
<1>8. LeadsTo(t.heap, last, x)
  <2> SUFFICES ASSUME NEW S \in SUBSET D, last \in S, ClosedOnward(t.heap, S, type)
               PROVE  x \in S
    BY DEF LeadsTo
  <2>1. S \union on \in SUBSET D /\ node \in S \union on
    BY <1>5
  <2>2. ClosedOnward(t.heap, S \union on, type)
    BY <1>6 DEF ClosedOnward
  <2>3. x \in S \union on
    BY <2>1, <2>2 DEF LeadsTo
  <2> QED
    BY <1>6, <2>3
<1>9. last # Null
  BY <1>3, NodeTypes DEF SoundTable, SoundHeap
<1> QED
  BY <1>2, <1>3, <1>7, <1>8, <1>9

LEMMA LeadsToPostHooks ==
  ASSUME NEW t, SoundTable(t), NEW node \in DOMAIN t.heap, NEW x \in DOMAIN t.heap, LeadsTo(t.heap, node, x),
         t.heap[x].hook.type # "PRE"
  PROVE  HasPostHooks(t, node)
<1> DEFINE D == DOMAIN t.heap
           next(n) == t.heap[n].next[3]
           post(n) == t.heap[n].hook.type # "PRE"
           body(s) == [n \in D |-> post(n) \/ (next(n) # Null /\ s[next(n)])]
           seek == CHOOSE s : s = body(s)
           closed(S) == \A n \in S : next(n) \in S \union {Null}
           f == [n \in D |-> \A S \in SUBSET D : n \in S /\ closed(S) => \E m \in S : post(m)]
<1>1. \A n \in D : next(n) \in D \union {Null}
  BY Levels, NodeTypes DEF SoundTable, SoundHeap
<1>2. ASSUME NEW n \in D PROVE f[n] <=> post(n) \/ (next(n) # Null /\ f[next(n)])
  <2>1. CASE post(n)
    BY <2>1
  <2>2. CASE ~post(n) /\ next(n) = Null
    <3>1. {n} \in SUBSET D /\ closed({n}) /\ \A m \in {n} : ~post(m)
      BY <2>2
    <3> QED
      BY <2>2, <3>1
  <2>3. CASE ~post(n) /\ next(n) # Null
    <3>1. next(n) \in D
      BY <1>1, <2>3
    <3>2. ASSUME f[next(n)] PROVE f[n]
      <4> SUFFICES ASSUME NEW S \in SUBSET D, n \in S, closed(S) PROVE \E m \in S : post(m)
        OBVIOUS
      <4>1. next(n) \in S
        BY <2>3
      <4> QED
        BY <3>1, <3>2, <4>1
    <3>3. ASSUME ~f[next(n)] PROVE ~f[n]
      <4>1. PICK S \in SUBSET D : next(n) \in S /\ closed(S) /\ \A m \in S : ~post(m)
        BY <3>1, <3>3
      <4>2. S \union {n} \in SUBSET D /\ closed(S \union {n}) /\ \A m \in S \union {n} : ~post(m)
        BY <2>3, <4>1
      <4> QED
        BY <4>2
    <3> QED
      BY <2>3, <3>2, <3>3
  <2> QED
    BY <2>1, <2>2, <2>3
<1>3. f = body(f)
  <2>1. \A n \in D : f[n] = (post(n) \/ (next(n) # Null /\ f[next(n)]))
    <3> SUFFICES ASSUME NEW n \in D PROVE f[n] = (post(n) \/ (next(n) # Null /\ f[next(n)]))
      OBVIOUS
    <3>1. f[n] \in BOOLEAN
      OBVIOUS
    <3> HIDE DEF f, post, next
    <3> QED
      BY <1>2, <3>1
  <2>2. f = [n \in D |-> f[n]]
    OBVIOUS
  <2> HIDE DEF f, post, next
  <2> QED
    BY <2>1, <2>2
<1> HIDE DEF f
<1>4. seek = body(seek)
  <2> HIDE DEF body
  <2> QED
    BY <1>3
<1>5. HasPostHooks(t, node) <=> seek[node]
  BY Zenon DEF HasPostHooks
<1> HIDE DEF seek
<1>6. \A n \in D : seek[n] = (post(n) \/ (next(n) # Null /\ seek[next(n)]))
  <2> HIDE DEF post, next
  <2> QED
    BY <1>4
<1> DEFINE S == {n \in D : ~seek[n]}
<1>7. ClosedOnward(t.heap, S, t.heap[x].hook.type)
  <2> SUFFICES ASSUME NEW n \in S PROVE Onward(t.heap, n, t.heap[x].hook.type) \in S \union {Null}
    BY DEF ClosedOnward
  <2>1. ~post(n) /\ (next(n) = Null \/ ~seek[next(n)])
    BY <1>6
  <2>2. Onward(t.heap, n, t.heap[x].hook.type) = next(n)
    BY <2>1 DEF Onward
  <2> QED
    BY <1>1, <2>1, <2>2
<1>8. x \notin S
  BY <1>6
<1>9. node \notin S
  BY <1>7, <1>8 DEF LeadsTo
<1> QED
  BY <1>5, <1>9

\* The last node run is past: no node is reached from its own links.
LEMMA PastItself ==
  ASSUME NEW t, SoundTable(t), NEW x \in DOMAIN t.heap
  PROVE  IsPast(t.heap, x, x)
<1> DEFINE links == {t.heap[x].next[l] : l \in Level}
           S == Reach(t.heap, links)
<1>1. 4 \in Level /\ Typed(t.heap) /\ IsFiniteSet(DOMAIN t.heap) /\ Acyclic(t.heap)
  BY Levels DEF SoundTable, SoundHeap
<1>2. links \in SUBSET (DOMAIN t.heap \union {Null})
  BY <1>1, NodeTypes
<1> HIDE DEF links
<1>3. S \in SUBSET DOMAIN t.heap /\ links \ {Null} \subseteq S /\ Closed(t.heap, S)
  BY <1>1, <1>2, ReachIsLeast
<1>4. x \notin S
  BY <1>1, NoCycle DEF links
<1> HIDE DEF S
<1>5. t.heap[x].next[4] \in S \union {Null}
  BY <1>1, <1>3 DEF links
<1>6. \A m \in S : t.heap[m].next[4] \in S \union {Null}
  BY <1>1, <1>3 DEF Closed
<1> QED
  BY <1>3, <1>4, <1>5, <1>6 DEF IsPast

\* What is known of the node x of a standing hook, and of the nodes that stay, stays true.
Keeps(t, t2, x) ==
    LET both == DOMAIN t.heap \intersect DOMAIN t2.heap
    IN  /\ x \in Linked(t2) /\ t2.heap[x].hook = t.heap[x].hook
        /\ \A n \in both : LeadsTo(t.heap, n, x) => LeadsTo(t2.heap, n, x)
        /\ \A n \in both : IsPast(t.heap, n, x) => IsPast(t2.heap, n, x)
        /\ \A held \in SUBSET (both \union {Null}) : OnlyNode(t, held, x) => OnlyNode(t2, held, x)

LEMMA OwnedKeeps ==
  ASSUME NEW t, InOrder(t), NEW pins \in SUBSET (DOMAIN t.heap \union {Null}), NEW x \in Linked(t)
  PROVE  Keeps(t, Owned(t, pins), x)
<1> DEFINE t2 == Owned(t, pins)
           D == DOMAIN t.heap
           D2 == DOMAIN t2.heap
<1>1. /\ InOrder(t2) /\ D2 \subseteq D /\ Linked(t2) = Linked(t)
      /\ \A n \in D2 : t2.heap[n] = t.heap[n]
  BY OwnedFacts
<1> HIDE DEF t2
<1>2. /\ \A n \in D2, l \in Level : t2.heap[n].next[l] \in D2 \union {Null}
      /\ Linked(t) \in SUBSET D2 /\ x \in D2
  <2>1. SoundTable(t2) /\ Typed(t2.heap)
    BY <1>1 DEF InOrder, SoundTable, SoundHeap
  <2>2. Linked(t2) \in SUBSET D2
    BY <2>1, LinkedFacts
  <2> QED
    BY <1>1, <2>1, <2>2, NodeTypes
<1>3. x \in Linked(t2) /\ t2.heap[x].hook = t.heap[x].hook
  BY <1>1, <1>2
<1>4. ASSUME NEW n \in D2, LeadsTo(t.heap, n, x)
      PROVE  LeadsTo(t2.heap, n, x)
  <2> SUFFICES ASSUME NEW S \in SUBSET D2, n \in S, ClosedOnward(t2.heap, S, t2.heap[x].hook.type)
               PROVE  x \in S
    BY DEF LeadsTo
  <2>1. ClosedOnward(t.heap, S, t.heap[x].hook.type)
    BY <1>1, <1>3 DEF ClosedOnward, Onward
  <2> QED
    BY <1>1, <1>4, <2>1 DEF LeadsTo
<1>5. ASSUME NEW n \in D2, IsPast(t.heap, n, x)
      PROVE  IsPast(t2.heap, n, x)
  <2>1. PICK S \in SUBSET D :
           /\ t.heap[n].next[4] \in S \union {Null} /\ x \notin S
           /\ \A m \in S : t.heap[m].next[4] \in S \union {Null}
    BY <1>5 DEF IsPast
  <2>2. 4 \in Level
    BY Levels
  <2>3. \A m \in D2 : t2.heap[m].next[4] = t.heap[m].next[4] /\ t2.heap[m].next[4] \in D2 \union {Null}
    BY <1>1, <1>2, <2>2
  <2> DEFINE S2 == S \intersect D2
  <2>4. S2 \in SUBSET D2 /\ t2.heap[n].next[4] \in S2 \union {Null} /\ x \notin S2
    BY <2>1, <2>3
  <2>5. \A m \in S2 : t2.heap[m].next[4] \in S2 \union {Null}
    BY <2>1, <2>3
  <2> QED
    BY <2>4, <2>5 DEF IsPast
<1>6. ASSUME NEW held \in SUBSET (D2 \union {Null}), OnlyNode(t, held, x)
      PROVE  OnlyNode(t2, held, x)
  <2>1. PICK S \in SUBSET D :
           /\ Linked(t) \subseteq S /\ held \subseteq S \union {Null} /\ Closed(t.heap, S)
           /\ \A m \in S : t.heap[m].hook = t.heap[x].hook => m = x
    BY <1>6 DEF OnlyNode
  <2> DEFINE S2 == S \intersect D2
  <2>2. S2 \in SUBSET D2 /\ Linked(t2) \subseteq S2 /\ held \subseteq S2 \union {Null}
    BY <1>1, <1>2, <2>1
  <2>3. Closed(t2.heap, S2)
    BY <1>1, <1>2, <2>1 DEF Closed
  <2>4. \A m \in S2 : t2.heap[m].hook = t2.heap[x].hook => m = x
    BY <1>1, <1>2, <2>1
  <2> QED
    BY <2>2, <2>3, <2>4 DEF OnlyNode
<1>7. \A n \in D \intersect D2 : n \in D2
  OBVIOUS
<1>8. \A held \in SUBSET ((D \intersect D2) \union {Null}) : held \in SUBSET (D2 \union {Null})
  OBVIOUS
<1> QED
  BY <1>3, <1>4, <1>5, <1>6, <1>7, <1>8, Zenon DEF Keeps, t2

LEMMA LengthenedKeeps ==
  ASSUME NEW t, SoundTable(t), NEW rank, Ranked(t, rank), NEW hook \in Hook, NEW new, new \notin DOMAIN t.heap,
         NEW prev, NEW level \in 0 .. 4, NEW t2,
         Lengthened(t, t2, hook, new, prev, level), MissingAfter(t, rank, hook, prev, level),
         NEW x \in Linked(t)
  PROVE  Keeps(t, t2, x)
<1> DEFINE D == DOMAIN t.heap
           D2 == DOMAIN t2.heap
<1>1. /\ D2 = D \union {new}
      /\ \A n \in D : t2.heap[n].hook = t.heap[n].hook
      /\ \A n \in D, l \in Level : t2.heap[n].next[l] = IF n = prev /\ l = level THEN new ELSE t.heap[n].next[l]
      /\ t2.heap[new].hook = hook
      /\ \A l \in Level : t2.heap[new].next[l] = Null
  BY DEF Lengthened
<1>2. SoundTable(t2) /\ Linked(t2) = Linked(t) \union {new}
  BY LengthenedIsInOrder
<1>3. x \in D /\ x # new /\ Linked(t) \in SUBSET D
  BY LinkedFacts
<1>4. /\ t.heap[x].hook # hook
      /\ \A l \in Level : l = level => t.heap[prev].next[level] = Null
  <2>1. ~Same(level, t.heap[x].hook, hook)
    BY DEF MissingAfter
  <2>2. Same(level, hook, hook)
    BY SameFacts
  <2> QED
    BY <2>1, <2>2, LowestLevel DEF MissingAfter
<1>5. \A n \in D, l \in Level : t.heap[n].next[l] \in D \union {Null}
  BY NodeTypes DEF SoundTable, SoundHeap
<1>6. 3 \in Level /\ 4 \in Level
  BY Levels
<1>7. x \in Linked(t2) /\ t2.heap[x].hook = t.heap[x].hook
  BY <1>1, <1>2, <1>3
<1>8. ASSUME NEW n \in D, LeadsTo(t.heap, n, x)
      PROVE  LeadsTo(t2.heap, n, x)
  <2> SUFFICES ASSUME NEW S \in SUBSET D2, n \in S, ClosedOnward(t2.heap, S, t2.heap[x].hook.type)
               PROVE  x \in S
    BY DEF LeadsTo
  <2> DEFINE type == t.heap[x].hook.type
             S1 == S \ {new}
  <2>1. S1 \in SUBSET D /\ n \in S1
    BY <1>1
  <2>2. ASSUME NEW m \in S1 PROVE Onward(t.heap, m, type) \in S1 \union {Null}
    <3> DEFINE l == IF t.heap[m].hook.type = type THEN 4 ELSE 3
    <3>1. l \in Level /\ m \in D /\ t2.heap[m].hook = t.heap[m].hook
      BY <1>1, <1>6, <2>1
    <3>2. t2.heap[m].next[l] \in S \union {Null}
      BY <1>7, <3>1 DEF ClosedOnward, Onward
    <3>3. t.heap[m].next[l] = Null \/ t2.heap[m].next[l] = t.heap[m].next[l]
      BY <1>1, <1>4, <3>1
    <3>4. t.heap[m].next[l] \in D \union {Null}
      BY <1>5, <3>1
    <3>5. t.heap[m].next[l] \in S1 \union {Null}
      BY <3>2, <3>3, <3>4
    <3> QED
      BY <3>5 DEF Onward
  <2>3. ClosedOnward(t.heap, S1, type)
    BY <2>2 DEF ClosedOnward
  <2> QED
    BY <1>8, <2>1, <2>3 DEF LeadsTo
<1>9. ASSUME NEW n \in D, IsPast(t.heap, n, x)
      PROVE  IsPast(t2.heap, n, x)
  <2>1. PICK S \in SUBSET D :
           /\ t.heap[n].next[4] \in S \union {Null} /\ x \notin S
           /\ \A m \in S : t.heap[m].next[4] \in S \union {Null}
    BY <1>9 DEF IsPast
  <2> DEFINE S2 == S \union {new}
  <2>2. \A m \in D : t2.heap[m].next[4] \in {new, t.heap[m].next[4]}
    BY <1>1, <1>6
  <2>3. S2 \in SUBSET D2 /\ t2.heap[n].next[4] \in S2 \union {Null} /\ x \notin S2
    BY <1>1, <1>3, <2>1, <2>2
  <2>4. \A m \in S2 : t2.heap[m].next[4] \in S2 \union {Null}
    BY <1>1, <1>6, <2>1, <2>2
  <2> QED
    BY <2>3, <2>4 DEF IsPast
<1>10. ASSUME NEW held \in SUBSET (D \union {Null}), OnlyNode(t, held, x)
       PROVE  OnlyNode(t2, held, x)
  <2>1. PICK S \in SUBSET D :
           /\ Linked(t) \subseteq S /\ held \subseteq S \union {Null} /\ Closed(t.heap, S)
           /\ \A m \in S : t.heap[m].hook = t.heap[x].hook => m = x
    BY <1>10 DEF OnlyNode
  <2> DEFINE S2 == S \union {new}
  <2>2. S2 \in SUBSET D2 /\ Linked(t2) \subseteq S2 /\ held \subseteq S2 \union {Null}
    BY <1>1, <1>2, <2>1
  <2>3. Closed(t2.heap, S2)
    BY <1>1, <2>1 DEF Closed
  <2>4. \A m \in S2 : t2.heap[m].hook = t2.heap[x].hook => m = x
    BY <1>1, <1>4, <1>7, <2>1
  <2> QED
    BY <2>2, <2>3, <2>4 DEF OnlyNode
<1>11. D \intersect D2 = D
  BY <1>1
<1> QED
  BY <1>7, <1>8, <1>9, <1>10, <1>11, Zenon DEF Keeps

LEMMA UnlinkedKeeps ==
  ASSUME NEW t, SoundTable(t), NEW rank, Ranked(t, rank), NEW n, NEW prev, NEW top \in 0 .. 4,
         LinkedAfter(t, rank, n, prev, top), NEW t2, NEW h, NEW j, Unlinked(t, t2, n, h, j, prev, top),
         NEW x \in Linked(t), x # n
  PROVE  Keeps(t, t2, x)
<1> DEFINE D == DOMAIN t.heap
           N(m, l) == t.heap[m].next[l]
           N2(m, l) == t2.heap[m].next[l]
           bottom == Lowest(top)
<1>1. /\ DOMAIN t2.heap = D
      /\ \A m \in D : t2.heap[m].hook = t.heap[m].hook
      /\ j \in bottom .. 4 /\ h = N(n, j) /\ bottom \in 1 .. 4
      /\ \A k \in Level : k > j => N(n, k) = Null
      /\ h = Null => j = bottom
      /\ \A m \in D, k \in Level :
            N2(m, k) = IF m = n /\ bottom <= k /\ k < j THEN h
                       ELSE IF m = h /\ bottom <= k /\ k < j THEN N(n, k)
                       ELSE IF m = prev /\ k = top THEN h
                       ELSE N(m, k)
  BY DEF Unlinked, Lowest
<1>2. SoundTable(t2) /\ Linked(t2) = Linked(t) \ {n}
  BY UnlinkedIsInOrder
<1>3. x \in D /\ n \in D /\ n \in Linked(t) /\ Linked(t) \in SUBSET D /\ rank[n] = top
  BY LinkedFacts DEF LinkedAfter
<1>4. \A m \in Linked(t), l \in Level : N(m, l) # Null =>
         /\ N(m, l) \in Linked(t) /\ rank[m] <= l /\ rank[N(m, l)] = l
         /\ Same(l - 1, t.heap[m].hook, t.heap[N(m, l)].hook)
  BY RankedFacts
<1>5. j \in Level /\ 3 \in Level /\ 4 \in Level /\ Level = 1 .. 4
  BY <1>1, Levels
<1>6. \A m \in D, l \in Level : N(m, l) \in D \union {Null}
  BY NodeTypes DEF SoundTable, SoundHeap
<1>7. h # Null => h \in Linked(t) /\ h # n /\ h \in D /\ \A k \in Level : k < j => N(h, k) = Null
  <2>1. h # Null => h \in Linked(t) /\ rank[h] = j /\ h \in D
    BY <1>1, <1>3, <1>4, <1>5
  <2>2. h # n
    <3>1. {n} \in SUBSET D /\ {n} # {}
      BY <1>3
    <3>2. PICK m \in {n} : \A l \in Level : t.heap[m].next[l] \notin {n}
      BY <3>1 DEF SoundTable, SoundHeap, Acyclic
    <3> QED
      BY <1>1, <1>5, <3>2
  <2> QED
    BY <1>4, <1>5, <2>1, <2>2
<1>8. prev \in D => N(prev, top) = n \/ top = 0
  BY <1>3 DEF LinkedAfter
<1>8a. \A k \in Level : N(n, k) # Null => k <= j /\ top <= k /\ bottom <= k
  <2>1. \A k \in Level : ~(k > j) => k <= j
    BY <1>1, <1>5
  <2>2. \A k \in Level : top <= k => bottom <= k
    BY <1>5 DEF Lowest
  <2> HIDE DEF bottom
  <2> QED
    BY <1>1, <1>3, <1>4, <2>1, <2>2
<1>8b. N2(n, j) = N(n, j)
  <2>1. ~(n = prev /\ j = top)
    <3> SUFFICES ASSUME n = prev, j = top PROVE FALSE
      OBVIOUS
    <3>1. top # 0 /\ N(n, j) = n
      BY <1>3, <1>5, <1>8
    <3> QED
      BY <1>1, <1>3, <1>7, <3>1, NodeTypes DEF SoundTable, SoundHeap
  <2>2. n # h
    BY <1>3, <1>7, NodeTypes DEF SoundTable, SoundHeap
  <2>3. ~(j < j)
    BY <1>5
  <2> HIDE DEF bottom
  <2> QED
    BY <1>1, <1>3, <1>5, <2>1, <2>2, <2>3
<1>9. x \in Linked(t2) /\ t2.heap[x].hook = t.heap[x].hook
  BY <1>1, <1>2, <1>3
<1> HIDE DEF bottom
<1>10. ASSUME NEW m \in D, LeadsTo(t.heap, m, x)
       PROVE  LeadsTo(t2.heap, m, x)
  <2> SUFFICES ASSUME NEW S2 \in SUBSET D, m \in S2, ClosedOnward(t2.heap, S2, t2.heap[x].hook.type)
               PROVE  x \in S2
    BY <1>1 DEF LeadsTo
  <2> DEFINE type == t.heap[x].hook.type
             L(a) == IF t.heap[a].hook.type = type THEN 4 ELSE 3
             links == n \in S2 \/ (prev \in S2 /\ L(prev) = top)
             S == IF links THEN S2 \union {n} ELSE S2
  <2>1. \A a \in S2 : N2(a, L(a)) \in S2 \union {Null}
    BY <1>1, <1>9 DEF ClosedOnward, Onward
  <2>2. \A a : L(a) \in Level /\ L(a) \in {3, 4}
    BY <1>5
  <2>3. links => h \in S2 \union {Null} \/ n \in S2
    <3> SUFFICES ASSUME prev \in S2, L(prev) = top, n \notin S2, h \notin S2 \union {Null} PROVE FALSE
      BY DEF links
    <3>1. N2(prev, top) = h \/ (prev = h /\ top < j /\ bottom <= top)
      BY <1>1, <2>2
    <3> QED
      BY <2>1, <3>1
  <2>4. links => N(n, L(n)) \in S \union {Null}
    <3> SUFFICES ASSUME links, N(n, L(n)) # Null PROVE N(n, L(n)) \in S2
      OBVIOUS
    <3>1. L(n) <= j /\ top <= L(n) /\ bottom <= L(n)
      BY <1>8a, <2>2
    <3>2. CASE L(n) = j
      <4>1. CASE n \in S2
        BY <1>8b, <2>1, <3>2, <4>1
      <4>2. CASE n \notin S2
        BY <1>1, <2>3, <3>2, <4>2
      <4> QED
        BY <4>1, <4>2
    <3>3. CASE L(n) < j
      <4>1. L(n) = 3 /\ j = 4 /\ t.heap[n].hook.type # type /\ h # Null
        <5>1. L(n) \in {3, 4} /\ j \in 1 .. 4
          BY <1>5, <2>2
        <5>2. L(n) = 3 /\ j = 4
          <6> HIDE DEF L
          <6> QED
            BY <3>3, <5>1
        <5>3. j # bottom
          <6> HIDE DEF L, bottom
          <6> QED
            BY <3>1, <5>2
        <5> QED
          BY <1>1, <5>2, <5>3
      <4>2. t.heap[h].hook.type = t.heap[n].hook.type
        BY <1>1, <1>3, <4>1, NextInCollection
      <4>3. bottom <= 3
        BY <3>1, <4>1
      <4>4. N2(n, 3) = h /\ N2(h, 3) = N(n, 3)
        <5>1. bottom <= 3 /\ 3 < j /\ n \in D /\ h \in D /\ h # n /\ 3 \in Level
          BY <1>3, <1>5, <1>7, <4>1, <4>3
        <5> HIDE DEF L
        <5> QED
          BY <1>1, <5>1
      <4>5. h \in S2
        BY <2>1, <2>3, <4>1, <4>4
      <4> QED
        BY <2>1, <4>1, <4>2, <4>4, <4>5
    <3> QED
      BY <1>1, <2>2, <3>1, <3>2, <3>3
  <2>5. ASSUME NEW a \in S2, a # n
        PROVE  N(a, L(a)) \in S \union {Null}
    <3>1. a \in D /\ N2(a, L(a)) \in S2 \union {Null} /\ L(a) \in Level
      BY <2>1, <2>2
    <3>2. CASE a = h /\ bottom <= L(a) /\ L(a) < j
      <4>1. h # Null
        BY <1>3, <3>1, <3>2, NodeTypes DEF SoundTable, SoundHeap
      <4> QED
        BY <1>7, <3>1, <3>2, <4>1
    <3>3. CASE a = prev /\ L(a) = top
      BY <1>8, <2>2, <3>1, <3>3
    <3>4. CASE ~(a = h /\ bottom <= L(a) /\ L(a) < j) /\ ~(a = prev /\ L(a) = top)
      <4>1. N2(a, L(a)) = N(a, L(a))
        BY <1>1, <2>5, <3>1, <3>4
      <4> QED
        BY <3>1, <4>1
    <3> QED
      BY <3>2, <3>3, <3>4
  <2>6. S \in SUBSET D /\ m \in S
    BY <1>3
  <2>7. \A a \in S : N(a, L(a)) \in S \union {Null}
    BY <2>4, <2>5
  <2> HIDE DEF links, S
  <2>8. ClosedOnward(t.heap, S, type)
    BY <2>7 DEF ClosedOnward, Onward
  <2>9. x \in S
    BY <1>10, <2>6, <2>8 DEF LeadsTo
  <2> QED
    BY <2>9 DEF S
<1>11. ASSUME NEW m \in D, IsPast(t.heap, m, x)
       PROVE  IsPast(t2.heap, m, x)
  <2>1. PICK S \in SUBSET D :
           /\ N(m, 4) \in S \union {Null} /\ x \notin S
           /\ \A a \in S : N(a, 4) \in S \union {Null}
    BY <1>11 DEF IsPast
  <2>2. \A a \in D : N2(a, 4) = N(a, 4) \/ (N(a, 4) = n /\ N2(a, 4) = N(n, 4))
    <3> SUFFICES ASSUME NEW a \in D, N2(a, 4) # N(a, 4) PROVE N(a, 4) = n /\ N2(a, 4) = N(n, 4)
      OBVIOUS
    <3>1. ~(4 < j)
      BY <1>1
    <3>2. a = prev /\ top = 4 /\ N2(a, 4) = h
      BY <1>1, <1>5, <3>1
    <3>3. j = 4
      BY <1>1, <3>2 DEF bottom, Lowest
    <3> QED
      BY <1>1, <1>8, <3>2, <3>3
  <2>3. \A a \in S : N2(a, 4) \in S \union {Null}
    BY <1>3, <2>1, <2>2, NodeTypes DEF SoundTable, SoundHeap
  <2>4. N2(m, 4) \in S \union {Null}
    BY <1>3, <2>1, <2>2, NodeTypes DEF SoundTable, SoundHeap
  <2> QED
    BY <1>1, <2>1, <2>3, <2>4 DEF IsPast
<1>12. ASSUME NEW held \in SUBSET (D \union {Null}), OnlyNode(t, held, x)
       PROVE  OnlyNode(t2, held, x)
  <2>1. PICK S \in SUBSET D :
           /\ Linked(t) \subseteq S /\ held \subseteq S \union {Null} /\ Closed(t.heap, S)
           /\ \A m \in S : t.heap[m].hook = t.heap[x].hook => m = x
    BY <1>12 DEF OnlyNode
  <2>2. ASSUME NEW a \in S, NEW l \in Level PROVE N2(a, l) \in S \union {Null}
    <3>1. N(a, l) \in S \union {Null} /\ N(n, l) \in S \union {Null} /\ h \in S \union {Null}
      BY <1>3, <1>4, <1>7, <2>1 DEF Closed
    <3> QED
      BY <1>1, <2>1, <3>1
  <2>3. Closed(t2.heap, S)
    BY <2>2 DEF Closed
  <2>4. \A m \in S : t2.heap[m].hook = t2.heap[x].hook => m = x
    BY <1>1, <1>3, <2>1
  <2>5. S \in SUBSET DOMAIN t2.heap /\ Linked(t2) \subseteq S
    BY <1>1, <1>2, <2>1
  <2> QED
    BY <2>1, <2>3, <2>4, <2>5 DEF OnlyNode
<1>13. D \intersect DOMAIN t2.heap = D
  BY <1>1
<1> QED
  BY <1>9, <1>10, <1>11, <1>12, <1>13, Zenon DEF Keeps

\* A set closed under the links of a loop has all that the loop visits.
LEMMA TrailStays ==
  ASSUME NEW heap, Typed(heap), NEW start, NEW level \in Level, NEW hook, NEW trail,
         IsTrail(heap, start, level, hook, trail), NEW S, start \in S,
         \A m \in S : \/ Matches(level, heap[m].hook, hook)
                      \/ heap[m].next[level] \in S \union {Null}
  PROVE  Last(trail) \in S
<1>1. /\ trail \in Seq(DOMAIN heap) /\ Len(trail) \in Nat \ {0} /\ trail[1] = start
      /\ Last(trail) = trail[Len(trail)]
  BY LastOfTrail
<1>2. \A i \in 1 .. Len(trail) - 1 :
         heap[trail[i]].next[level] = trail[i + 1] /\ ~Matches(level, heap[trail[i]].hook, hook)
  BY DEF IsTrail
<1> DEFINE out == {i \in 1 .. Len(trail) : trail[i] \notin S}
<1> SUFFICES ASSUME out # {} PROVE FALSE
  BY <1>1
<1>3. PICK i \in out : \A k \in out : i <= k
  <2>1. out \in SUBSET Nat
    BY <1>1
  <2> HIDE DEF out
  <2> QED
    BY <2>1, LeastNumber
<1>4. i \in 1 .. Len(trail) /\ trail[i] \notin S /\ i \in Nat /\ i # 1
  BY <1>1, <1>3
<1>5. i - 1 \in 1 .. Len(trail) - 1 /\ i - 1 \in 1 .. Len(trail) /\ (i - 1) + 1 = i /\ ~(i <= i - 1)
  BY <1>1, <1>4
<1>6. trail[i - 1] \in S
  BY <1>3, <1>5
<1>7. heap[trail[i - 1]].next[level] = trail[i]
  BY <1>2, <1>5
<1>8. trail[i] # Null
  BY <1>1, <1>4, NodeTypes
<1> QED
  BY <1>2, <1>4, <1>5, <1>6, <1>7, <1>8

LEMMA FirstStays ==
  ASSUME NEW t, SoundTable(t), NEW node \in DOMAIN t.heap, NEW type, NEW S, node \in S, Closed(t.heap, S)
  PROVE  FirstOfType(t, node, type) \in S \union {Null}
<1> DEFINE key == [t.heap[node].hook EXCEPT !.type = type]
           path == Visited(t, node, 3, key)
<1>1. 3 \in Level /\ Typed(t.heap)
  BY Levels DEF SoundTable, SoundHeap
<1>2. FirstOfType(t, node, type) \in {Last(path), Null}
  BY DEF FirstOfType
<1> HIDE DEF key
<1>3. IsTrail(t.heap, node, 3, key, path)
  BY <1>1, VisitedFacts DEF SoundTable, SoundHeap
<1> HIDE DEF path
<1>4. \A m \in S : t.heap[m].next[3] \in S \union {Null}
  BY <1>1 DEF Closed
<1>5. Last(path) \in S
  BY <1>1, <1>3, <1>4, TrailStays
<1> QED
  BY <1>2, <1>5

(***************************************************************************)
(* What preprocess_hook finds leads to every hook of the function.         *)
(***************************************************************************)
LEMMA FirstLeads ==
  ASSUME NEW t, SoundTable(t), NEW rank, Ranked(t, rank), NEW x \in Linked(t)
  PROVE  LET head == FirstOf(t, t.heap[x].hook.func)
         IN  /\ head \in DOMAIN t.heap
             /\ LeadsTo(t.heap, head, x) /\ OnlyNode(t, {head, Null}, x)
<1> DEFINE hook == t.heap[x].hook
           head == FirstOf(t, hook.func)
           D == DOMAIN t.heap
           H(n) == t.heap[n].hook
           path == Visited(t, head, 3, hook)
           first == Last(path)
<1>1. Linked(t) \in SUBSET D /\ x \in D /\ hook \in Hook /\ hook.func \in Func /\ Typed(t.heap)
  BY LinkedFacts, NodeTypes DEF Hook, SoundTable, SoundHeap
<1>2. head # Null /\ head \in Linked(t) /\ H(head).func = hook.func /\ rank[head] <= 2
  BY <1>1, FirstOfIsExact
<1> HIDE DEF head
<1>3. 3 \in Level /\ 3 - 1 = 2 /\ 4 \in Level /\ 4 - 1 = 3
  BY Levels
<1>4. Same(2, H(head), hook)
  <2>1. Matches(1, H(head), hook) /\ Matches(2, H(head), hook)
    BY <1>2 DEF Matches
  <2>2. \A k \in Level : k <= 2 => k = 1 \/ k = 2
    BY Levels
  <2> QED
    BY <1>2, <2>1, <2>2 DEF Same
<1>5. /\ Traced(t, rank, hook, 3, path) /\ path[1] = head
      /\ Found(t, path, 3, hook) <=> Same(3, H(first), hook)
      /\ ~Found(t, path, 3, hook) => \A y \in Linked(t) : ~Same(3, H(y), hook)
  <2> HIDE DEF hook
  <2> QED
    BY <1>2, <1>3, <1>4, OneList
<1> HIDE DEF path
<1>6. Same(3, H(first), hook)
  BY <1>5, SameFacts
<1>7. IsTrail(t.heap, head, 3, hook, path)
  BY <1>5 DEF Traced
<1>8. first \in Linked(t) /\ rank[first] <= 3
  <2>1. first = path[Len(path)] /\ Len(path) \in 1 .. Len(path)
    BY <1>7, LastOfTrail
  <2> QED
    BY <1>5, <2>1 DEF Traced
<1>9. H(first).type = hook.type
  BY <1>6, SameFunction
<1>10. LeadsTo(t.heap, head, x)
  <2> SUFFICES ASSUME NEW S \in SUBSET D, head \in S, ClosedOnward(t.heap, S, hook.type)
               PROVE  x \in S
    BY DEF LeadsTo
  <2>1. \A m \in S : Matches(3, H(m), hook) \/ t.heap[m].next[3] \in S \union {Null}
    BY DEF ClosedOnward, Onward, Matches
  <2>2. first \in S
    <3> HIDE DEF hook
    <3> QED
      BY <1>1, <1>3, <1>7, <2>1, TrailStays
  <2> DEFINE T == {m \in S : H(m).type = hook.type}
  <2>3. \A m \in T : t.heap[m].next[4] # Null => t.heap[m].next[4] \in T
    <3> SUFFICES ASSUME NEW m \in T, t.heap[m].next[4] # Null PROVE t.heap[m].next[4] \in T
      OBVIOUS
    <3>1. t.heap[m].next[4] \in S
      BY DEF ClosedOnward, Onward
    <3>2. H(t.heap[m].next[4]).type = H(m).type
      BY NextInCollection
    <3> QED
      BY <3>1, <3>2
  <2>4. first \in T
    BY <1>9, <2>2
  <2>5. rank[first] <= 4 - 1 /\ Same(4 - 1, H(first), H(x)) /\ rank[x] <= 4
    BY <1>3, <1>6, <1>8, RankedFacts
  <2> HIDE DEF T, first
  <2>6. x \in T
    BY <1>3, <1>8, <2>3, <2>4, <2>5, HangsFromHead
  <2> QED
    BY <2>6 DEF T
<1>11. OnlyNode(t, {head, Null}, x)
  <2>1. Closed(t.heap, Linked(t))
    BY LinkedFacts DEF Closed
  <2>2. \A m \in Linked(t) : H(m) = H(x) => m = x
    BY OneNodePerHook
  <2> QED
    BY <1>1, <1>2, <2>1, <2>2 DEF OnlyNode
<1> QED
  BY <1>1, <1>2, <1>10, <1>11 DEF head
=============================================================================

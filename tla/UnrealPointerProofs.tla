------------------------ MODULE UnrealPointerProofs --------------------------
(***************************************************************************)
(* Proofs about UnrealPointer, for any number of threads, pointers and     *)
(* blocks.  The argument: the count of a block is the number of pointers   *)
(* that own it (PointersInv).  A thread that attaches copies a pointer it  *)
(* keeps others from changing, so the block has an owner and its count is  *)
(* not zero; a thread that drops counts as the owner until its decrement,  *)
(* and the one decrement that reaches zero finds no owner left.            *)
(***************************************************************************)
EXTENDS UnrealPointer, FiniteSetTheorems, TLAPS

\* Any set of pointers can be counted.
LEMMA OwnersFinite ==
    \A b \in Block : IsFiniteSet(Owners(b)) /\ Cardinality(Owners(b)) \in Nat
<1> SUFFICES ASSUME NEW b \in Block
             PROVE  IsFiniteSet(Owners(b)) /\ Cardinality(Owners(b)) \in Nat
    OBVIOUS
<1>1. Owners(b) \in SUBSET Ptr /\ IsFiniteSet(Ptr)
    BY UnrealPointerAssumption DEF Owners
<1>2. IsFiniteSet(Owners(b))
    BY <1>1, FS_Subset
<1> QED
    BY <1>2, FS_CardinalityType

\* The count is zero exactly if nobody owns the block.
LEMMA CountZero ==
    ASSUME CountsOwners, NEW b \in Block
    PROVE  refs[b] = 0 <=> Owners(b) = {}
<1>1. IsFiniteSet(Owners(b)) /\ refs[b] = Cardinality(Owners(b))
    BY OwnersFinite DEF CountsOwners
<1> QED
    BY <1>1, FS_EmptySet

\* The count is one exactly if an owner is the only one.
LEMMA CountOne ==
    ASSUME CountsOwners, NEW b \in Block, NEW p \in Owners(b)
    PROVE  refs[b] = 1 <=> Owners(b) = {p}
<1>1. IsFiniteSet(Owners(b)) /\ refs[b] = Cardinality(Owners(b))
    BY OwnersFinite DEF CountsOwners
<1>2. refs[b] = 1 <=> \E x : Owners(b) = {x}
    BY <1>1, FS_Singleton
<1> QED
    BY <1>2

\* Exchanging two pointers in a set of them keeps its size.
LEMMA ExchangeKeepsSize ==
    ASSUME NEW S, IsFiniteSet(S), NEW p, NEW q, p \in S, q \notin S
    PROVE  Cardinality((S \ {p}) \union {q}) = Cardinality(S)
<1>1. IsFiniteSet(S \ {p}) /\ Cardinality(S \ {p}) = Cardinality(S) - 1
    BY FS_RemoveElement
<1>2. Cardinality((S \ {p}) \union {q}) = Cardinality(S \ {p}) + 1
    BY <1>1, FS_AddElement
<1>3. Cardinality(S) \in Nat
    BY FS_CardinalityType
<1> QED
    BY <1>1, <1>2, <1>3

-----------------------------------------------------------------------------
\* How the owners change.
\* The pointer a thread works on owns nothing, but for the block it drops.
LEMMA WorkedOn ==
    ASSUME PointersInv, NEW t \in PtrThread, ~At(t, "idle"),
           NEW b \in Block, task[t].dst \in Owners(b)
    PROVE  Dropping(t, task[t].dst, b)
<1>1. control[task[t].dst] = NoBlock /\ task[t].dst \in Ptr /\ task[t].dst # NoPtr
    BY UnrealPointerAssumption DEF PointersInv, TasksAreExclusive
<1>2. \A u \in PtrThread : Dropping(u, task[t].dst, b) => u = t
    BY <1>1 DEF PointersInv, TasksAreExclusive, Dropping
<1> QED
    BY <1>1, <1>2, UnrealPointerAssumption DEF Owners, Owns

\* Steps that neither attach, drop nor exchange.
LEMMA QuietSteps ==
    ASSUME PointersInv, NEW t \in PtrThread,
           \/ \E p \in Ptr, b \in Block : Construct(t, p, b)
           \/ \E p, q \in Ptr : Copy(t, p, q) \/ Assign(t, p, q)
           \/ \E p \in Ptr : Destruct(t, p)
           \/ Free(t) \/ CopyOther(t)
           \/ Check(t) /\ Goes(t, "drops")
    PROVE  \A b \in Block : Owners(b)' = Owners(b)
<1> SUFFICES ASSUME NEW b \in Block, NEW r \in Ptr
             PROVE  Owns(r, b)' <=> Owns(r, b)
    BY DEF Owners
<1> USE UnrealPointerAssumption
<1>t. task \in [PtrThread -> PtrTask] /\ control \in [Ptr -> Block \union {NoBlock}]
    BY DEF PointersInv, PointersTypeOK
<1>1. \A u \in PtrThread \ {t} : task'[u] = task[u]
    BY <1>t DEF Construct, Copy, Assign, Destruct, Release, Free, CopyOther, Check, Throws, Released,
       Begins, Goes, Ends
<1>2. \A u \in PtrThread \ {t} : Dropping(u, r, b)' <=> Dropping(u, r, b)
    BY <1>1 DEF Dropping
<1>3. SUFFICES (control'[r] = b \/ Dropping(t, r, b)') <=> (control[r] = b \/ Dropping(t, r, b))
    BY <1>2 DEF Owns
<1>4. CASE \E p \in Ptr, c \in Block : Construct(t, p, c)
    BY <1>t, <1>4 DEF Construct, Begins, Dropping, At
<1>5. CASE \E p, q \in Ptr : Copy(t, p, q)
    BY <1>t, <1>5 DEF Copy, Begins, Dropping, At
<1>6. CASE \E p, q \in Ptr : Assign(t, p, q)
    BY <1>t, <1>6 DEF Assign, Release, Begins, Dropping, At
<1>7. CASE \E p \in Ptr : Destruct(t, p)
    BY <1>t, <1>7 DEF Destruct, Release, Begins, Dropping, At
<1>8. CASE Free(t)
    BY <1>t, <1>8 DEF Free, Throws, Released, Goes, Ends, Idle, Dropping, At, PtrTask
<1>9. CASE CopyOther(t)
    BY <1>t, <1>9 DEF CopyOther, Ends, Idle, Dropping, At, PtrTask
<1>10. CASE Check(t) /\ Goes(t, "drops")
    BY <1>t, <1>10 DEF Check, Goes, Dropping, At, PtrTask
<1> QED
    BY <1>4, <1>5, <1>6, <1>7, <1>8, <1>9, <1>10

\* A pointer that is attached becomes an owner.
LEMMA AttachedOwns ==
    ASSUME PointersInv, NEW t \in PtrThread, Attach(t)
    PROVE  /\ task[t].block \in Block /\ task[t].dst \in Ptr
           /\ task[t].dst \notin Owners(task[t].block)
           /\ \A c \in Block : task[t].dst \notin Owners(c)
           /\ \A c \in Block : Owners(c)' = IF c = task[t].block THEN Owners(c) \union {task[t].dst}
                                            ELSE Owners(c)
<1> USE UnrealPointerAssumption
<1>t. task \in [PtrThread -> PtrTask] /\ control \in [Ptr -> Block \union {NoBlock}]
    BY DEF PointersInv, PointersTypeOK
<1>0. At(t, "attaches") /\ ~At(t, "idle")
    BY DEF Attach, At
<1>1. task[t].block \in Block /\ task[t].dst \in Ptr /\ control[task[t].dst] = NoBlock
    BY <1>0 DEF PointersInv, TasksAreExclusive, Busy, At
<1>2. \A c \in Block : task[t].dst \notin Owners(c)
    BY <1>0, WorkedOn DEF Dropping, At
<1>3. \A u \in PtrThread \ {t} : task'[u] = task[u]
    BY <1>t DEF Attach, Ends
<1>4. task'[t].at = "idle"
    BY <1>t DEF Attach, Ends, Idle
<1>5. ASSUME NEW c \in Block, NEW r \in Ptr
      PROVE  Owns(r, c)' <=> (Owns(r, c) \/ (r = task[t].dst /\ c = task[t].block))
    <2>1. \A u \in PtrThread : Dropping(u, r, c)' <=> Dropping(u, r, c)
        BY <1>0, <1>3, <1>4 DEF Dropping, At
    <2>2. control'[r] = IF r = task[t].dst THEN task[t].block ELSE control[r]
        BY <1>t DEF Attach
    <2> QED
        BY <1>1, <2>1, <2>2 DEF Owns
<1>6. \A c \in Block : Owners(c)' = IF c = task[t].block THEN Owners(c) \union {task[t].dst}
                                    ELSE Owners(c)
    BY <1>1, <1>5 DEF Owners
<1> QED
    BY <1>1, <1>2, <1>6

\* A pointer that drops its block is no owner any more.
LEMMA DroppedOwnsNot ==
    ASSUME PointersInv, NEW t \in PtrThread, Drop(t)
    PROVE  /\ task[t].block \in Block /\ task[t].dst \in Ptr
           /\ task[t].dst \in Owners(task[t].block)
           /\ \A c \in Block : Owners(c)' = IF c = task[t].block THEN Owners(c) \ {task[t].dst}
                                            ELSE Owners(c)
<1> USE UnrealPointerAssumption
<1>t. task \in [PtrThread -> PtrTask] /\ control \in [Ptr -> Block \union {NoBlock}]
    BY DEF PointersInv, PointersTypeOK
<1>0. At(t, "drops") /\ ~At(t, "idle")
    BY DEF Drop, At
<1>1. task[t].block \in Block /\ task[t].dst \in Ptr /\ control[task[t].dst] = NoBlock
    BY <1>0 DEF PointersInv, TasksAreExclusive, Busy, At
<1>2. Dropping(t, task[t].dst, task[t].block)
    BY <1>0 DEF Dropping, At
<1>3. \A u \in PtrThread \ {t} : task'[u] = task[u]
    BY <1>t DEF Drop, Released, Goes, Ends
<1>4. task'[t].at \notin {"checks", "drops"}
    BY <1>t DEF Drop, Released, Goes, Ends, Idle, PtrTask
<1>5. ASSUME NEW c \in Block, NEW r \in Ptr
      PROVE  Owns(r, c)' <=> (Owns(r, c) /\ ~(r = task[t].dst /\ c = task[t].block))
    <2>1. \A u \in PtrThread \ {t} : Dropping(u, r, c)' <=> Dropping(u, r, c)
        BY <1>3 DEF Dropping
    <2>2. ~Dropping(t, r, c)'
        BY <1>4 DEF Dropping
    <2>3. Dropping(t, r, c) <=> r = task[t].dst /\ c = task[t].block
        BY <1>0 DEF Dropping, At
    <2>4. \A u \in PtrThread \ {t} : ~Dropping(u, task[t].dst, c)
        BY <1>1 DEF Dropping, PointersInv, TasksAreExclusive
    <2>5. control'[r] = control[r] /\ (r = task[t].dst => control[r] # c)
        BY <1>1 DEF Drop
    <2> QED
        BY <2>1, <2>2, <2>3, <2>4, <2>5 DEF Owns
<1>6. \A c \in Block : Owners(c)' = IF c = task[t].block THEN Owners(c) \ {task[t].dst}
                                    ELSE Owners(c)
    BY <1>5 DEF Owners
<1> QED
    BY <1>1, <1>2, <1>6 DEF Owners, Owns

\* A move into a null pointer exchanges the two.
LEMMA MoveSwaps ==
    ASSUME PointersInv, NEW t \in PtrThread, NEW p \in Ptr, NEW q \in Ptr, Move(t, p, q)
    PROVE  Swap(t, p, q)
    BY DEF Move, Swap, PointersInv, PointersTypeOK

\* Exchanged pointers exchange what they own.
LEMMA SwappedOwn ==
    ASSUME PointersInv, NEW t \in PtrThread, NEW p \in Ptr, NEW q \in Ptr, Swap(t, p, q)
    PROVE  \A b \in Block : Owners(b)' = {r \in Ptr : CASE r = p -> q \in Owners(b)
                                                        [] r = q -> p \in Owners(b)
                                                        [] OTHER -> r \in Owners(b)}
<1> USE UnrealPointerAssumption
<1>t. control \in [Ptr -> Block \union {NoBlock}]
    BY DEF PointersInv, PointersTypeOK
<1>1. p # q /\ UNCHANGED task
    BY DEF Swap
<1>2. ASSUME NEW b \in Block
      PROVE  \A u \in PtrThread : ~Dropping(u, p, b) /\ ~Dropping(u, q, b)
    BY DEF Swap, MayChange, Dropping
<1>3. ASSUME NEW b \in Block, NEW r \in Ptr
      PROVE  Owns(r, b)' <=> CASE r = p -> q \in Owners(b)
                               [] r = q -> p \in Owners(b)
                               [] OTHER -> r \in Owners(b)
    <2>1. \A u \in PtrThread : Dropping(u, r, b)' <=> Dropping(u, r, b)
        BY <1>1 DEF Dropping
    <2>2. control'[r] = IF r = p THEN control[q] ELSE IF r = q THEN control[p] ELSE control[r]
        BY <1>t, <1>1 DEF Swap
    <2>3. CASE r = p
        BY <1>1, <1>2, <2>1, <2>2, <2>3 DEF Owns, Owners
    <2>4. CASE r = q
        BY <1>1, <1>2, <2>1, <2>2, <2>4 DEF Owns, Owners
    <2>5. CASE r # p /\ r # q
        BY <1>1, <2>1, <2>2, <2>5 DEF Owns, Owners
    <2> QED
        BY <2>3, <2>4, <2>5
<1> QED
    BY <1>3 DEF Owners

-----------------------------------------------------------------------------
\* Nothing is allocated to begin with.
LEMMA PointersInvInit == PointersInit => PointersInv
<1> SUFFICES ASSUME PointersInit PROVE PointersInv
    OBVIOUS
<1> USE UnrealPointerAssumption
<1>1. PointersTypeOK
    BY DEF PointersInit, PointersTypeOK, PtrTask, Idle
<1>2. \A b \in Block : Owners(b) = {}
    BY DEF PointersInit, Owners, Owns, Dropping, Idle
<1>3. CountsOwners
    BY <1>2, FS_EmptySet DEF CountsOwners, PointersInit
<1> QED
    BY <1>1, <1>2, <1>3 DEF PointersInv, PointersInit, Idle, TasksAreExclusive, Attaching, Destroying,
       NoBlockIsLost, At, Busy

(***************************************************************************)
(* A step that changes no owners keeps the count; what remains is the      *)
(* thread's own task.                                                      *)
(***************************************************************************)
LEMMA ConstructKeeps ==
    ASSUME PointersInv, NEW t \in PtrThread, NEW p \in Ptr, NEW b \in Block, Construct(t, p, b)
    PROVE  PointersInv'
<1> USE UnrealPointerAssumption
<1>o. \A c \in Block : Owners(c)' = Owners(c)
    BY QuietSteps
<1>t. task \in [PtrThread -> PtrTask] /\ refs \in [Block -> Nat]
    BY DEF PointersInv, PointersTypeOK
<1>a. /\ task' = [task EXCEPT ![t] = [at |-> "attaches", dst |-> p, src |-> NoPtr, block |-> b]]
      /\ task'[t] = [at |-> "attaches", dst |-> p, src |-> NoPtr, block |-> b]
      /\ \A u \in PtrThread \ {t} : task'[u] = task[u]
      /\ task[t] = Idle /\ control[p] = NoBlock /\ UNCHANGED control
      /\ b \notin allocated /\ allocated' = allocated \union {b}
    BY <1>t DEF Construct, Begins, At, PointersInv, TasksAreExclusive
<1>e. Owners(b) = {}
    BY <1>a DEF PointersInv
<1>f. \A u \in PtrThread \ {t} : Busy(u) => task[u].block # b
    <2>1. \A u \in PtrThread : At(u, "attaches") \/ At(u, "destroys") => task[u].block # b
        BY <1>a DEF PointersInv, Attaching, Destroying
    <2>2. \A u \in PtrThread : task[u].at \in {"checks", "drops"} => task[u].block # b
        BY <1>e DEF PointersInv, TasksAreExclusive, Owners, Owns, Dropping, At, Busy
    <2> QED
        BY <2>1, <2>2 DEF Busy, At
<1>1. PointersTypeOK'
    BY <1>t, <1>a DEF Construct, PointersInv, PointersTypeOK, PtrTask
<1>2. CountsOwners'
    <2>1. refs'[b] = 0 /\ \A c \in Block \ {b} : refs'[c] = refs[c]
        BY <1>t DEF Construct
    <2> QED
        BY <1>o, <1>e, <2>1, FS_EmptySet DEF CountsOwners, PointersInv
<1>3. TasksAreExclusive'
    BY <1>a DEF TasksAreExclusive, PointersInv, Construct, MayChange, At, Idle, Busy
<1>4. \A u \in PtrThread : Attaching(u)' /\ Destroying(u)'
    <2>1. Attaching(t)' /\ Destroying(t)'
        BY <1>a, <1>o, <1>e, <1>f DEF Attaching, Destroying, At, Busy
    <2>2. ASSUME NEW u \in PtrThread \ {t}
          PROVE  Attaching(u)' /\ Destroying(u)'
        BY <1>a, <1>o, <1>f DEF PointersInv, TasksAreExclusive, Attaching, Destroying, At, Busy
    <2> QED
        BY <2>1, <2>2
<1>5. \A c \in Block : Owners(c)' # {} => c \in allocated'
    BY <1>a, <1>o DEF PointersInv
<1>6. NoBlockIsLost'
    BY <1>a DEF PointersInv, NoBlockIsLost, At, Busy, Idle
<1> QED
    BY <1>1, <1>2, <1>3, <1>4, <1>5, <1>6 DEF PointersInv

LEMMA CopyKeeps ==
    ASSUME PointersInv, NEW t \in PtrThread, NEW p \in Ptr, NEW q \in Ptr, Copy(t, p, q)
    PROVE  PointersInv'
<1> USE UnrealPointerAssumption
<1>o. \A c \in Block : Owners(c)' = Owners(c)
    BY QuietSteps
<1>t. /\ task \in [PtrThread -> PtrTask] /\ refs \in [Block -> Nat]
      /\ control \in [Ptr -> Block \union {NoBlock}] /\ allocated \subseteq Block
    BY DEF PointersInv, PointersTypeOK
<1>a. /\ task' = [task EXCEPT ![t] = [at |-> "attaches", dst |-> p, src |-> q, block |-> control[q]]]
      /\ task'[t] = [at |-> "attaches", dst |-> p, src |-> q, block |-> control[q]]
      /\ \A u \in PtrThread \ {t} : task'[u] = task[u]
      /\ task[t] = Idle /\ control[p] = NoBlock /\ control[q] \in Block
      /\ UNCHANGED <<control, refs, allocated>>
      /\ p # q /\ MayChange(p) /\ MayRead(q)
      /\ q \in Owners(control[q]) /\ control[q] \in allocated
    BY <1>t DEF Copy, Begins, At, PointersInv, TasksAreExclusive, Owners, Owns
<1>1. PointersTypeOK'
    BY <1>t, <1>a DEF PointersTypeOK, PtrTask
<1>2. CountsOwners'
    BY <1>o, <1>a DEF CountsOwners, PointersInv
<1>3. TasksAreExclusive'
    BY <1>a DEF TasksAreExclusive, PointersInv, MayChange, MayRead, At, Idle, Busy
<1>4. \A u \in PtrThread : Attaching(u)' /\ Destroying(u)'
    <2>1. Attaching(t)' /\ Destroying(t)'
        BY <1>a, <1>o DEF PointersInv, TasksAreExclusive, Attaching, Destroying, At, Busy
    <2>2. ASSUME NEW u \in PtrThread \ {t}
          PROVE  Attaching(u)' /\ Destroying(u)'
        BY <1>a, <1>o DEF PointersInv, TasksAreExclusive, Attaching, Destroying, At, Busy, MayChange
    <2> QED
        BY <2>1, <2>2
<1>5. \A c \in Block : Owners(c)' # {} => c \in allocated'
    BY <1>a, <1>o DEF PointersInv
<1>6. NoBlockIsLost'
    BY <1>a DEF PointersInv, NoBlockIsLost, At, Busy, Idle
<1> QED
    BY <1>1, <1>2, <1>3, <1>4, <1>5, <1>6 DEF PointersInv

LEMMA ReleaseKeeps ==
    ASSUME PointersInv, NEW t \in PtrThread, NEW p \in Ptr, NEW q \in Ptr \union {NoPtr},
           At(t, "idle"), MayChange(p), q # NoPtr => MayRead(q),
           q = NoPtr => control[p] # NoBlock, Release(t, p, q, "copies"),
           \A c \in Block : Owners(c)' = Owners(c)
    PROVE  PointersInv'
<1> USE UnrealPointerAssumption
<1>o. \A c \in Block : Owners(c)' = Owners(c)
    OBVIOUS
<1>t. /\ task \in [PtrThread -> PtrTask] /\ refs \in [Block -> Nat]
      /\ control \in [Ptr -> Block \union {NoBlock}] /\ allocated \subseteq Block
    BY DEF PointersInv, PointersTypeOK
<1>a. /\ task' = [task EXCEPT ![t] = [at |-> IF control[p] = NoBlock THEN "copies" ELSE "checks",
                                       dst |-> p, src |-> q, block |-> control[p]]]
      /\ task'[t] = [at |-> IF control[p] = NoBlock THEN "copies" ELSE "checks",
                     dst |-> p, src |-> q, block |-> control[p]]
      /\ \A u \in PtrThread \ {t} : task'[u] = task[u]
      /\ task[t] = Idle /\ UNCHANGED <<refs, allocated>>
      /\ control' = [control EXCEPT ![p] = NoBlock]
      /\ control[p] \in Block \union {NoBlock}
      /\ MayChange(p) /\ (q # NoPtr => MayRead(q)) /\ (q = NoPtr => control[p] # NoBlock)
    BY <1>t DEF Release, Begins, At, PointersInv, TasksAreExclusive
<1>1. PointersTypeOK'
    <2>1. task'[t] \in PtrTask
        BY <1>a DEF PtrTask
    <2>2. task' \in [PtrThread -> PtrTask]
        BY <1>t, <1>a, <2>1
    <2>3. control' \in [Ptr -> Block \union {NoBlock}]
        BY <1>t, <1>a
    <2> QED
        BY <1>t, <1>a, <2>2, <2>3 DEF PointersTypeOK
<1>2. CountsOwners'
    BY <1>o, <1>a DEF CountsOwners, PointersInv
<1>3. TasksAreExclusive'
    BY <1>t, <1>a DEF TasksAreExclusive, PointersInv, MayChange, MayRead, At, Idle, Busy
<1>4. \A u \in PtrThread : Attaching(u)' /\ Destroying(u)'
    <2>1. Attaching(t)' /\ Destroying(t)'
        BY <1>a, <1>o DEF PointersInv, TasksAreExclusive, Attaching, Destroying, At, Busy
    <2>2. ASSUME NEW u \in PtrThread \ {t}
          PROVE  Attaching(u)' /\ Destroying(u)'
        <3>1. Attaching(u) /\ Destroying(u) /\ (Busy(u) => task[u].block \in Block)
            BY DEF PointersInv, TasksAreExclusive
        <3>2. /\ task'[t].block = control[p] /\ (Busy(t)' => control[p] \in Block)
              /\ task[u].src # p /\ ~Busy(t)
            BY <1>a DEF MayChange, Busy, Idle
        <3>3. control[p] \in Block => p \in Owners(control[p])
            BY DEF Owners, Owns
        <3>4. \A r \in Ptr \ {p} : control'[r] = control[r]
            BY <1>t, <1>a
        <3> QED
            BY <1>a, <1>o, <3>1, <3>2, <3>3, <3>4 DEF Attaching, Destroying, At, Busy
    <2> QED
        BY <2>1, <2>2
<1>5. \A c \in Block : Owners(c)' # {} => c \in allocated'
    BY <1>a, <1>o DEF PointersInv
<1>6. NoBlockIsLost'
    BY <1>a DEF PointersInv, NoBlockIsLost, At, Busy, Idle
<1> QED
    BY <1>1, <1>2, <1>3, <1>4, <1>5, <1>6 DEF PointersInv

LEMMA CheckKeeps ==
    ASSUME PointersInv, NEW t \in PtrThread, Check(t)
    PROVE  PointersInv'
<1> USE UnrealPointerAssumption
<1>t. /\ task \in [PtrThread -> PtrTask] /\ refs \in [Block -> Nat]
      /\ control \in [Ptr -> Block \union {NoBlock}] /\ allocated \subseteq Block
    BY DEF PointersInv, PointersTypeOK
<1>d. task[t].block \in Block /\ task[t].dst \in Owners(task[t].block)
    BY DEF Check, PointersInv, TasksAreExclusive, Busy, At, Owners, Owns, Dropping
<1>z. refs[task[t].block] # 0
    BY <1>d, CountZero DEF PointersInv
<1>o. \A c \in Block : Owners(c)' = Owners(c)
    BY <1>z, QuietSteps DEF Check
<1>a. /\ task' = [task EXCEPT ![t].at = "drops"] /\ task[t].at = "checks"
      /\ task'[t] = [at |-> "drops", dst |-> task[t].dst, src |-> task[t].src, block |-> task[t].block]
      /\ \A u \in PtrThread \ {t} : task'[u] = task[u]
      /\ UNCHANGED <<control, refs, allocated>>
    BY <1>t, <1>z DEF Check, Goes, At, PtrTask
<1>1. PointersTypeOK'
    BY <1>t, <1>a DEF PointersTypeOK, PtrTask
<1>2. CountsOwners'
    BY <1>o, <1>a DEF CountsOwners, PointersInv
<1>3. TasksAreExclusive'
    BY <1>a DEF TasksAreExclusive, PointersInv, MayChange, MayRead, At, Idle, Busy
<1>4. \A u \in PtrThread : Attaching(u)' /\ Destroying(u)'
    <2>1. Attaching(t)' /\ Destroying(t)'
        BY <1>a, <1>o DEF PointersInv, TasksAreExclusive, Attaching, Destroying, At, Busy
    <2>2. ASSUME NEW u \in PtrThread \ {t}
          PROVE  Attaching(u)' /\ Destroying(u)'
        BY <1>a, <1>o DEF PointersInv, TasksAreExclusive, Attaching, Destroying, At, Busy, MayChange
    <2> QED
        BY <2>1, <2>2
<1>5. \A c \in Block : Owners(c)' # {} => c \in allocated'
    BY <1>a, <1>o DEF PointersInv
<1>6. NoBlockIsLost'
    BY <1>a DEF PointersInv, NoBlockIsLost, At, Busy, Idle
<1> QED
    BY <1>1, <1>2, <1>3, <1>4, <1>5, <1>6 DEF PointersInv

LEMMA CopyNullKeeps ==
    ASSUME PointersInv, NEW t \in PtrThread, CopyOther(t), control[task[t].src] = NoBlock
    PROVE  PointersInv'
<1> USE UnrealPointerAssumption
<1>o. \A c \in Block : Owners(c)' = Owners(c)
    BY QuietSteps
<1>t. /\ task \in [PtrThread -> PtrTask] /\ refs \in [Block -> Nat]
      /\ control \in [Ptr -> Block \union {NoBlock}] /\ allocated \subseteq Block
    BY DEF PointersInv, PointersTypeOK
<1>a. /\ task' = [task EXCEPT ![t] = Idle] /\ task'[t] = Idle /\ task[t].at = "copies"
      /\ \A u \in PtrThread \ {t} : task'[u] = task[u]
      /\ UNCHANGED <<control, refs, allocated>>
    BY <1>t DEF CopyOther, Ends, At
<1>1. PointersTypeOK'
    BY <1>t, <1>a DEF PointersTypeOK, PtrTask, Idle
<1>2. CountsOwners'
    BY <1>o, <1>a DEF CountsOwners, PointersInv
<1>3. TasksAreExclusive'
    BY <1>a DEF TasksAreExclusive, PointersInv, MayChange, MayRead, At, Idle, Busy
<1>4. \A u \in PtrThread : Attaching(u)' /\ Destroying(u)'
    <2>1. Attaching(t)' /\ Destroying(t)'
        BY <1>a, <1>o DEF PointersInv, TasksAreExclusive, Attaching, Destroying, At, Busy, Idle
    <2>2. ASSUME NEW u \in PtrThread \ {t}
          PROVE  Attaching(u)' /\ Destroying(u)'
        BY <1>a, <1>o DEF PointersInv, TasksAreExclusive, Attaching, Destroying, At, Busy, Idle
    <2> QED
        BY <2>1, <2>2
<1>5. \A c \in Block : Owners(c)' # {} => c \in allocated'
    BY <1>a, <1>o DEF PointersInv
<1>6. NoBlockIsLost'
    BY <1>a DEF PointersInv, NoBlockIsLost, At, Busy, Idle
<1> QED
    BY <1>1, <1>2, <1>3, <1>4, <1>5, <1>6 DEF PointersInv

LEMMA CopyOtherKeeps ==
    ASSUME PointersInv, NEW t \in PtrThread, CopyOther(t), control[task[t].src] # NoBlock
    PROVE  PointersInv'
<1> USE UnrealPointerAssumption
<1>o. \A c \in Block : Owners(c)' = Owners(c)
    BY QuietSteps
<1>t. /\ task \in [PtrThread -> PtrTask] /\ refs \in [Block -> Nat]
      /\ control \in [Ptr -> Block \union {NoBlock}] /\ allocated \subseteq Block
    BY DEF PointersInv, PointersTypeOK
<1>s. task[t].at = "copies" /\ task[t].src \in Ptr /\ task[t].dst \in Ptr
    BY DEF CopyOther, At, PointersInv, TasksAreExclusive
<1> DEFINE b == control[task[t].src]
<1>b. b \in Block /\ b \in allocated /\ task[t].src \in Owners(b)
    BY <1>t, <1>s DEF PointersInv, Owners, Owns
<1>d. /\ task' = [task EXCEPT ![t].at = "attaches", ![t].block = b]
      /\ UNCHANGED <<control, refs, allocated>>
    BY DEF CopyOther
<1>a. /\ task' \in [PtrThread -> PtrTask]
      /\ task'[t].at = "attaches" /\ task'[t].block = b
      /\ task'[t].dst = task[t].dst /\ task'[t].src = task[t].src
      /\ \A u \in PtrThread \ {t} : task'[u] = task[u]
      /\ UNCHANGED <<control, refs, allocated>>
    <2>1. task[t] \in PtrTask
        BY <1>t
    <2>2. [[task[t] EXCEPT !.at = "attaches"] EXCEPT !.block = b] \in PtrTask
        BY <1>b, <2>1 DEF PtrTask
    <2>3. task'[t] = [[task[t] EXCEPT !.at = "attaches"] EXCEPT !.block = b]
        BY <1>t, <1>d
    <2>4. /\ task' \in [PtrThread -> PtrTask]
          /\ \A u \in PtrThread \ {t} : task'[u] = task[u]
        BY <1>t, <1>d, <2>2
    <2> QED
        BY <1>d, <2>1, <2>3, <2>4 DEF PtrTask
<1>c. control'[task[t].src] = b
    BY <1>a
<1> HIDE DEF b
<1>1. PointersTypeOK'
    BY <1>t, <1>a DEF PointersTypeOK
<1>2. CountsOwners'
    BY <1>o, <1>a DEF CountsOwners, PointersInv
<1>3. TasksAreExclusive'
    <2>1. \A u \in PtrThread : task'[u].dst = task[u].dst /\ task'[u].src = task[u].src
        BY <1>a
    <2>2. TasksAreExclusive
        BY DEF PointersInv
    <2> QED
        BY <1>a, <1>s, <1>b, <2>1, <2>2 DEF TasksAreExclusive, At, Idle, Busy
<1>4. \A u \in PtrThread : Attaching(u)' /\ Destroying(u)'
    <2>1. Attaching(t)' /\ Destroying(t)'
        <3>1. /\ task'[t].at = "attaches" /\ task'[t].block = b /\ task'[t].src = task[t].src
              /\ task'[t].src # NoPtr
            BY <1>a, <1>s
        <3> QED
            BY <1>a, <1>b, <1>c, <1>s, <3>1 DEF Attaching, Destroying, At
    <2>2. ASSUME NEW u \in PtrThread \ {t}
          PROVE  Attaching(u)' /\ Destroying(u)'
        <3>1. Attaching(u) /\ Destroying(u) /\ (Busy(u) => task[u].block \in Block)
            BY DEF PointersInv, TasksAreExclusive
        <3> QED
            BY <1>a, <1>s, <1>b, <1>o, <3>1 DEF Attaching, Destroying, At, Busy
    <2> QED
        BY <2>1, <2>2
<1>5. \A c \in Block : Owners(c)' # {} => c \in allocated'
    BY <1>a, <1>s, <1>b, <1>c, <1>o DEF PointersInv
<1>6. NoBlockIsLost'
    BY <1>a, <1>s, <1>b, <1>c DEF PointersInv, NoBlockIsLost, At, Busy, Idle
<1> QED
    BY <1>1, <1>2, <1>3, <1>4, <1>5, <1>6 DEF PointersInv

LEMMA AttachKeeps ==
    ASSUME PointersInv, NEW t \in PtrThread, Attach(t)
    PROVE  PointersInv'
<1> USE UnrealPointerAssumption
<1>t. /\ task \in [PtrThread -> PtrTask] /\ refs \in [Block -> Nat]
      /\ control \in [Ptr -> Block \union {NoBlock}] /\ allocated \subseteq Block
    BY DEF PointersInv, PointersTypeOK
<1> DEFINE p == task[t].dst
           b == task[t].block
<1>o. /\ b \in Block /\ p \in Ptr /\ p \notin Owners(b)
      /\ \A c \in Block : Owners(c)' = IF c = b THEN Owners(c) \union {p} ELSE Owners(c)
    BY AttachedOwns
<1>a. /\ task' \in [PtrThread -> PtrTask] /\ task'[t] = Idle
      /\ \A u \in PtrThread \ {t} : task'[u] = task[u]
      /\ control' \in [Ptr -> Block \union {NoBlock}] /\ control'[p] = b
      /\ \A r \in Ptr \ {p} : control'[r] = control[r]
      /\ refs' \in [Block -> Nat] /\ refs'[b] = refs[b] + 1
      /\ \A c \in Block \ {b} : refs'[c] = refs[c]
      /\ UNCHANGED allocated
    BY <1>t, <1>o DEF Attach, Ends, Idle, PtrTask
<1>b. /\ task[t].at = "attaches" /\ b \in allocated
      /\ \A u \in PtrThread \ {t} : task[u].dst # p /\ task[u].src # p
    BY <1>o DEF Attach, At, PointersInv, Attaching, TasksAreExclusive
<1> HIDE DEF p, b
<1>1. PointersTypeOK'
    BY <1>t, <1>a DEF PointersTypeOK
<1>2. CountsOwners'
    <2>1. Cardinality(Owners(b) \union {p}) = Cardinality(Owners(b)) + 1
        BY <1>o, OwnersFinite, FS_AddElement
    <2>2. \A c \in Block : refs[c] = Cardinality(Owners(c))
        BY DEF PointersInv, CountsOwners
    <2> QED
        BY <1>a, <1>o, <2>1, <2>2 DEF CountsOwners
<1>3. TasksAreExclusive'
    <2>1. TasksAreExclusive
        BY DEF PointersInv
    <2> QED
        BY <1>a, <1>b, <2>1 DEF TasksAreExclusive, At, Idle, Busy
<1>4. \A u \in PtrThread : Attaching(u)' /\ Destroying(u)'
    <2>1. Attaching(t)' /\ Destroying(t)'
        BY <1>a DEF Attaching, Destroying, At, Idle
    <2>2. ASSUME NEW u \in PtrThread \ {t}
          PROVE  Attaching(u)' /\ Destroying(u)'
        <3>1. Attaching(u) /\ Destroying(u) /\ (Busy(u) => task[u].block \in Block)
            BY DEF PointersInv, TasksAreExclusive
        <3>2. Busy(t) /\ task[t].block = b
            BY <1>b DEF Busy, b
        <3> QED
            BY <1>a, <1>b, <1>o, <3>1, <3>2 DEF Attaching, Destroying, At, Busy, Idle
    <2> QED
        BY <2>1, <2>2
<1>5. \A c \in Block : Owners(c)' # {} => c \in allocated'
    BY <1>a, <1>b, <1>o DEF PointersInv
<1>6. NoBlockIsLost'
    <2>1. NoBlockIsLost /\ control[p] = NoBlock /\ task[t].block = b
        BY <1>b DEF PointersInv, TasksAreExclusive, At, p, b
    <2>2. \A u \in PtrThread \ {t} : Busy(u) => Busy(u)' /\ task'[u].block = task[u].block
        BY <1>a DEF Busy
    <2>3. ASSUME NEW c \in allocated, c # b
          PROVE  \/ \E r \in Ptr : control'[r] = c
                 \/ \E u \in PtrThread : Busy(u)' /\ task'[u].block = c
        <3>1. CASE \E r \in Ptr : control[r] = c
            <4>1. PICK r \in Ptr : control[r] = c
                BY <3>1
            <4>2. r # p
                BY <1>t, <2>1, <4>1
            <4> QED
                BY <1>a, <4>1, <4>2
        <3>2. CASE \E u \in PtrThread : Busy(u) /\ task[u].block = c
            BY <2>1, <2>2, <2>3, <3>2
        <3> QED
            BY <2>1, <3>1, <3>2 DEF NoBlockIsLost
    <2>4. \A u, v \in PtrThread : At(u, "destroys")' /\ At(v, "destroys")'
                                   /\ task'[u].block = task'[v].block => u = v
        BY <1>a, <2>1 DEF NoBlockIsLost, At, Idle
    <2> QED
        BY <1>a, <1>o, <2>3, <2>4 DEF NoBlockIsLost
<1> QED
    BY <1>1, <1>2, <1>3, <1>4, <1>5, <1>6 DEF PointersInv

LEMMA DropKeeps ==
    ASSUME PointersInv, NEW t \in PtrThread, Drop(t)
    PROVE  PointersInv'
<1> USE UnrealPointerAssumption
<1>t. /\ task \in [PtrThread -> PtrTask] /\ refs \in [Block -> Nat]
      /\ control \in [Ptr -> Block \union {NoBlock}] /\ allocated \subseteq Block
    BY DEF PointersInv, PointersTypeOK
<1> DEFINE p == task[t].dst
           b == task[t].block
<1>o. /\ b \in Block /\ p \in Ptr /\ p \in Owners(b)
      /\ \A c \in Block : Owners(c)' = IF c = b THEN Owners(c) \ {p} ELSE Owners(c)
    BY DroppedOwnsNot
<1>n. refs[b] \in Nat \ {0} /\ (refs[b] = 1 <=> Owners(b) = {p})
    BY <1>o, <1>t, CountZero, CountOne DEF PointersInv
<1>a. /\ task' \in [PtrThread -> PtrTask] /\ task[t].at = "drops"
      /\ \A u \in PtrThread \ {t} : task'[u] = task[u]
      /\ refs' \in [Block -> Nat] /\ refs'[b] = refs[b] - 1
      /\ \A c \in Block \ {b} : refs'[c] = refs[c]
      /\ UNCHANGED <<control, allocated>>
    BY <1>t, <1>o, <1>n DEF Drop, Released, Goes, Ends, Idle, PtrTask, At
<1>c. \/ /\ refs[b] = 1 /\ task'[t].at = "destroys" /\ task'[t].block = b
         /\ task'[t].dst = p /\ task'[t].src = task[t].src
      \/ refs[b] # 1 /\ task'[t] = Idle
      \/ /\ refs[b] # 1 /\ task'[t].at = "copies" /\ task'[t].dst = p
         /\ task'[t].src = task[t].src /\ task[t].src \in Ptr
    BY <1>t DEF Drop, Released, Goes, Ends, PtrTask
<1>b. /\ control[p] = NoBlock /\ b \in allocated
      /\ \A u \in PtrThread \ {t} : task[u].dst # p /\ task[u].src # p
    BY <1>o, <1>a DEF At, PointersInv, TasksAreExclusive
<1>l. ASSUME refs[b] = 1, NEW u \in PtrThread \ {t}, Busy(u)
      PROVE  task[u].block # b
    <2>1. Owners(b) = {p}
        BY <1>n, <1>l
    <2>2. Attaching(u) /\ Destroying(u) /\ task[u].dst \in Ptr /\ task[u].dst # p /\ task[u].src # p
        BY <1>b, <1>l DEF PointersInv, TasksAreExclusive, Busy, At
    <2>3. CASE task[u].at = "attaches"
        BY <2>1, <2>2, <2>3 DEF Attaching, At, Owners, Owns
    <2>4. CASE task[u].at = "destroys"
        BY <2>1, <2>2, <2>4 DEF Destroying, At
    <2>5. CASE task[u].at \in {"checks", "drops"}
        BY <2>1, <2>2, <2>5 DEF Owners, Owns, Dropping
    <2> QED
        BY <1>l, <2>3, <2>4, <2>5 DEF Busy
<1> HIDE DEF p, b
<1>1. PointersTypeOK'
    BY <1>t, <1>a DEF PointersTypeOK
<1>2. CountsOwners'
    <2>1. Cardinality(Owners(b) \ {p}) = Cardinality(Owners(b)) - 1
        BY <1>o, OwnersFinite, FS_RemoveElement
    <2>2. \A c \in Block : refs[c] = Cardinality(Owners(c))
        BY DEF PointersInv, CountsOwners
    <2> QED
        BY <1>a, <1>o, <2>1, <2>2 DEF CountsOwners
<1>3. TasksAreExclusive'
    <2>1. TasksAreExclusive
        BY DEF PointersInv
    <2> QED
        BY <1>a, <1>b, <1>c, <1>o, <2>1 DEF TasksAreExclusive, At, Idle, Busy
<1>4. \A u \in PtrThread : Attaching(u)' /\ Destroying(u)'
    <2>1. Attaching(t)' /\ Destroying(t)'
        BY <1>a, <1>b, <1>c, <1>l, <1>n, <1>o DEF Attaching, Destroying, At, Idle, Busy
    <2>2. ASSUME NEW u \in PtrThread \ {t}
          PROVE  Attaching(u)' /\ Destroying(u)'
        <3>1. Attaching(u) /\ Destroying(u) /\ (Busy(u) => task[u].block \in Block)
            BY DEF PointersInv, TasksAreExclusive
        <3>2. Busy(t) /\ task[t].block = b
            BY <1>a DEF Busy, b
        <3> QED
            BY <1>a, <1>b, <1>c, <1>o, <3>1, <3>2 DEF Attaching, Destroying, At, Busy, Idle
    <2> QED
        BY <2>1, <2>2
<1>5. \A c \in Block : Owners(c)' # {} => c \in allocated'
    BY <1>a, <1>b, <1>o DEF PointersInv
<1>6. NoBlockIsLost'
    <2>1. NoBlockIsLost /\ task[t].block = b
        BY DEF PointersInv, b
    <2>2. ASSUME refs[b] # 1, NEW c \in Block, c = b
          PROVE  \/ \E r \in Ptr : control'[r] = c
                 \/ \E u \in PtrThread : Busy(u)' /\ task'[u].block = c
        <3>1. \E r \in Owners(c) : r # p
            BY <1>n, <1>o, <2>2
        <3>2. \E r \in Ptr : Owns(r, c)'
            BY <1>o, <2>2, <3>1 DEF Owners
        <3> QED
            BY <3>2 DEF Owns, Dropping, Busy
    <2>3. \A u \in PtrThread \ {t} : Busy(u) => Busy(u)' /\ task'[u].block = task[u].block
        BY <1>a DEF Busy
    <2>4. \A c \in allocated \ {b} : \/ \E r \in Ptr : control'[r] = c
                                     \/ \E u \in PtrThread : Busy(u)' /\ task'[u].block = c
        BY <1>a, <2>1, <2>3 DEF NoBlockIsLost
    <2>5. refs[b] = 1 => Busy(t)' /\ task'[t].block = b
        BY <1>c DEF Busy, Idle
    <2>6. \A u, v \in PtrThread : At(u, "destroys")' /\ At(v, "destroys")'
                                   /\ task'[u].block = task'[v].block => u = v
        BY <1>a, <1>c, <1>l, <2>1 DEF NoBlockIsLost, At, Busy, Idle
    <2> QED
        BY <1>a, <1>o, <2>2, <2>4, <2>5, <2>6 DEF NoBlockIsLost
<1> QED
    BY <1>1, <1>2, <1>3, <1>4, <1>5, <1>6 DEF PointersInv

LEMMA FreeKeeps ==
    ASSUME PointersInv, NEW t \in PtrThread, Free(t)
    PROVE  PointersInv'
<1> USE UnrealPointerAssumption
<1>t. /\ task \in [PtrThread -> PtrTask] /\ refs \in [Block -> Nat]
      /\ control \in [Ptr -> Block \union {NoBlock}] /\ allocated \subseteq Block
    BY DEF PointersInv, PointersTypeOK
<1>o. \A c \in Block : Owners(c)' = Owners(c)
    BY QuietSteps
<1> DEFINE b == task[t].block
<1>a. /\ task' \in [PtrThread -> PtrTask] /\ task[t].at = "destroys"
      /\ \A u \in PtrThread \ {t} : task'[u] = task[u]
      /\ allocated' = allocated \ {b}
      /\ UNCHANGED <<control, refs>>
    BY <1>t DEF Free, Throws, Released, Goes, Ends, Idle, PtrTask, At
<1>c. \/ task'[t] = Idle
      \/ task'[t].at = "terminated" /\ task'[t].dst = task[t].dst /\ task'[t].src = task[t].src
      \/ /\ task'[t].at = "copies" /\ task'[t].dst = task[t].dst
         /\ task'[t].src = task[t].src /\ task[t].src \in Ptr
    BY <1>t DEF Free, Throws, Released, Goes, Ends, PtrTask
<1>b. /\ b \in Block /\ Owners(b) = {} /\ control[task[t].dst] = NoBlock /\ task[t].dst \in Ptr
      /\ \A u \in PtrThread \ {t} : /\ Busy(u) => task[u].block # b
                                     /\ task[u].dst # task[t].dst /\ task[u].src # task[t].dst
    BY <1>a DEF At, PointersInv, TasksAreExclusive, Destroying, Busy
<1> HIDE DEF b
<1>1. PointersTypeOK'
    BY <1>t, <1>a DEF PointersTypeOK
<1>2. CountsOwners'
    BY <1>a, <1>o DEF PointersInv, CountsOwners
<1>3. TasksAreExclusive'
    <2>1. TasksAreExclusive
        BY DEF PointersInv
    <2> QED
        BY <1>a, <1>b, <1>c, <2>1 DEF TasksAreExclusive, At, Idle, Busy
<1>4. \A u \in PtrThread : Attaching(u)' /\ Destroying(u)'
    <2>1. Attaching(t)' /\ Destroying(t)'
        BY <1>c DEF Attaching, Destroying, At, Idle
    <2>2. ASSUME NEW u \in PtrThread \ {t}
          PROVE  Attaching(u)' /\ Destroying(u)'
        <3>1. Attaching(u) /\ Destroying(u) /\ (Busy(u) => task[u].block \in Block)
            BY DEF PointersInv, TasksAreExclusive
        <3> QED
            BY <1>a, <1>b, <1>c, <1>o, <3>1 DEF Attaching, Destroying, At, Busy, Idle
    <2> QED
        BY <2>1, <2>2
<1>5. \A c \in Block : Owners(c)' # {} => c \in allocated'
    BY <1>a, <1>b, <1>o DEF PointersInv
<1>6. NoBlockIsLost'
    <2>1. NoBlockIsLost /\ task[t].block = b
        BY DEF PointersInv, b
    <2> QED
        BY <1>a, <1>c, <2>1 DEF NoBlockIsLost, At, Busy, Idle
<1> QED
    BY <1>1, <1>2, <1>3, <1>4, <1>5, <1>6 DEF PointersInv

LEMMA SwapKeeps ==
    ASSUME PointersInv, NEW t \in PtrThread, NEW p \in Ptr, NEW q \in Ptr, Swap(t, p, q)
    PROVE  PointersInv'
<1> USE UnrealPointerAssumption
<1>t. /\ task \in [PtrThread -> PtrTask] /\ refs \in [Block -> Nat]
      /\ control \in [Ptr -> Block \union {NoBlock}] /\ allocated \subseteq Block
    BY DEF PointersInv, PointersTypeOK
<1>o. \A b \in Block : Owners(b)' = {r \in Ptr : CASE r = p -> q \in Owners(b)
                                                    [] r = q -> p \in Owners(b)
                                                    [] OTHER -> r \in Owners(b)}
    BY SwappedOwn
<1>a. /\ p # q /\ MayChange(p) /\ MayChange(q)
      /\ control' \in [Ptr -> Block \union {NoBlock}]
      /\ control'[p] = control[q] /\ control'[q] = control[p]
      /\ \A r \in Ptr \ {p, q} : control'[r] = control[r]
      /\ UNCHANGED <<refs, allocated, task>>
    BY <1>t DEF Swap
<1>n. \A b \in Block : Owners(b)' = {} <=> Owners(b) = {}
    BY <1>a, <1>o DEF Owners
<1>1. PointersTypeOK'
    BY <1>t, <1>a DEF PointersTypeOK
<1>2. CountsOwners'
    <2>1. ASSUME NEW b \in Block
          PROVE  Cardinality(Owners(b)') = Cardinality(Owners(b))
        <3> DEFINE S == Owners(b)
        <3>1. IsFiniteSet(S) /\ S \subseteq Ptr
            BY OwnersFinite DEF Owners
        <3>2. Owners(b)' = {r \in Ptr : CASE r = p -> q \in S [] r = q -> p \in S [] OTHER -> r \in S}
            BY <1>o
        <3> HIDE DEF S
        <3>3. CASE p \in S <=> q \in S
            <4>1. Owners(b)' = S
                BY <1>a, <3>1, <3>2, <3>3
            <4> QED
                BY <4>1 DEF S
        <3>4. CASE p \in S /\ q \notin S
            <4>1. Owners(b)' = (S \ {p}) \union {q}
                BY <1>a, <3>1, <3>2, <3>4
            <4> QED
                BY <3>1, <3>4, <4>1, ExchangeKeepsSize DEF S
        <3>5. CASE q \in S /\ p \notin S
            <4>1. Owners(b)' = (S \ {q}) \union {p}
                BY <1>a, <3>1, <3>2, <3>5
            <4> QED
                BY <3>1, <3>5, <4>1, ExchangeKeepsSize DEF S
        <3> QED
            BY <3>3, <3>4, <3>5
    <2> QED
        BY <1>a, <2>1 DEF PointersInv, CountsOwners
<1>3. TasksAreExclusive'
    <2>1. TasksAreExclusive
        BY DEF PointersInv
    <2> QED
        BY <1>a, <2>1 DEF TasksAreExclusive, MayChange, At, Busy
<1>4. \A u \in PtrThread : Attaching(u)' /\ Destroying(u)'
    <2>1. ASSUME NEW u \in PtrThread
          PROVE  Attaching(u)' /\ Destroying(u)'
        <3>1. Attaching(u) /\ Destroying(u) /\ (Busy(u) => task[u].block \in Block)
            BY DEF PointersInv, TasksAreExclusive
        <3> QED
            BY <1>a, <1>n, <3>1 DEF Attaching, Destroying, At, Busy, MayChange
    <2> QED
        BY <2>1
<1>5. \A c \in Block : Owners(c)' # {} => c \in allocated'
    BY <1>a, <1>n DEF PointersInv
<1>6. NoBlockIsLost'
    <2>1. ASSUME NEW c, NEW r \in Ptr, control[r] = c
          PROVE  \E s \in Ptr : control'[s] = c
        BY <1>a, <2>1
    <2>2. NoBlockIsLost
        BY DEF PointersInv
    <2> QED
        BY <1>a, <2>1, <2>2 DEF NoBlockIsLost, At, Busy
<1> QED
    BY <1>1, <1>2, <1>3, <1>4, <1>5, <1>6 DEF PointersInv

-----------------------------------------------------------------------------
\* One step of the system keeps the invariant.
LEMMA PointersStep == PointersInv /\ [PointersNext]_ptrVars => PointersInv'
<1> SUFFICES ASSUME PointersInv, [PointersNext]_ptrVars PROVE PointersInv'
    OBVIOUS
<1>1. CASE UNCHANGED ptrVars
    BY <1>1 DEF ptrVars, PointersInv, PointersTypeOK, CountsOwners, TasksAreExclusive, Attaching,
       Destroying, NoBlockIsLost, Owners, Owns, Dropping, At, Busy
<1>2. CASE PointersNext
    <2> SUFFICES ASSUME NEW t \in PtrThread,
                        \/ \E p \in Ptr, b \in Block : Construct(t, p, b)
                        \/ \E p, q \in Ptr : Copy(t, p, q) \/ Move(t, p, q) \/ Swap(t, p, q) \/ Assign(t, p, q)
                        \/ \E p \in Ptr : Destruct(t, p)
                        \/ Attach(t) \/ Check(t) \/ Drop(t) \/ Free(t) \/ CopyOther(t)
                 PROVE  PointersInv'
        BY <1>2 DEF PointersNext
    <2>1. CASE \E p \in Ptr, b \in Block : Construct(t, p, b)
        BY <2>1, ConstructKeeps
    <2>2. CASE \E p, q \in Ptr : Copy(t, p, q)
        BY <2>2, CopyKeeps
    <2>3. CASE \E p, q \in Ptr : Move(t, p, q) \/ Swap(t, p, q)
        BY <2>3, MoveSwaps, SwapKeeps
    <2>4. CASE \E p, q \in Ptr : Assign(t, p, q)
        <3>1. PICK p \in Ptr, q \in Ptr : Assign(t, p, q)
            BY <2>4
        <3>2. At(t, "idle") /\ MayChange(p) /\ MayRead(q) /\ Release(t, p, q, "copies")
            BY <3>1 DEF Assign
        <3>3. \A c \in Block : Owners(c)' = Owners(c)
            BY <3>1, QuietSteps
        <3> QED
            BY <3>2, <3>3, ReleaseKeeps, UnrealPointerAssumption
    <2>5. CASE \E p \in Ptr : Destruct(t, p)
        <3>1. PICK p \in Ptr : Destruct(t, p)
            BY <2>5
        <3>2. /\ At(t, "idle") /\ MayChange(p) /\ control[p] # NoBlock
              /\ Release(t, p, NoPtr, "copies")
            BY <3>1 DEF Destruct, Release
        <3>3. \A c \in Block : Owners(c)' = Owners(c)
            BY <3>1, QuietSteps
        <3> QED
            BY <3>2, <3>3, ReleaseKeeps
    <2>6. CASE Attach(t) \/ Check(t) \/ Drop(t) \/ Free(t)
        BY <2>6, AttachKeeps, CheckKeeps, DropKeeps, FreeKeeps
    <2>7. CASE CopyOther(t)
        BY <2>7, CopyNullKeeps, CopyOtherKeeps
    <2> QED
        BY <2>1, <2>2, <2>3, <2>4, <2>5, <2>6, <2>7
<1> QED
    BY <1>1, <1>2

\* The invariant of every behaviour.
LEMMA PointersInvariant == PointersSpec => []PointersInv
BY PointersInvInit, PointersStep, PTL DEF PointersSpec

\* What the invariant says of pointers that are not null.
LEMMA InvNoDangling == PointersInv => NoDanglingPointer
<1> SUFFICES ASSUME PointersInv, NEW p \in Ptr, control[p] # NoBlock
             PROVE  /\ control[p] \in allocated
                    /\ \A t \in PtrThread : At(t, "destroys") => task[t].block # control[p]
    BY DEF NoDanglingPointer
<1>1. control[p] \in Block /\ p \in Owners(control[p])
    BY DEF PointersInv, PointersTypeOK, Owners, Owns
<1> QED
    BY <1>1 DEF PointersInv, Destroying

(***************************************************************************)
(* Whatever threads copy, move, assign and destroy pointers, however these *)
(* steps interleave, no pointer is left to memory that was or is destroyed *)
(* (unreal_pointer_funcs.h, release).                                      *)
(***************************************************************************)
THEOREM PointersDoNotDangle == PointersSpec => []NoDanglingPointer
BY PointersInvariant, InvNoDangling, PTL

(***************************************************************************)
(* Nothing allocated is left without a pointer or a thread that will see   *)
(* to it, and no block is freed by two threads.                            *)
(***************************************************************************)
THEOREM BlocksAreNotLost == PointersSpec => []NoBlockIsLost
<1>1. PointersInv => NoBlockIsLost
    BY DEF PointersInv
<1> QED
    BY <1>1, PointersInvariant, PTL

\* dec_ref never finds its count at zero: it has nothing to throw for.
THEOREM CountNeverUnderflows ==
    PointersSpec => [](\A t \in PtrThread : task[t].at \in {"checks", "drops"} => refs[task[t].block] # 0)
<1>1. PointersInv => \A t \in PtrThread : task[t].at \in {"checks", "drops"} => refs[task[t].block] # 0
    <2> SUFFICES ASSUME PointersInv, NEW t \in PtrThread, task[t].at \in {"checks", "drops"}
                 PROVE  refs[task[t].block] # 0
        OBVIOUS
    <2>1. task[t].block \in Block /\ task[t].dst \in Owners(task[t].block)
        BY DEF PointersInv, TasksAreExclusive, Busy, At, Owners, Owns, Dropping
    <2> QED
        BY <2>1, CountZero DEF PointersInv
<1> QED
    BY <1>1, PointersInvariant, PTL

-----------------------------------------------------------------------------
\* The refinement: no blocks are owned or dying to begin with.
LEMMA OwnershipStarts == PointersInit => Ownership!OwnershipInit
<1> SUFFICES ASSUME PointersInit PROVE Ownership!OwnershipInit
    OBVIOUS
<1>1. \A b \in Block : Owners(b) = {}
    BY UnrealPointerAssumption DEF PointersInit, Owners, Owns, Dropping, Idle
<1>2. Dying = {}
    BY DEF PointersInit, Dying, At, Idle
<1> QED
    BY <1>1, <1>2 DEF Ownership!OwnershipInit

\* A step that changes no owners and destroys nothing is a stutter.
LEMMA OwnershipStutters ==
    ASSUME \A b \in Block : Owners(b)' = Owners(b), Dying' = Dying
    PROVE  UNCHANGED <<[b \in Block |-> Owners(b)], Dying>>
    OBVIOUS

\* Steps of a thread that neither ends up destroying nor has been.
LEMMA DyingStays ==
    ASSUME NEW t \in PtrThread, \A u \in PtrThread \ {t} : task'[u] = task[u],
           ~At(t, "destroys"), ~At(t, "destroys")'
    PROVE  Dying' = Dying
    BY DEF Dying, At

LEMMA AttachRefines ==
    ASSUME PointersInv, NEW t \in PtrThread, Attach(t)
    PROVE  Ownership!OwnershipNext
<1> DEFINE p == task[t].dst
           b == task[t].block
<1>1. /\ b \in Block /\ p \in Ptr /\ \A c \in Block : p \notin Owners(c)
      /\ \A c \in Block : Owners(c)' = IF c = b THEN Owners(c) \union {p} ELSE Owners(c)
    BY AttachedOwns
<1>t. task \in [PtrThread -> PtrTask] /\ At(t, "attaches")
    BY DEF PointersInv, PointersTypeOK, Attach
<1>2. Dying' = Dying
    <2>1. ~At(t, "destroys") /\ ~At(t, "destroys")' /\ \A u \in PtrThread \ {t} : task'[u] = task[u]
        BY <1>t DEF Attach, Ends, Idle, At
    <2> QED
        BY <2>1, DyingStays
<1>3. Attaching(t)
    BY DEF PointersInv
<1> HIDE DEF p
<1>4. CASE task[t].src = NoPtr
    <2>1. Owners(b) = {} /\ \A u \in PtrThread \ {t} : Busy(u) => task[u].block # b
        BY <1>t, <1>3, <1>4 DEF Attaching
    <2>2. b \notin Dying
        BY <1>t, <2>1 DEF Dying, At, Busy
    <2> HIDE DEF b
    <2>3. Ownership!Create(p, b)
        BY <1>1, <1>2, <2>1, <2>2 DEF Ownership!Create
    <2> QED
        BY <1>1, <2>3 DEF Ownership!OwnershipNext
<1>5. CASE task[t].src # NoPtr
    <2>1. task[t].src \in Owners(b)
        BY <1>t, <1>3, <1>5 DEF Attaching, Owners, Owns
    <2> HIDE DEF b
    <2>2. Ownership!Share(p, b)
        BY <1>1, <1>2, <2>1 DEF Ownership!Share
    <2> QED
        BY <1>1, <2>2 DEF Ownership!OwnershipNext
<1> QED
    BY <1>4, <1>5

LEMMA DropRefines ==
    ASSUME PointersInv, NEW t \in PtrThread, Drop(t)
    PROVE  Ownership!OwnershipNext
<1> DEFINE p == task[t].dst
           b == task[t].block
<1>1. /\ b \in Block /\ p \in Ptr /\ p \in Owners(b)
      /\ \A c \in Block : Owners(c)' = IF c = b THEN Owners(c) \ {p} ELSE Owners(c)
    BY DroppedOwnsNot
<1>t. task \in [PtrThread -> PtrTask] /\ At(t, "drops")
    BY DEF PointersInv, PointersTypeOK, Drop
<1>2. refs[b] = 1 <=> Owners(b) = {p}
    BY <1>1, CountOne DEF PointersInv
<1>3. /\ \A u \in PtrThread \ {t} : task'[u] = task[u]
      /\ refs[b] = 1 => task'[t].at = "destroys" /\ task'[t].block = b
      /\ refs[b] # 1 => task'[t].at # "destroys"
    BY <1>t DEF Drop, Released, Goes, Ends, Idle, PtrTask
<1>4. ASSUME NEW c \in Block
      PROVE  c \in Dying' <=> (c \in Dying \/ (c = b /\ refs[b] = 1))
    BY <1>t, <1>3 DEF Dying, At
<1>5. Dying' = IF Owners(b) = {p} THEN Dying \union {b} ELSE Dying
    <2>1. Dying \subseteq Block /\ Dying' \subseteq Block
        BY DEF Dying
    <2> HIDE DEF p, b
    <2> QED
        BY <1>1, <1>2, <1>4, <2>1
<1> HIDE DEF p, b
<1>6. Ownership!GiveUp(p, b)
    BY <1>1, <1>5 DEF Ownership!GiveUp
<1> QED
    BY <1>1, <1>6 DEF Ownership!OwnershipNext

LEMMA FreeRefines ==
    ASSUME PointersInv, NEW t \in PtrThread, Free(t)
    PROVE  Ownership!OwnershipNext
<1> DEFINE b == task[t].block
<1>1. \A c \in Block : Owners(c)' = Owners(c)
    BY QuietSteps
<1>t. task \in [PtrThread -> PtrTask] /\ At(t, "destroys")
    BY DEF PointersInv, PointersTypeOK, Free
<1>2. /\ b \in Block
      /\ \A u \in PtrThread \ {t} : At(u, "destroys") => task[u].block # b
    BY <1>t DEF PointersInv, TasksAreExclusive, Destroying, Busy, At
<1>3. /\ \A u \in PtrThread \ {t} : task'[u] = task[u]
      /\ task'[t].at # "destroys"
    BY <1>t DEF Free, Throws, Released, Goes, Ends, Idle, PtrTask
<1>4. b \in Dying /\ Dying' = Dying \ {b}
    BY <1>t, <1>2, <1>3 DEF Dying, At
<1> HIDE DEF b
<1>5. Ownership!Freed(b)
    BY <1>1, <1>4 DEF Ownership!Freed
<1> QED
    BY <1>2, <1>5 DEF Ownership!OwnershipNext

LEMMA SwapRefines ==
    ASSUME PointersInv, NEW t \in PtrThread, NEW p \in Ptr, NEW q \in Ptr, Swap(t, p, q)
    PROVE  Ownership!OwnershipNext
<1>1. \A b \in Block : Owners(b)' = {r \in Ptr : CASE r = p -> q \in Owners(b)
                                                  [] r = q -> p \in Owners(b)
                                                  [] OTHER -> r \in Owners(b)}
    BY SwappedOwn
<1>2. Dying' = Dying /\ p # q
    BY DEF Swap, Dying, At
<1>3. Ownership!Exchange(p, q)
    BY <1>1, <1>2 DEF Ownership!Exchange
<1> QED
    BY <1>2, <1>3 DEF Ownership!OwnershipNext

LEMMA QuietRefines ==
    ASSUME PointersInv, NEW t \in PtrThread,
           \/ \E p \in Ptr, b \in Block : Construct(t, p, b)
           \/ \E p, q \in Ptr : Copy(t, p, q) \/ Assign(t, p, q)
           \/ \E p \in Ptr : Destruct(t, p)
           \/ CopyOther(t)
           \/ Check(t) /\ Goes(t, "drops")
    PROVE  UNCHANGED <<[b \in Block |-> Owners(b)], Dying>>
<1>t. task \in [PtrThread -> PtrTask]
    BY DEF PointersInv, PointersTypeOK
<1>1. \A b \in Block : Owners(b)' = Owners(b)
    BY QuietSteps
<1>2. ~At(t, "destroys") /\ ~At(t, "destroys")' /\ \A u \in PtrThread \ {t} : task'[u] = task[u]
    <2>1. CASE \E p \in Ptr, b \in Block : Construct(t, p, b)
        BY <1>t, <2>1 DEF Construct, Begins, At
    <2>2. CASE \E p, q \in Ptr : Copy(t, p, q) \/ Assign(t, p, q)
        BY <1>t, <2>2 DEF Copy, Assign, Release, Begins, At
    <2>3. CASE \E p \in Ptr : Destruct(t, p)
        BY <1>t, <2>3 DEF Destruct, Release, Begins, At
    <2>4. CASE CopyOther(t)
        BY <1>t, <2>4 DEF CopyOther, Ends, Idle, At, PtrTask
    <2>5. CASE Check(t) /\ Goes(t, "drops")
        BY <1>t, <2>5 DEF Check, Goes, At, PtrTask
    <2> QED
        BY <2>1, <2>2, <2>3, <2>4, <2>5
<1>3. Dying' = Dying
    BY <1>2, DyingStays
<1> QED
    BY <1>1, <1>3, OwnershipStutters

LEMMA OwnershipStep ==
    PointersInv /\ [PointersNext]_ptrVars
        => [Ownership!OwnershipNext]_<<[b \in Block |-> Owners(b)], Dying>>
<1> SUFFICES ASSUME PointersInv, [PointersNext]_ptrVars
             PROVE  [Ownership!OwnershipNext]_<<[b \in Block |-> Owners(b)], Dying>>
    OBVIOUS
<1>1. CASE UNCHANGED ptrVars
    <2>1. \A b \in Block : Owners(b)' = Owners(b)
        BY <1>1 DEF ptrVars, Owners, Owns, Dropping
    <2>2. Dying' = Dying
        BY <1>1 DEF ptrVars, Dying, At
    <2> QED
        BY <2>1, <2>2, OwnershipStutters
<1>2. CASE PointersNext
    <2>1. PICK t \in PtrThread :
                        \/ \E p \in Ptr, b \in Block : Construct(t, p, b)
                        \/ \E p, q \in Ptr : Copy(t, p, q) \/ Move(t, p, q) \/ Swap(t, p, q) \/ Assign(t, p, q)
                        \/ \E p \in Ptr : Destruct(t, p)
                        \/ Attach(t) \/ Check(t) \/ Drop(t) \/ Free(t) \/ CopyOther(t)
        BY <1>2 DEF PointersNext
    <2>2. CASE \E p, q \in Ptr : Move(t, p, q) \/ Swap(t, p, q)
        BY <2>2, MoveSwaps, SwapRefines
    <2>3. CASE Attach(t) \/ Drop(t) \/ Free(t)
        BY <2>3, AttachRefines, DropRefines, FreeRefines
    <2>4. CASE Check(t)
        <3>1. task[t].block \in Block /\ task[t].dst \in Owners(task[t].block)
            BY <2>4 DEF Check, PointersInv, TasksAreExclusive, Busy, At, Owners, Owns, Dropping
        <3>2. refs[task[t].block] # 0
            BY <3>1, CountZero DEF PointersInv
        <3>3. Check(t) /\ Goes(t, "drops")
            BY <2>4, <3>2 DEF Check
        <3> QED
            BY <3>3, QuietRefines
    <2>5. CASE \/ \E p \in Ptr, b \in Block : Construct(t, p, b)
               \/ \E p, q \in Ptr : Copy(t, p, q) \/ Assign(t, p, q)
               \/ \E p \in Ptr : Destruct(t, p)
               \/ CopyOther(t)
        BY <2>5, QuietRefines
    <2> QED
        BY <2>1, <2>2, <2>3, <2>4, <2>5
<1> QED
    BY <1>1, <1>2

(***************************************************************************)
(* The atomic count implements shared ownership: an object is destroyed    *)
(* when its last owner gives it up, never earlier, and once (the promise   *)
(* of unreal_pointer.h).                                                   *)
(***************************************************************************)
THEOREM CountImplementsOwnership == PointersSpec => ImplementsOwnership
<1>1. PointersSpec => Ownership!OwnershipSpec
    BY PointersInvariant, OwnershipStarts, OwnershipStep, PTL DEF PointersSpec, Ownership!OwnershipSpec
<1> QED
    BY <1>1 DEF ImplementsOwnership
=============================================================================

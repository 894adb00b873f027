---------------------------- MODULE UnrealPointer ----------------------------
(***************************************************************************)
(* UnrealPointer, the reference counted owner of a block of memory that    *)
(* the game allocated.  The count is in a control block at the start of    *)
(* the memory and is atomic; the pointers themselves are not: a thread     *)
(* that works on one expects the others to leave it alone, as with         *)
(* std::shared_ptr.  Pointers to one block may be on any number of threads.*)
(* That a count reaches the maximum of size_t takes more pointers than     *)
(* there is memory for: inc_ref's refusal to go past it is left out.       *)
(***************************************************************************)
EXTENDS Integers, FiniteSets

CONSTANTS
    PtrThread,
    Ptr,        \* the pointers
    NoPtr,
    Block,      \* addresses that u_malloc returns
    NoBlock,
    Unsupported \* those allocated for a property destroy_property throws on

ASSUME UnrealPointerAssumption ==
    /\ IsFiniteSet(Ptr) /\ NoPtr \notin Ptr
    /\ NoBlock \notin Block /\ Unsupported \subseteq Block

VARIABLES
    control,    \* control[p]: the block p owns, NoBlock for a null pointer
    refs,       \* refs[b]: the count in b's control block
    allocated,  \* the blocks that are allocated
    task        \* task[t]: the member function of a pointer that t is in

ptrVars == <<control, refs, allocated, task>>

PtrTask ==
    [at : {"idle", "attaches", "checks", "drops", "destroys", "copies", "terminated"},
     dst : Ptr \union {NoPtr},      \* the pointer that is assigned or destroyed
     src : Ptr \union {NoPtr},      \* what it is copied from
     block : Block \union {NoBlock}]

Idle == [at |-> "idle", dst |-> NoPtr, src |-> NoPtr, block |-> NoBlock]

Begins(t, at, p, q, b) == task' = [task EXCEPT ![t] = [at |-> at, dst |-> p, src |-> q, block |-> b]]

Goes(t, at) == task' = [task EXCEPT ![t].at = at]

Ends(t) == task' = [task EXCEPT ![t] = Idle]

At(t, at) == task[t].at = at

\* std::terminate, for an exception out of a destructor.
Running == \A t \in PtrThread : ~At(t, "terminated")

(***************************************************************************)
(* The callers' part: no thread changes a pointer that another one uses.   *)
(***************************************************************************)
MayRead(q) == \A t \in PtrThread : task[t].dst # q

MayChange(p) == \A t \in PtrThread : task[t].dst # p /\ task[t].src # p

PointersInit ==
    /\ control = [p \in Ptr |-> NoBlock]
    /\ refs = [b \in Block |-> 0]
    /\ allocated = {}
    /\ task = [t \in PtrThread |-> Idle]

\* UnrealPointer(const UStruct*) and UnrealPointer(const ZProperty*).
Construct(t, p, b) ==
    /\ At(t, "idle") /\ MayChange(p) /\ control[p] = NoBlock
    /\ b \notin allocated
    /\ allocated' = allocated \union {b}
    /\ refs' = [refs EXCEPT ![b] = 0]
    /\ Begins(t, "attaches", p, NoPtr, b)
    /\ UNCHANGED control

\* The copy constructors, that to another address in the same block included.
Copy(t, p, q) ==
    /\ At(t, "idle") /\ p # q /\ MayChange(p) /\ MayRead(q)
    /\ control[p] = NoBlock /\ control[q] # NoBlock
    /\ Begins(t, "attaches", p, q, control[q])
    /\ UNCHANGED <<control, refs, allocated>>

\* Slip: the copy's reference is not counted.
AttachUncounted(t) ==
    /\ At(t, "attaches")
    /\ control' = [control EXCEPT ![task[t].dst] = task[t].block]
    /\ refs' = [refs EXCEPT ![task[t].block] = IF task[t].src = NoPtr THEN @ + 1 ELSE @]
    /\ Ends(t)
    /\ UNCHANGED allocated

Attach(t) ==
    /\ At(t, "attaches")
    /\ control' = [control EXCEPT ![task[t].dst] = task[t].block]
    /\ refs' = [refs EXCEPT ![task[t].block] = @ + 1]
    /\ Ends(t)
    /\ UNCHANGED allocated

\* Slip: what was moved from keeps its pointer.
MoveCopies(t, p, q) ==
    /\ At(t, "idle") /\ p # q /\ MayChange(p) /\ MayChange(q)
    /\ control[p] = NoBlock
    /\ control' = [control EXCEPT ![p] = control[q]]
    /\ UNCHANGED <<refs, allocated, task>>

Move(t, p, q) ==
    /\ At(t, "idle") /\ p # q /\ MayChange(p) /\ MayChange(q)
    /\ control[p] = NoBlock
    /\ control' = [control EXCEPT ![p] = control[q], ![q] = NoBlock]
    /\ UNCHANGED <<refs, allocated, task>>

\* Move assignment.
Swap(t, p, q) ==
    /\ At(t, "idle") /\ p # q /\ MayChange(p) /\ MayChange(q)
    /\ control' = [control EXCEPT ![p] = control[q], ![q] = control[p]]
    /\ UNCHANGED <<refs, allocated, task>>

(***************************************************************************)
(* release: the pointer is null from the start on; a null one has nothing  *)
(* to give up.                                                             *)
(***************************************************************************)
Release(t, p, q, next) ==
    /\ control' = [control EXCEPT ![p] = NoBlock]
    /\ Begins(t, IF control[p] = NoBlock THEN next ELSE "checks", p, q, control[p])
    /\ UNCHANGED <<refs, allocated>>

\* Copy assignment releases first and copies then, to itself too.
Assign(t, p, q) ==
    /\ At(t, "idle") /\ MayChange(p) /\ MayRead(q)
    /\ Release(t, p, q, "copies")

Destruct(t, p) ==
    /\ At(t, "idle") /\ MayChange(p) /\ control[p] # NoBlock
    /\ Release(t, p, NoPtr, "idle")

\* An exception leaves copy assignment, but not the destructor.
Throws(t) == IF task[t].src = NoPtr THEN Goes(t, "terminated") ELSE Ends(t)

Released(t) == IF task[t].src = NoPtr THEN Ends(t) ELSE Goes(t, "copies")

\* dec_ref: a count of zero is refused...
Check(t) ==
    /\ At(t, "checks")
    /\ IF refs[task[t].block] = 0 THEN Throws(t) ELSE Goes(t, "drops")
    /\ UNCHANGED <<control, refs, allocated>>

\* ... and the decrement's own result tells the last one.
Drop(t) ==
    /\ At(t, "drops")
    /\ refs' = [refs EXCEPT ![task[t].block] = @ - 1]
    /\ IF refs[task[t].block] = 1 THEN Goes(t, "destroys") ELSE Released(t)
    /\ UNCHANGED <<control, allocated>>

\* Slip: the memory is only freed if nothing was thrown.
FreeUnlessThrown(t) ==
    /\ At(t, "destroys")
    /\ allocated' = allocated \ ({task[t].block} \ Unsupported)
    /\ IF task[t].block \in Unsupported THEN Throws(t) ELSE Released(t)
    /\ UNCHANGED <<control, refs>>

\* destroy_object has run, possibly into an exception; the memory is freed.
Free(t) ==
    /\ At(t, "destroys")
    /\ allocated' = allocated \ {task[t].block}
    /\ IF task[t].block \in Unsupported THEN Throws(t) ELSE Released(t)
    /\ UNCHANGED <<control, refs>>

\* The temporary of the copy assignment; its swap with *this is Attach's.
CopyOther(t) ==
    /\ At(t, "copies")
    /\ IF control[task[t].src] = NoBlock
       THEN Ends(t)
       ELSE task' = [task EXCEPT ![t].at = "attaches", ![t].block = control[task[t].src]]
    /\ UNCHANGED <<control, refs, allocated>>

PointersNext ==
    /\ Running
    /\ \E t \in PtrThread :
        \/ \E p \in Ptr, b \in Block : Construct(t, p, b)
        \/ \E p, q \in Ptr : Copy(t, p, q) \/ Move(t, p, q) \/ Swap(t, p, q) \/ Assign(t, p, q)
        \/ \E p \in Ptr : Destruct(t, p)
        \/ Attach(t) \/ Check(t) \/ Drop(t) \/ Free(t) \/ CopyOther(t)

PointersSpec == PointersInit /\ [][PointersNext]_ptrVars

-----------------------------------------------------------------------------

PointersTypeOK ==
    /\ control \in [Ptr -> Block \union {NoBlock}]
    /\ refs \in [Block -> Nat]
    /\ allocated \subseteq Block
    /\ task \in [PtrThread -> PtrTask]

(***************************************************************************)
(* A pointer that is not null points to memory that is allocated and whose *)
(* object no thread is destroying, whatever the other pointers to it did   *)
(* on whatever threads.                                                    *)
(***************************************************************************)
NoDanglingPointer ==
    \A p \in Ptr : control[p] # NoBlock =>
        /\ control[p] \in allocated
        /\ \A t \in PtrThread : At(t, "destroys") => task[t].block # control[p]

(***************************************************************************)
(* No memory is forgotten: what is allocated has a pointer to it or a      *)
(* thread that is about to attach to it, to drop it or to free it; and it  *)
(* is one thread that frees it.                                            *)
(***************************************************************************)
Busy(t) == task[t].at \in {"attaches", "checks", "drops", "destroys"}

NoBlockIsLost ==
    /\ \A b \in allocated :
          \/ \E p \in Ptr : control[p] = b
          \/ \E t \in PtrThread : Busy(t) /\ task[t].block = b
    /\ \A t, u \in PtrThread :
          At(t, "destroys") /\ At(u, "destroys") /\ task[t].block = task[u].block => t = u

(***************************************************************************)
(* The count implements shared ownership.  A pointer owns a block from the *)
(* increment until the decrement.                                          *)
(***************************************************************************)
Dropping(t, p, b) == task[t].at \in {"checks", "drops"} /\ task[t].dst = p /\ task[t].block = b

Owns(p, b) == control[p] = b \/ \E t \in PtrThread : Dropping(t, p, b)

Owners(b) == {p \in Ptr : Owns(p, b)}

Dying == {b \in Block : \E t \in PtrThread : At(t, "destroys") /\ task[t].block = b}

Ownership == INSTANCE SharedOwnership WITH owners <- [b \in Block |-> Owners(b)], dying <- Dying

ImplementsOwnership == Ownership!OwnershipSpec

-----------------------------------------------------------------------------
(***************************************************************************)
(* Why: the count is the number of owners, a thread has the pointer it     *)
(* works on to itself, and the block it attaches to has an owner (the one  *)
(* it copies) unless it has only just allocated it.                        *)
(***************************************************************************)
CountsOwners == \A b \in Block : refs[b] = Cardinality(Owners(b))

TasksAreExclusive ==
    \A t \in PtrThread :
        /\ ~At(t, "idle") => task[t].dst \in Ptr /\ control[task[t].dst] = NoBlock
        /\ Busy(t) => task[t].block \in Block
        /\ At(t, "idle") => task[t] = Idle
        /\ At(t, "copies") => task[t].src \in Ptr
        /\ \A u \in PtrThread \ {t} :
              task[t].dst = NoPtr \/ (task[t].dst # task[u].dst /\ task[t].dst # task[u].src)

Attaching(t) ==
    At(t, "attaches") =>
        /\ task[t].block \in allocated
        /\ IF task[t].src = NoPtr
           THEN /\ Owners(task[t].block) = {}
                /\ \A u \in PtrThread \ {t} : Busy(u) => task[u].block # task[t].block
           ELSE task[t].src \in Ptr /\ control[task[t].src] = task[t].block

Destroying(t) ==
    At(t, "destroys") =>
        /\ task[t].block \in allocated
        /\ Owners(task[t].block) = {}
        /\ \A u \in PtrThread \ {t} : Busy(u) => task[u].block # task[t].block

PointersInv ==
    /\ PointersTypeOK /\ CountsOwners /\ TasksAreExclusive
    /\ \A t \in PtrThread : Attaching(t) /\ Destroying(t)
    /\ \A b \in Block : Owners(b) # {} => b \in allocated
    /\ NoBlockIsLost
=============================================================================

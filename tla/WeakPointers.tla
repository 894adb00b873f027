---------------------------- MODULE WeakPointers ----------------------------
(***************************************************************************)
(* Weak pointers to the game's objects, and the array of all objects they  *)
(* look into.  Where the game has weak pointers of its own (UE4) an object *)
(* gets a serial number when the first weak pointer to it is made; threads *)
(* race to give it one.  In UE3 a weak pointer remembers where its object  *)
(* was and what it looked like.                                            *)
(***************************************************************************)
EXTENDS Naturals, FiniteSets

CONSTANTS
    Setter,     \* the threads that assign weak pointers
    Weak,       \* the weak pointers
    NoWeak,
    Address,
    Null,       \* not an address
    Looks,      \* outer, vftable, class and name of an object, taken together
    MaxObjects, \* bound on the entries of the array
    MaxLife     \* bound on the objects that are ever created

ASSUME WeakPointersAssumption ==
    /\ Null \notin Address /\ NoWeak \notin Weak /\ Looks # {}
    /\ MaxObjects \in Nat /\ MaxLife \in Nat

VARIABLES
    native,     \* UNREALSDK_HAS_NATIVE_WEAK_POINTERS
    objects,    \* objects[i]: the entry at index i
    count,      \* the number of entries
    master,     \* MasterSerialNumber
    weak,       \* weak[w]: what is stored in w
    setter,     \* setter[t]: the assignment that t is in
    lives,      \* the number of objects created so far
    of          \* of[w]: the object that w was last set to, as a life; 0 for none

weakVars == <<native, objects, count, master, weak, setter, lives, of>>

Index == 1 .. MaxObjects

(***************************************************************************)
(* life tells an object from others that were at the same address before   *)
(* or after it; the code has no such thing.                                *)
(***************************************************************************)
Entry == [object : Address \union {Null}, looks : Looks, serial : Nat, life : Nat]

Stored == [index : Nat, serial : Nat, object : Address \union {Null}, looks : Looks]

SetterState ==
    [at : {"idle", "loads", "increments", "swaps"}, w : Weak \union {NoWeak},
     index : Nat, serial : Nat]

Resting == [at |-> "idle", w |-> NoWeak, index |-> 0, serial |-> 0]

SomeLooks == CHOOSE l \in Looks : TRUE

EmptyEntry == [object |-> Null, looks |-> SomeLooks, serial |-> 0, life |-> 0]

NullWeak == [index |-> 0, serial |-> 0, object |-> Null, looks |-> SomeLooks]

Alive(i) == i \in 1 .. count /\ objects[i].object # Null

WeakInit ==
    /\ native \in BOOLEAN
    /\ objects = [i \in Index |-> EmptyEntry]
    /\ count = 0
    /\ master = 0
    /\ weak = [w \in Weak |-> NullWeak]
    /\ setter = [t \in Setter |-> Resting]
    /\ lives = 0
    /\ of = [w \in Weak |-> 0]

(***************************************************************************)
(* The game creates objects, at an address and an index that may have been *)
(* another's, and collects them, but not while one is being assigned: that *)
(* is what the caller answers for (weak_pointer.h).                        *)
(***************************************************************************)
CreateObject(i, address, l) ==
    /\ lives < MaxLife /\ i <= count + 1 /\ ~Alive(i)
    /\ \A j \in Index : objects[j].object # address
    /\ objects' = [objects EXCEPT ![i] =
                      [object |-> address, looks |-> l, serial |-> 0, life |-> lives + 1]]
    /\ count' = IF i > count THEN i ELSE count
    /\ lives' = lives + 1
    /\ UNCHANGED <<native, master, weak, setter, of>>

CollectObject(i) ==
    /\ Alive(i)
    /\ \A t \in Setter : setter[t].at # "idle" => setter[t].index # i
    /\ objects' = [objects EXCEPT ![i] = EmptyEntry]
    /\ UNCHANGED <<native, count, master, weak, setter, lives, of>>

(***************************************************************************)
(* Assigning an object.  No two threads assign the same pointer at a time. *)
(***************************************************************************)
Unused(w) == \A t \in Setter : setter[t].w # w

SetNull(t, w) ==
    /\ setter[t].at = "idle" /\ Unused(w)
    /\ weak' = [weak EXCEPT ![w] = IF native THEN NullWeak ELSE [@ EXCEPT !.object = Null]]
    /\ of' = [of EXCEPT ![w] = 0]
    /\ UNCHANGED <<native, objects, count, master, setter, lives>>

CopyWeak(t, w, from) ==
    /\ setter[t].at = "idle" /\ Unused(w) /\ Unused(from)
    /\ weak' = [weak EXCEPT ![w] = weak[from]]
    /\ of' = [of EXCEPT ![w] = of[from]]
    /\ UNCHANGED <<native, objects, count, master, setter, lives>>

\* WeakPointer::operator= where weak pointers are emulated.
SetEmulated(t, w, i) ==
    /\ ~native /\ setter[t].at = "idle" /\ Unused(w) /\ Alive(i)
    /\ weak' = [weak EXCEPT ![w] = [@ EXCEPT !.index = i, !.object = objects[i].object,
                                            !.looks = objects[i].looks]]
    /\ of' = [of EXCEPT ![w] = objects[i].life]
    /\ UNCHANGED <<native, objects, count, master, setter, lives>>

\* set_weak_object.
SetNative(t, w, i) ==
    /\ native /\ setter[t].at = "idle" /\ Unused(w) /\ Alive(i)
    /\ weak' = [weak EXCEPT ![w].index = i]
    /\ of' = [of EXCEPT ![w] = objects[i].life]
    /\ setter' = [setter EXCEPT ![t] = [at |-> "loads", w |-> w, index |-> i, serial |-> 0]]
    /\ UNCHANGED <<native, objects, count, master, lives>>

Finish(t, serial) ==
    /\ weak' = [weak EXCEPT ![setter[t].w].serial = serial]
    /\ setter' = [setter EXCEPT ![t] = Resting]

LoadSerial(t) ==
    /\ setter[t].at = "loads"
    /\ LET serial == objects[setter[t].index].serial
       IN  IF serial = 0
           THEN setter' = [setter EXCEPT ![t].at = "increments"] /\ UNCHANGED weak
           ELSE Finish(t, serial)
    /\ UNCHANGED <<native, objects, count, master, lives, of>>

IncrementMaster(t) ==
    /\ setter[t].at = "increments"
    /\ master' = master + 1
    /\ setter' = [setter EXCEPT ![t].at = "swaps", ![t].serial = master + 1]
    /\ UNCHANGED <<native, objects, count, weak, lives, of>>

\* Slip: the new number is used even if another thread was first.
SwapInOwn(t) ==
    /\ setter[t].at = "swaps"
    /\ LET i == setter[t].index
       IN  objects' = [objects EXCEPT ![i].serial = IF @ = 0 THEN setter[t].serial ELSE @]
    /\ Finish(t, setter[t].serial)
    /\ UNCHANGED <<native, count, master, lives, of>>

SwapInSerial(t) ==
    /\ setter[t].at = "swaps"
    /\ LET i == setter[t].index
           serial == IF objects[i].serial = 0 THEN setter[t].serial ELSE objects[i].serial
       IN  /\ objects' = [objects EXCEPT ![i].serial = serial]
           /\ Finish(t, serial)
    /\ UNCHANGED <<native, count, master, lives, of>>

(***************************************************************************)
(* get_weak_object and WeakPointer::operator*: the index of the object the *)
(* pointer finds, 0 for a null pointer.                                    *)
(***************************************************************************)
\* Slip: any object at the address will do.
FoundAtAddress(w) ==
    LET i == weak[w].index
    IN  IF native
        THEN IF weak[w].serial # 0 /\ Alive(i) /\ objects[i].serial = weak[w].serial THEN i ELSE 0
        ELSE IF weak[w].object # Null /\ Alive(i) /\ objects[i].object = weak[w].object THEN i ELSE 0

Found(w) ==
    LET i == weak[w].index
    IN  IF native
        THEN IF weak[w].serial # 0 /\ Alive(i) /\ objects[i].serial = weak[w].serial THEN i ELSE 0
        ELSE IF /\ weak[w].object # Null /\ Alive(i)
                /\ objects[i].object = weak[w].object /\ objects[i].looks = weak[w].looks
             THEN i ELSE 0

\* operator* on a pointer that may be changed forgets an object that is gone.
ForgetIfGone(t, w) ==
    /\ of[w] # 0 /\ Found(w) = 0
    /\ SetNull(t, w)

WeakNext ==
    \/ \E i \in Index, address \in Address, l \in Looks : CreateObject(i, address, l)
    \/ \E i \in Index : CollectObject(i)
    \/ \E t \in Setter :
        \/ \E w \in Weak : SetNull(t, w) \/ ForgetIfGone(t, w)
        \/ \E w, from \in Weak : CopyWeak(t, w, from)
        \/ \E w \in Weak, i \in Index : SetEmulated(t, w, i) \/ SetNative(t, w, i)
        \/ LoadSerial(t) \/ IncrementMaster(t) \/ SwapInSerial(t)

WeakSpec == WeakInit /\ [][WeakNext]_weakVars

-----------------------------------------------------------------------------

WeakTypeOK ==
    /\ native \in BOOLEAN
    /\ objects \in [Index -> Entry]
    /\ count \in 0 .. MaxObjects
    /\ master \in Nat
    /\ weak \in [Weak -> Stored]
    /\ setter \in [Setter -> SetterState]
    /\ lives \in Nat
    /\ of \in [Weak -> Nat]

(***************************************************************************)
(* As long as its object is alive, a weak pointer finds it, also if other  *)
(* threads made the object's first weak pointers at the same time.         *)
(***************************************************************************)
LiveObjectsAreFound ==
    \A w \in Weak, i \in Index :
        Unused(w) /\ Alive(i) /\ objects[i].life = of[w] => Found(w) = i

(***************************************************************************)
(* A weak pointer never finds another object in its object's place; an     *)
(* emulated one may, but "it will be near identical, and it will always be *)
(* a valid object" (weak_pointer.h): what tells objects apart is the same, *)
(* and it is there.                                                        *)
(***************************************************************************)
OnlyItsObjectIsFound ==
    \A w \in Weak :
        Unused(w) /\ Found(w) # 0 =>
            /\ of[w] # 0 /\ Alive(Found(w))
            /\ native => objects[Found(w)].life = of[w]
            /\ ~native => objects[Found(w)].looks = weak[w].looks
=============================================================================

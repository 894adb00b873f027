---------------------------- MODULE FunctionLocks ----------------------------
(***************************************************************************)
(* The locks around unreal functions and package loads, and the flag they  *)
(* guard: BoundFunction::call sets FUNC_NATIVE on the function, has the    *)
(* game process it and puts the flags back.  Hooks call further functions, *)
(* the same one included, and load packages, on any number of threads.     *)
(* Both locks are recursive and, being settings, may be off.               *)
(***************************************************************************)
EXTENDS Naturals, Sequences, SequencesExt

CONSTANTS
    Caller,
    Func,
    NativeFunc,         \* the functions with FUNC_NATIVE to begin with
    NoFunc,
    LockCalls,          \* unrealsdk.locking_function_calls
    LockLoads,          \* unrealsdk.locking_load_package
    LoadRunsFunctions,  \* whether the game runs detoured functions as it loads
    MaxDepth            \* bound on nested calls

ASSUME FunctionLocksAssumption ==
    /\ NativeFunc \subseteq Func /\ NoFunc \notin Func
    /\ LockCalls \in BOOLEAN /\ LockLoads \in BOOLEAN /\ LoadRunsFunctions \in BOOLEAN
    /\ MaxDepth \in Nat

VARIABLES
    native,     \* the functions that have FUNC_NATIVE now
    stack       \* stack[t]: the calls thread t is in, the innermost one last

lockVars == <<native, stack>>

(***************************************************************************)
(* A "call" is one of bound_function_call_with_params, an "event" one of   *)
(* the locking detours, a "load" one of load_package.  Each first wants    *)
(* its lock.  A call then reads the flags, sets the flag, enters the       *)
(* detour of process_event and at last restores the flags it saved.        *)
(***************************************************************************)
Frame == [kind : {"call", "event", "load"}, func : Func \union {NoFunc}, saved : BOOLEAN,
          at : {"wants", "reads", "sets", "restores", "runs"}]

NewFrame(kind, func) == [kind |-> kind, func |-> func, saved |-> FALSE, at |-> "wants"]

Top(t) == Last(stack[t])

At(t, kind, at) == stack[t] # <<>> /\ Top(t).kind = kind /\ Top(t).at = at

Update(frames, frame) == [frames EXCEPT ![Len(frames)] = frame]

WithTop(t, frame) == [stack EXCEPT ![t] = Update(@, frame)]

Popped(t) == [stack EXCEPT ![t] = Front(@)]

(***************************************************************************)
(* locks.cpp: a recursive mutex is held as long as one of the thread's     *)
(* frames holds it.                                                        *)
(***************************************************************************)
Holding(frames, kinds) == \E i \in DOMAIN frames : frames[i].kind \in kinds /\ frames[i].at # "wants"

\* Slip: no lock for call_with_params, only for the detours.
HoldsUnguarded(t, kind) ==
    IF kind = "load" THEN LockLoads /\ Holding(stack[t], {"load"})
    ELSE LockCalls /\ Holding(stack[t], {"event"})

Holds(t, kind) ==
    IF kind = "load" THEN LockLoads /\ Holding(stack[t], {"load"})
    ELSE LockCalls /\ Holding(stack[t], {"call", "event"})

\* Code runs that may call functions: of a thread's own, of a hook or of the function.
MayCall(t) ==
    /\ Len(stack[t]) < MaxDepth
    /\ \/ stack[t] = <<>>
       \/ At(t, "event", "runs")
       \/ LoadRunsFunctions /\ At(t, "load", "runs")

LocksInit ==
    /\ native = NativeFunc
    /\ stack = [t \in Caller |-> <<>>]

Begin(t, kind, func) ==
    /\ MayCall(t)
    /\ stack' = [stack EXCEPT ![t] = Append(@, NewFrame(kind, func))]
    /\ UNCHANGED native

\* BoundFunction::call.
Call(t, func) == Len(stack[t]) + 2 <= MaxDepth /\ Begin(t, "call", func)

\* The game calls a function that is detoured.
GameCall(t) == Begin(t, "event", NoFunc)

LoadPackage(t) == Begin(t, "load", NoFunc)

\* Slip: a mutex that is not recursive.
LockOnce(t) ==
    /\ stack[t] # <<>> /\ Top(t).at = "wants"
    /\ \A u \in Caller : ~Holds(u, Top(t).kind)
    /\ stack' = WithTop(t, [Top(t) EXCEPT !.at = IF Top(t).kind = "call" THEN "reads" ELSE "runs"])
    /\ UNCHANGED native

Lock(t) ==
    /\ stack[t] # <<>> /\ Top(t).at = "wants"
    /\ \A u \in Caller \ {t} : ~Holds(u, Top(t).kind)
    /\ stack' = WithTop(t, [Top(t) EXCEPT !.at = IF Top(t).kind = "call" THEN "reads" ELSE "runs"])
    /\ UNCHANGED native

ReadFlags(t) ==
    /\ At(t, "call", "reads")
    /\ stack' = WithTop(t, [Top(t) EXCEPT !.at = "sets", !.saved = Top(t).func \in native])
    /\ UNCHANGED native

SetNative(t) ==
    /\ At(t, "call", "sets")
    /\ native' = native \union {Top(t).func}
    /\ stack' = [stack EXCEPT ![t] =
                    Append(Update(@, [Top(t) EXCEPT !.at = "restores"]), NewFrame("event", NoFunc))]

\* Slip: clear the flag instead of putting it back.
ClearFlags(t) ==
    /\ At(t, "call", "restores")
    /\ native' = native \ {Top(t).func}
    /\ stack' = Popped(t)

RestoreFlags(t) ==
    /\ At(t, "call", "restores")
    /\ native' = IF Top(t).saved THEN native \union {Top(t).func} ELSE native \ {Top(t).func}
    /\ stack' = Popped(t)

Return(t) ==
    /\ At(t, "event", "runs") \/ At(t, "load", "runs")
    /\ stack' = Popped(t)
    /\ UNCHANGED native

Proceed(t) == ReadFlags(t) \/ SetNative(t) \/ RestoreFlags(t)

LocksNext ==
    \E t \in Caller :
        \/ \E func \in Func : Call(t, func)
        \/ GameCall(t) \/ LoadPackage(t)
        \/ Lock(t) \/ Proceed(t) \/ Return(t)

LocksSpec == LocksInit /\ [][LocksNext]_lockVars

(***************************************************************************)
(* Threads go on, a function or load that calls nothing more returns, and  *)
(* a mutex that stays free is taken by one of those that wait for it.      *)
(* Which one is up to the system: Windows' locks are not fair, so a thread *)
(* may find the mutex taken again whenever it looks.                       *)
(***************************************************************************)
LocksFairness == \A t \in Caller : WF_lockVars(Proceed(t) \/ Lock(t) \/ Return(t))

-----------------------------------------------------------------------------

LocksTypeOK ==
    /\ native \subseteq Func
    /\ stack \in [Caller -> Seq(Frame)]

(***************************************************************************)
(* While no BoundFunction call on a function is under way its flags are    *)
(* as the game made them, whatever nested and concurrent calls there were. *)
(***************************************************************************)
UnderWay(func) ==
    \E t \in Caller : \E i \in DOMAIN stack[t] :
        stack[t][i].kind = "call" /\ stack[t][i].func = func /\ stack[t][i].at # "wants"

FlagsRestored == \A func \in Func : ~UnderWay(func) => (func \in native <=> func \in NativeFunc)

(***************************************************************************)
(* A function called through a BoundFunction has FUNC_NATIVE as long as it *)
(* is processed; in particular a nested call on it must not take the flag. *)
(***************************************************************************)
NativeWhileProcessed ==
    \A t \in Caller : \A i \in DOMAIN stack[t] :
        stack[t][i].kind = "call" /\ stack[t][i].at = "restores" => stack[t][i].func \in native

(***************************************************************************)
(* supported_settings.toml, "locks simultaneous unreal function calls from *)
(* different threads": no two threads process functions at the same time.  *)
(***************************************************************************)
CallsExclude ==
    \A t, u \in Caller :
        t # u => ~(Holding(stack[t], {"call", "event"}) /\ Holding(stack[u], {"call", "event"}))

(***************************************************************************)
(* There are two locks and two orders to take them in: a hook may load a   *)
(* package, and the game may call functions as it loads one.  So a thread  *)
(* may hold the one lock and wait for the other, which a second thread     *)
(* holds that waits for the first.                                         *)
(***************************************************************************)
WaitsFor(t, u) == stack[t] # <<>> /\ Top(t).at = "wants" /\ t # u /\ Holds(u, Top(t).kind)

Circle == \E t, u \in Caller : WaitsFor(t, u) /\ WaitsFor(u, t)

(***************************************************************************)
(* That circle is the only deadlock (locks.cpp, the recursive mutexes, and *)
(* the order in which unrealsdk_main.cpp and the detours take them): else, *)
(* as long as somebody waits for a lock, locks keep being taken, and once  *)
(* nobody asks for one any more everybody has got his.  No thread waits    *)
(* for itself.  That a lock comes to each thread in turn is not promised.  *)
(***************************************************************************)
LocksArePassedOn ==
    \/ []<>(Circle \/ \A t \in Caller : stack[t] # <<>> => Top(t).at # "wants")
    \/ []<><<\E t \in Caller : Lock(t)>>_lockVars
=============================================================================

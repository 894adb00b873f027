---------------------------- MODULE StartupProofs ---------------------------
(***************************************************************************)
(* Proofs about Startup: a call that a detour handles sees the sdk whole,  *)
(* for any number of loaders and game threads, any of the games, and       *)
(* whatever is missing.  The argument is the lock: whoever is within init  *)
(* holds it, hook() is never run again once hook_instance is set, and a    *)
(* game thread asks for hook_instance with the lock free, that is, when    *)
(* post_init is over.                                                      *)
(***************************************************************************)
EXTENDS Startup, TLAPS

\* Where a loader is in hook(), where it holds init_mutex, and where else it is.
InHook == {"hook", "looks", "reports", "hooks", "complains", "locks", "tests",
           "sleeps", "asleep", "woken", "unhooks"}

InInit == InHook \union {"begins", "posts"}

LoaderAt == InInit \union {"calls", "refused", "threw", "returned"}

GameAt == {"boots", "asked", "signals", "plays", "asks", "detoured", "native", "links"}

Positions ==
    /\ pc \in [Thread -> LoaderAt \union GameAt]
    /\ \A l \in Loader : pc[l] \in LoaderAt
    /\ \A t \in GameThread : pc[t] \in GameAt

HolderIsInInit == \A l \in Loader : pc[l] \in InInit <=> initMutex = l

\* hook() has run to its end, and is not run again.
HookIsOver == hookInstance => Finished /\ \A l \in Loader : pc[l] \notin InHook

HooksAreAdded ==
    hookInstance /\ (\A l \in Loader : pc[l] # "posts") => hooksAdded = ConsoleHooks[game]

DetouredAfterInit ==
    \A t \in GameThread : pc[t] = "detoured" =>
        hookInstance /\ \A l \in Loader : pc[l] # "posts"

\* Where post_init runs, hook_instance is set.
PostsWithInstance == \A l \in Loader : pc[l] = "posts" => hookInstance

Inv == Positions /\ HolderIsInInit /\ HookIsOver /\ HooksAreAdded /\ DetouredAfterInit
       /\ PostsWithInstance

LEMMA Initially == Init => Inv
BY StartupAssumption DEF Init, Inv, Positions, HolderIsInInit, HookIsOver, HooksAreAdded,
   DetouredAfterInit, PostsWithInstance, InInit, InHook, LoaderAt, GameAt, Thread

(***************************************************************************)
(* A step within hook() keeps the invariant: hook_instance is not set yet. *)
(***************************************************************************)
LEMMA WithinHook ==
    ASSUME Inv, NEW l \in Loader, NEW at \in InHook, pc[l] \in InHook,
           pc' = [pc EXCEPT ![l] = at], UNCHANGED <<game, initMutex, hookInstance, hooksAdded>>
    PROVE  Inv'
<1>1. ~hookInstance
  BY DEF Inv, HookIsOver
<1>2. Positions'
  BY StartupAssumption DEF Inv, Positions, LoaderAt, InInit, Thread
<1>3. HolderIsInInit'
  BY DEF Inv, Positions, HolderIsInInit, InInit, Thread
<1>4. DetouredAfterInit'
  BY <1>1, StartupAssumption DEF Inv, Positions, DetouredAfterInit, Thread
<1>5. PostsWithInstance'
  BY DEF Inv, Positions, PostsWithInstance, InHook, Thread
<1> QED
  BY <1>1, <1>2, <1>3, <1>4, <1>5 DEF Inv, HookIsOver, HooksAreAdded

(***************************************************************************)
(* A loader that leaves init without having set hook_instance, as when it  *)
(* throws, keeps the invariant.                                            *)
(***************************************************************************)
LEMMA LeavesInit ==
    ASSUME Inv, NEW l \in Loader, NEW at \in {"refused", "threw"},
           pc[l] \in InHook \union {"begins"},
           pc' = [pc EXCEPT ![l] = at], initMutex' = NoThread,
           UNCHANGED <<game, step, hookInstance, hooksAdded>>
    PROVE  Inv'
<1>1. Positions'
  BY StartupAssumption DEF Inv, Positions, LoaderAt, InInit, Thread
<1>2. HolderIsInInit'
  BY StartupAssumption DEF Inv, Positions, HolderIsInInit, InInit, InHook, Thread
<1>3. HookIsOver'
  BY DEF Inv, Positions, HookIsOver, InHook, Finished, Hook, Thread
<1>4. HooksAreAdded'
  BY DEF Inv, Positions, HooksAreAdded, InHook, Thread
<1>5. DetouredAfterInit' /\ PostsWithInstance'
  BY StartupAssumption DEF Inv, Positions, DetouredAfterInit, PostsWithInstance, InHook, Thread
<1> QED
  BY <1>1, <1>2, <1>3, <1>4, <1>5 DEF Inv

(***************************************************************************)
(* A step of the game that does not enter a detour keeps the invariant.    *)
(***************************************************************************)
LEMMA GameGoesOn ==
    ASSUME Inv, NEW t \in GameThread, NEW at \in GameAt \ {"detoured"},
           pc' = [pc EXCEPT ![t] = at],
           UNCHANGED <<game, step, initMutex, hookInstance, hooksAdded>>
    PROVE  Inv'
<1>1. t \notin Loader
  BY StartupAssumption
<1>2. \A l \in Loader : pc'[l] = pc[l]
  BY <1>1 DEF Inv, Positions, Thread
<1>3. Positions'
  BY <1>1 DEF Inv, Positions, Thread
<1>4. DetouredAfterInit'
  BY <1>2, StartupAssumption DEF Inv, Positions, DetouredAfterInit, Thread
<1> QED
  BY <1>2, <1>3, <1>4 DEF Inv, HolderIsInInit, HookIsOver, HooksAreAdded, PostsWithInstance,
     Finished, Hook

\* A step that no thread's position takes part in.
LEMMA Elsewhere ==
    ASSUME Inv, UNCHANGED <<pc, game, step, initMutex, hookInstance, hooksAdded>>
    PROVE  Inv'
BY DEF Inv, Positions, HolderIsInInit, HookIsOver, HooksAreAdded, DetouredAfterInit,
   PostsWithInstance, Finished, Hook

-----------------------------------------------------------------------------
(***************************************************************************)
(* Every step of a loader keeps the invariant.                             *)
(***************************************************************************)
LEMMA LoaderKeeps ==
    ASSUME Inv, NEW l \in Loader, Load(l)
    PROVE  Inv'
<1> USE DEF environment, effects, init, waiting, history, Goto
<1>1. CASE LockInit(l)
  <2>1. pc' = [pc EXCEPT ![l] = "begins"] /\ initMutex = NoThread /\ initMutex' = l
        /\ UNCHANGED <<game, step, hookInstance, hooksAdded>>
    BY <1>1 DEF LockInit
  <2>2. \A k \in Loader : pc[k] \notin InInit
    BY <2>1, StartupAssumption DEF Inv, HolderIsInInit
  <2>3. \A k \in Loader : pc'[k] = IF k = l THEN "begins" ELSE pc[k]
    BY <2>1 DEF Inv, Positions, Thread
  <2>4. Positions'
    BY <2>1, StartupAssumption DEF Inv, Positions, LoaderAt, InInit, Thread
  <2>5. HolderIsInInit'
    BY <2>1, <2>2, <2>3 DEF HolderIsInInit, InInit
  <2>6. HookIsOver' /\ HooksAreAdded'
    BY <2>1, <2>2, <2>3
       DEF Inv, HookIsOver, HooksAreAdded, InHook, InInit, Finished, Hook
  <2>7. DetouredAfterInit' /\ PostsWithInstance'
    BY <2>1, <2>3, StartupAssumption
       DEF Inv, Positions, DetouredAfterInit, PostsWithInstance, Thread
  <2> QED
    BY <2>4, <2>5, <2>6, <2>7 DEF Inv
<1>2. CASE Begin(l)
  <2>1. pc[l] = "begins" /\ UNCHANGED <<game, step, hookInstance, hooksAdded>>
    BY <1>2 DEF Begin
  <2>2. CASE pc' = [pc EXCEPT ![l] = "refused"] /\ initMutex' = NoThread
    BY <2>1, <2>2, LeavesInit
  <2>3. CASE pc' = [pc EXCEPT ![l] = "threw"] /\ initMutex' = NoThread
    BY <2>1, <2>3, LeavesInit
  <2>4. CASE ~hookInstance /\ pc' = [pc EXCEPT ![l] = "hook"] /\ initMutex' = initMutex
    <3>1. Positions'
      BY <2>4, StartupAssumption DEF Inv, Positions, LoaderAt, InInit, InHook, Thread
    <3>2. HolderIsInInit'
      BY <2>1, <2>4 DEF Inv, Positions, HolderIsInInit, InInit, InHook, Thread
    <3>3. HookIsOver' /\ HooksAreAdded'
      BY <2>1, <2>4 DEF HookIsOver, HooksAreAdded
    <3>4. DetouredAfterInit' /\ PostsWithInstance'
      BY <2>1, <2>4, StartupAssumption
         DEF Inv, Positions, DetouredAfterInit, PostsWithInstance, Thread
    <3> QED
      BY <3>1, <3>2, <3>3, <3>4 DEF Inv
  <2> QED
    BY <1>2, <2>2, <2>3, <2>4 DEF Begin
<1>3. CASE DoStep(l)
  <2>1. pc[l] = "hook" /\ UNCHANGED <<game, hookInstance, hooksAdded>>
    BY <1>3 DEF DoStep
  <2>2. CASE StepDone(l) /\ UNCHANGED initMutex
    BY <2>1, <2>2, WithinHook DEF StepDone, InHook
  <2>3. CASE Throw(l) /\ UNCHANGED step
    BY <2>1, <2>3, LeavesInit DEF Throw, InHook
  <2>4. CASE UNCHANGED <<pc, step, initMutex>>
    BY <2>1, <2>4, Elsewhere
  <2> QED
    BY <1>3, <2>2, <2>3, <2>4 DEF DoStep
<1>4. CASE CopyValue(l) \/ AwaitStage(l) \/ AwaitZeroByte(l) \/ Poll(l)
  <2>1. pc[l] = "hook" /\ pc' = [pc EXCEPT ![l] = "hook"]
        /\ UNCHANGED <<game, initMutex, hookInstance, hooksAdded>>
    BY <1>4 DEF CopyValue, AwaitStage, AwaitZeroByte, Poll, StepDone
  <2> QED
    BY <2>1, WithinHook DEF InHook
<1>5. CASE Suspend(l) \/ Look(l) \/ HookSystemFunction(l) \/ Complain(l)
           \/ LockReady(l) \/ TestReady(l) \/ Sleep(l) \/ Unhook(l)
  <2>1. /\ pc[l] \in InHook /\ \E at \in InHook : pc' = [pc EXCEPT ![l] = at]
        /\ UNCHANGED <<game, initMutex, hookInstance, hooksAdded>>
    BY <1>5 DEF Suspend, Look, HookSystemFunction, Complain, LockReady, TestReady, Sleep,
       Unhook, AfterWait, StepDone, InHook
  <2> QED
    BY <2>1, WithinHook
<1>6. CASE Report(l)
  <2>1. pc[l] = "reports" /\ UNCHANGED <<game, hookInstance, hooksAdded>>
    BY <1>6 DEF Report
  <2>2. CASE UNCHANGED initMutex /\ \E at \in InHook : pc' = [pc EXCEPT ![l] = at]
    BY <2>1, <2>2, WithinHook DEF InHook
  <2>3. CASE Throw(l) /\ UNCHANGED step
    BY <2>1, <2>3, LeavesInit DEF Throw, InHook
  <2> QED
    BY <1>6, <2>2, <2>3 DEF Report, StepDone, InHook
<1>7. CASE FinishHook(l)
  <2>1. /\ pc[l] = "hook" /\ Finished /\ pc' = [pc EXCEPT ![l] = "posts"] /\ hookInstance'
        /\ UNCHANGED <<game, step, initMutex, hooksAdded>>
    BY <1>7 DEF FinishHook
  <2>2. \A k \in Loader : pc'[k] = IF k = l THEN "posts" ELSE pc[k]
    BY <2>1 DEF Inv, Positions, Thread
  <2>3. \A k \in Loader : k # l => pc[k] \notin InInit
    BY <2>1 DEF Inv, HolderIsInInit, InInit, InHook
  <2>4. ~hookInstance
    BY <2>1 DEF Inv, HookIsOver, InHook
  <2>5. Positions'
    BY <2>1, StartupAssumption DEF Inv, Positions, LoaderAt, InInit, Thread
  <2>6. HolderIsInInit'
    BY <2>1, <2>2 DEF Inv, HolderIsInInit, InInit, InHook
  <2>7. HookIsOver'
    BY <2>1, <2>2, <2>3 DEF HookIsOver, InInit, InHook, Finished, Hook
  <2>8. HooksAreAdded'
    BY <2>2 DEF HooksAreAdded
  <2>9. DetouredAfterInit' /\ PostsWithInstance'
    BY <2>1, <2>4, StartupAssumption
       DEF Inv, Positions, DetouredAfterInit, PostsWithInstance, Thread
  <2> QED
    BY <2>5, <2>6, <2>7, <2>8, <2>9 DEF Inv
<1>8. CASE PostInit(l)
  <2>1. pc[l] = "posts" /\ UNCHANGED <<game, step, hookInstance>>
    BY <1>8 DEF PostInit
  <2>2. hookInstance
    BY <2>1 DEF Inv, PostsWithInstance
  <2>3. \A t \in GameThread : pc[t] # "detoured"
    BY <2>1 DEF Inv, DetouredAfterInit
  <2>4. CASE UNCHANGED <<pc, initMutex>>
    BY <2>1, <2>2, <2>4
       DEF Inv, Positions, HolderIsInInit, HookIsOver, HooksAreAdded, DetouredAfterInit,
           PostsWithInstance, Finished, Hook
  <2>5. CASE /\ pc' = [pc EXCEPT ![l] = "returned"] /\ initMutex' = NoThread
             /\ hooksAdded = ConsoleHooks[game] /\ UNCHANGED hooksAdded
    <3>1. \A k \in Loader : k # l => pc[k] \notin InInit
      BY <2>1 DEF Inv, HolderIsInInit, InInit
    <3>2. \A k \in Loader : pc'[k] = IF k = l THEN "returned" ELSE pc[k]
      BY <2>5 DEF Inv, Positions, Thread
    <3>3. Positions'
      BY <2>5, StartupAssumption DEF Inv, Positions, LoaderAt, Thread
    <3>4. HolderIsInInit'
      BY <2>5, <3>1, <3>2, StartupAssumption DEF HolderIsInInit, InInit, InHook
    <3>5. HookIsOver' /\ HooksAreAdded'
      BY <2>1, <2>2, <2>5, <3>2
         DEF Inv, HookIsOver, HooksAreAdded, InHook, Finished, Hook
    <3>6. DetouredAfterInit' /\ PostsWithInstance'
      BY <2>1, <2>2, <2>3, <2>5, <3>2, StartupAssumption
         DEF Inv, Positions, DetouredAfterInit, PostsWithInstance, Thread
    <3> QED
      BY <3>3, <3>4, <3>5, <3>6 DEF Inv
  <2> QED
    BY <1>8, <2>4, <2>5 DEF PostInit
<1> QED
  BY <1>1, <1>2, <1>3, <1>4, <1>5, <1>6, <1>7, <1>8 DEF Load

(***************************************************************************)
(* Signal wakes a loader, and its thread goes on.                          *)
(***************************************************************************)
LEMMA SignalKeeps ==
    ASSUME Inv, Signal
    PROVE  Inv'
<1>1. /\ pc' = [t \in Thread |-> IF t = Main THEN "boots"
                                 ELSE IF pc[t] = "asleep" THEN "woken" ELSE pc[t]]
      /\ UNCHANGED <<game, step, initMutex, hookInstance, hooksAdded>>
  BY DEF Signal, AfterBoot, environment, init
<1>2. \A l \in Loader : pc'[l] = IF pc[l] = "asleep" THEN "woken" ELSE pc[l]
  BY <1>1, StartupAssumption DEF Thread
<1>3. \A t \in GameThread : pc'[t] \in {pc[t], "boots"}
  BY <1>1 DEF Inv, Positions, Thread, GameAt
<1>4. Positions'
  BY <1>1, <1>2, <1>3 DEF Inv, Positions, LoaderAt, GameAt, InInit, InHook, Thread
<1>5. HolderIsInInit' /\ HookIsOver' /\ HooksAreAdded' /\ PostsWithInstance'
  BY <1>1, <1>2 DEF Inv, HolderIsInInit, HookIsOver, HooksAreAdded, PostsWithInstance,
     InInit, InHook, Finished, Hook
<1>6. DetouredAfterInit'
  BY <1>1, <1>2, <1>3 DEF Inv, DetouredAfterInit
<1> QED
  BY <1>4, <1>5, <1>6 DEF Inv

(***************************************************************************)
(* Every step of the game, its calls included, keeps the invariant.        *)
(***************************************************************************)
LEMMA StartKeeps ==
    ASSUME Inv, Start
    PROVE  Inv'
<1> USE DEF environment, init, Goto, AfterBoot
<1>0. Main \in GameThread
  BY StartupAssumption
<1>1. CASE Boot
  <2>1. UNCHANGED <<game, step, initMutex, hookInstance, hooksAdded>>
        /\ (UNCHANGED pc \/ pc' = [pc EXCEPT ![Main] = "plays"])
    BY <1>1 DEF Boot
  <2> QED
    BY <1>0, <2>1, GameGoesOn, Elsewhere DEF GameAt
<1>2. CASE EnterSystemFunction
  BY <1>0, <1>2, GameGoesOn DEF EnterSystemFunction, GameAt
<1>3. CASE TestBeforeSignal
  BY <1>0, <1>3, GameGoesOn DEF TestBeforeSignal, GameAt
<1> QED
  BY <1>1, <1>2, <1>3, SignalKeeps DEF Start

LEMMA IsInitializedKeeps ==
    ASSUME Inv, NEW t \in GameThread, IsInitialized(t)
    PROVE  Inv'
<1> USE DEF environment, init, waiting, history, Goto, Undisturbed
<1>1. initMutex = NoThread /\ UNCHANGED <<game, step, initMutex, hookInstance, hooksAdded>>
  BY DEF IsInitialized
<1>2. CASE ~hookInstance
  <2>1. pc' = [pc EXCEPT ![t] = "native"]
    BY <1>2 DEF IsInitialized
  <2> QED
    BY <1>1, <2>1, GameGoesOn DEF GameAt
<1>3. CASE hookInstance
  <2>1. pc' = [pc EXCEPT ![t] = "detoured"]
    BY <1>3 DEF IsInitialized
  <2>2. \A l \in Loader : pc'[l] = pc[l] /\ pc[l] # "posts"
    BY <1>1, <2>1, StartupAssumption DEF Inv, Positions, HolderIsInInit, InInit, Thread
  <2>3. Positions'
    BY <2>1, <2>2 DEF Inv, Positions, GameAt, Thread
  <2> QED
    BY <1>1, <1>3, <2>2, <2>3
       DEF Inv, HolderIsInInit, HookIsOver, HooksAreAdded, DetouredAfterInit,
           PostsWithInstance, Finished, Hook
<1> QED
  BY <1>2, <1>3

LEMMA CallsKeep ==
    ASSUME Inv, NEW t \in GameThread, Call(t) \/ UseGlobal(t) \/ Return(t)
    PROVE  Inv'
<1> USE DEF environment, init, waiting, history, Goto, Undisturbed
<1>1. CASE Call(t)
  BY <1>1, GameGoesOn DEF Call, GameAt
<1>2. CASE UseGlobal(t)
  BY <1>2, Elsewhere DEF UseGlobal
<1>3. CASE Return(t)
  BY <1>3, GameGoesOn DEF Return, GameAt
<1> QED
  BY <1>1, <1>2, <1>3

LEMMA PackagesAndLogKeep ==
    ASSUME Inv, LoadStartup \/ CreateExport \/ LoggerLocks \/ LoggerUnlocks
    PROVE  Inv'
<1> USE DEF environment, init, waiting, history, Goto, Undisturbed
<1>0. Main \in GameThread
  BY StartupAssumption
<1>1. CASE LoadStartup
  BY <1>0, <1>1, GameGoesOn DEF LoadStartup, GameAt
<1>2. CASE CreateExport
  BY <1>0, <1>2, GameGoesOn DEF CreateExport, GameAt
<1>3. CASE LoggerLocks \/ LoggerUnlocks
  BY <1>3, Elsewhere DEF LoggerLocks, LoggerUnlocks
<1> QED
  BY <1>1, <1>2, <1>3

-----------------------------------------------------------------------------
(***************************************************************************)
(* Threads are where the lock lets them be.                                *)
(***************************************************************************)
THEOREM Invariance == Spec => []Inv
<1>1. Inv /\ [Next]_vars => Inv'
  <2> SUFFICES ASSUME Inv, [Next]_vars PROVE Inv'
    OBVIOUS
  <2>1. CASE UNCHANGED vars
    BY <2>1, Elsewhere DEF vars, environment, init
  <2>2. CASE Next
    BY <2>2, LoaderKeeps, StartKeeps, IsInitializedKeeps, CallsKeep, PackagesAndLogKeep
       DEF Next, Process
  <2> QED
    BY <2>1, <2>2
<1> QED
  BY Initially, <1>1, PTL DEF Spec

(***************************************************************************)
(* A call handled by a detour finds hook() finished and the console's      *)
(* hooks in place (unrealsdk_main.cpp, init and is_initialized).           *)
(***************************************************************************)
THEOREM CallsAlwaysSeeWholeSdk == Spec => []CallsSeeWholeSdk
<1>1. Inv => CallsSeeWholeSdk
  BY DEF Inv, DetouredAfterInit, HookIsOver, HooksAreAdded, CallsSeeWholeSdk
<1> QED
  BY <1>1, Invariance, PTL

-----------------------------------------------------------------------------
(***************************************************************************)
(* Waiting for the executable.  In the games that may be packed when the   *)
(* sdk is loaded, hook() waits before it searches for anything.            *)
(***************************************************************************)
BeforeSearches ==
    \/ game \in {"bl1", "bl1e"} /\ step = 1
    \/ game = "bl4" /\ step \in {1, 2}

WaitsForUnpacking == ~Unpacked /\ ~gaveUp => BeforeSearches

\* What a thread has seen that only an unpacked executable shows.
SeenUnpacked ==
    /\ ready => Unpacked
    /\ pc[Main] = "signals" => Unpacked
    /\ pc[Main] = "asked" /\ game # "bl1e" => Unpacked
    /\ \A l \in Loader : /\ pc[l] = "unhooks" => ready
                         /\ pc[l] = "reports" /\ game = "bl1e" => Unpacked

UnpackInv ==
    /\ boot \in {Stages[i] : i \in DOMAIN Stages}
    /\ WaitsForUnpacking
    /\ SeenUnpacked
    /\ SearchesUnpacked

IsList(list) == \E S : list \in Seq(S)

LEMMA ShortLists ==
    \A a, b, c : IsList(<<a>>) /\ IsList(<<a, b>>) /\ IsList(<<a, b, c>>)
<1> SUFFICES ASSUME NEW a, NEW b, NEW c
             PROVE  IsList(<<a>>) /\ IsList(<<a, b>>) /\ IsList(<<a, b, c>>)
  OBVIOUS
<1>1. <<a>> \in Seq({a, b, c}) /\ <<a, b>> \in Seq({a, b, c}) /\ <<a, b, c>> \in Seq({a, b, c})
  OBVIOUS
<1> QED
  BY <1>1 DEF IsList

\* What a list begins with it begins with however much is appended.
LEMMA BeginsWith ==
    ASSUME NEW p, NEW q, IsList(p), IsList(q), NEW n \in Nat, Len(p) >= n
    PROVE  /\ IsList(p \o q) /\ Len(p \o q) >= n
           /\ \A i \in 1 .. n : (p \o q)[i] = p[i]
<1>1. PICK S, T : p \in Seq(S) /\ q \in Seq(T)
  BY DEF IsList
<1>2. p \in Seq(S \union T) /\ q \in Seq(S \union T)
  BY <1>1
<1>3. /\ p \o q \in Seq(S \union T) /\ Len(p \o q) >= n
      /\ \A i \in 1 .. n : (p \o q)[i] = p[i]
  BY <1>2
<1> QED
  BY <1>3 DEF IsList

\* The games that may be packed begin by waiting.
LEMMA FirstSteps ==
    /\ \A g \in {"bl1", "bl1e"} : Steps[g][1].does = "wait"
    /\ Steps["bl4"][1].does = "plain" /\ Steps["bl4"][2].does = "poll"
<1> USE ShortLists
<1>1. Steps["bl1"][1].does = "wait"
  <2>1. /\ IsList(BL1Wait) /\ Len(BL1Wait) >= 1 /\ BL1Wait[1].does = "wait"
    <3>1. BL1Wait = <<Step("wait", "entry", "null")>>
      BY DEF BL1Wait
    <3>2. IsList(BL1Wait)
      BY <3>1
    <3> QED
      BY <3>1, <3>2 DEF Step
  <2>2. IsList(BL1Antidebug) /\ IsList(BL1ProcessEvent) /\ IsList(BL1CallFunction) /\ IsList(BL1LoadPackage)
    BY DEF BL1Antidebug, BL1ProcessEvent, BL1CallFunction, BL1LoadPackage
  <2>3. IsList(BL1Globals) /\ IsList(BL1Names) /\ IsList(BL1Memory) /\ IsList(BL1Hexedits)
    BY DEF BL1Globals, BL1Names, BL1Memory, BL1Hexedits
  <2>4. IsList(BL1Objects)
    BY DEF BL1Objects
  <2> DEFINE Waits(list) == IsList(list) /\ Len(list) >= 1 /\ list[1].does = "wait"
  <2>5. ASSUME NEW list, Waits(list), NEW more, IsList(more) PROVE Waits(list \o more)
    BY <2>5, BeginsWith
  <2>6. Waits(BL1Wait)
    BY <2>1
  <2> HIDE DEF Waits
  <2>7. Waits(BL1Hook)
    BY <2>2, <2>3, <2>4, <2>5, <2>6 DEF BL1Hook
  <2> QED
    BY <2>7 DEF Steps, Waits
<1>2. Steps["bl1e"][1].does = "wait"
  <2>1. /\ IsList(BL1EWait) /\ Len(BL1EWait) >= 1 /\ BL1EWait[1].does = "wait"
    <3>1. BL1EWait = <<Step("wait", "entry", "null")>>
      BY DEF BL1EWait
    <3>2. IsList(BL1EWait)
      BY <3>1
    <3> QED
      BY <3>1, <3>2 DEF Step
  <2>2. /\ IsList(BL1EEditor) /\ IsList(BL1EProcessEvent) /\ IsList(BL1ECallFunction)
        /\ IsList(BL1EMemory) /\ IsList(BL1ELoadPackage)
    BY DEF BL1EEditor, BL1EProcessEvent, BL1ECallFunction, BL1EMemory, BL1ELoadPackage
  <2>3. IsList(BL1EGlobals) /\ IsList(BL1ENames)
    BY DEF BL1EGlobals, BL1ENames
  <2>4. IsList(BL1EObjects) /\ IsList(BL1EStartupBypass)
    BY DEF BL1EObjects, BL1EStartupBypass
  <2> DEFINE Waits(list) == IsList(list) /\ Len(list) >= 1 /\ list[1].does = "wait"
  <2>5. ASSUME NEW list, Waits(list), NEW more, IsList(more) PROVE Waits(list \o more)
    BY <2>5, BeginsWith
  <2>6. Waits(BL1EWait)
    BY <2>1
  <2> HIDE DEF Waits
  <2>7. Waits(BL1EHook)
    BY <2>2, <2>3, <2>4, <2>5, <2>6 DEF BL1EHook
  <2> QED
    BY <2>7 DEF Steps, Waits
<1>3. Steps["bl4"][1].does = "plain" /\ Steps["bl4"][2].does = "poll"
  <2>1. /\ IsList(BL4Antidebug \o BL4Unpack) /\ Len(BL4Antidebug \o BL4Unpack) >= 2
        /\ (BL4Antidebug \o BL4Unpack)[1].does = "plain"
        /\ (BL4Antidebug \o BL4Unpack)[2].does = "poll"
    <3>1. /\ BL4Antidebug = <<Step("plain", "antidebug", "null")>>
          /\ BL4Unpack = <<Step("poll", "ProcessEvent", "null")>>
      BY DEF BL4Antidebug, BL4Unpack, Plain
    <3>2. IsList(BL4Antidebug) /\ IsList(BL4Unpack)
      BY <3>1
    <3>3. IsList(BL4Antidebug \o BL4Unpack)
      BY <3>2, BeginsWith
    <3> QED
      BY <3>1, <3>3 DEF Step
  <2>2. /\ IsList(BL4Search) /\ IsList(BL4CallFunction) /\ IsList(BL4PathNames)
        /\ IsList(BL4LoadPackage) /\ IsList(BL4Natives) /\ IsList(BL4Texts)
    BY DEF BL4Search, BL4CallFunction, BL4PathNames, BL4LoadPackage, BL4Natives, BL4Texts
  <2>3. IsList(BL4Objects) /\ IsList(BL4GObjects)
    BY DEF BL4Objects, BL4GObjects
  <2>4. IsList(BL4Names) /\ IsList(BL4Memory)
    BY DEF BL4Names, BL4Memory
  <2> DEFINE Polls(list) == /\ IsList(list) /\ Len(list) >= 2
                            /\ list[1].does = "plain" /\ list[2].does = "poll"
  <2>5. ASSUME NEW list, Polls(list), NEW more, IsList(more) PROVE Polls(list \o more)
    BY <2>5, BeginsWith
  <2>6. Polls(BL4Antidebug \o BL4Unpack)
    BY <2>1
  <2> HIDE DEF Polls
  <2>7. Polls(BL4Hook)
    BY <2>2, <2>3, <2>4, <2>5, <2>6 DEF BL4Hook
  <2> QED
    BY <2>7 DEF Steps, Polls
<1> QED
  BY <1>1, <1>2, <1>3

\* hook() does nothing but wait, and what needs no search, until the executable is unpacked.
LEMMA NothingSearches ==
    ASSUME WaitsForUnpacking, ~Unpacked, ~gaveUp
    PROVE  \/ Current.does = "wait"
           \/ game = "bl4" /\ step = 1 /\ Current.does = "plain"
           \/ game = "bl4" /\ step = 2 /\ Current.does = "poll"
BY FirstSteps DEF WaitsForUnpacking, BeforeSearches, Current, Hook

(***************************************************************************)
(* A loader goes to where it may have come; the executable stays as it is, *)
(* and no search begins before it is unpacked.                             *)
(***************************************************************************)
LEMMA LoaderSees ==
    ASSUME Inv, UnpackInv, NEW l \in Loader, NEW at, pc' = [pc EXCEPT ![l] = at],
           UNCHANGED <<boot, game, ready>>,
           at = "unhooks" => ready, at = "reports" /\ game = "bl1e" => Unpacked,
           gaveUp' \in BOOLEAN, gaveUp => gaveUp',
           ~Unpacked /\ ~gaveUp' => BeforeSearches', blind' => blind \/ gaveUp'
    PROVE  UnpackInv'
<1>1. Unpacked' <=> Unpacked
  BY DEF Unpacked
<1>2. pc'[Main] = pc[Main] /\ \A k \in Loader : pc'[k] = IF k = l THEN at ELSE pc[k]
  BY StartupAssumption DEF Inv, Positions, Thread
<1>3. SeenUnpacked'
  BY <1>1, <1>2 DEF UnpackInv, SeenUnpacked
<1> QED
  BY <1>1, <1>3 DEF UnpackInv, WaitsForUnpacking, SearchesUnpacked

\* A thread of the game goes on without looking whether the executable is unpacked.
LEMMA GameSees ==
    ASSUME Inv, UnpackInv, NEW t \in GameThread, NEW at \in GameAt \ {"asked", "signals"},
           pc' = [pc EXCEPT ![t] = at] \/ UNCHANGED pc,
           UNCHANGED <<boot, game, step, ready, gaveUp, blind>>
    PROVE  UnpackInv'
<1>1. Unpacked' <=> Unpacked
  BY DEF Unpacked
<1>2. /\ pc'[Main] = pc[Main] \/ pc'[Main] = at
      /\ \A l \in Loader : pc'[l] = pc[l]
  BY StartupAssumption DEF Inv, Positions, Thread
<1>3. SeenUnpacked'
  BY <1>1, <1>2 DEF UnpackInv, SeenUnpacked
<1> QED
  BY <1>1, <1>3 DEF UnpackInv, WaitsForUnpacking, BeforeSearches, SearchesUnpacked

\* What leaves the threads and the executable as they are.
LEMMA NobodySees ==
    ASSUME UnpackInv, UNCHANGED <<pc, boot, game, step, ready, gaveUp, blind>>
    PROVE  UnpackInv'
BY DEF UnpackInv, WaitsForUnpacking, BeforeSearches, SeenUnpacked, SearchesUnpacked, Unpacked

LEMMA StagesKnown ==
    {"packed", "unpacked", "entered", "malloc", "names", "objects"} =
        {Stages[i] : i \in DOMAIN Stages}
<1>1. /\ DOMAIN Stages = 1 .. 6
      /\ Stages[1] = "packed" /\ Stages[2] = "unpacked" /\ Stages[3] = "entered"
      /\ Stages[4] = "malloc" /\ Stages[5] = "names" /\ Stages[6] = "objects"
  BY DEF Stages
<1>2. \A i \in 1 .. 6 : i = 1 \/ i = 2 \/ i = 3 \/ i = 4 \/ i = 5 \/ i = 6
  OBVIOUS
<1> QED
  BY <1>1, <1>2

(***************************************************************************)
(* The game only ever goes on to a stage after "packed".                   *)
(***************************************************************************)
LEMMA NextStageIsUnpacked ==
    ASSUME boot \in {Stages[i] : i \in DOMAIN Stages}, boot # "objects"
    PROVE  NextStage \in {Stages[i] : i \in DOMAIN Stages} /\ NextStage # "packed"
<1>1. /\ DOMAIN Stages = 1 .. 6 /\ Len(Stages) = 6 /\ Stages[6] = "objects"
      /\ \A i \in 1 .. 6 : Stages[i] = "packed" => i = 1
  BY DEF Stages
<1> DEFINE Follows(s) == \E i \in DOMAIN Stages : Stages[i] = boot /\ i < Len(Stages) /\ s = Stages[i + 1]
<1>2. PICK i \in 1 .. 6 : boot = Stages[i] /\ i < 6
  BY <1>1
<1>3. Stages[i + 1] \in {Stages[j] : j \in DOMAIN Stages} /\ Follows(Stages[i + 1])
  BY <1>1, <1>2
<1>4. NextStage \in {Stages[j] : j \in DOMAIN Stages} /\ Follows(NextStage)
  BY <1>3 DEF NextStage
<1>5. PICK j \in 1 .. 6 : j < 6 /\ NextStage = Stages[j + 1]
  BY <1>1, <1>4
<1> QED
  BY <1>1, <1>4, <1>5

(***************************************************************************)
(* Every step of a loader: hook() gets beyond its wait only with the game  *)
(* unpacked, or having given up.                                           *)
(***************************************************************************)
LEMMA LoaderWaits ==
    ASSUME Inv, UnpackInv, NEW l \in Loader, Load(l), gaveUp \in BOOLEAN
    PROVE  UnpackInv'
<1> USE DEF environment, effects, init, waiting, history, Goto
<1>0. /\ WaitsForUnpacking /\ SeenUnpacked
      /\ UNCHANGED <<game, step>> => (BeforeSearches' <=> BeforeSearches)
  BY DEF UnpackInv, BeforeSearches
<1>1. CASE LockInit(l)
  BY <1>0, <1>1, LoaderSees DEF LockInit, WaitsForUnpacking
<1>2. CASE Begin(l)
  <2>1. /\ UNCHANGED <<boot, game, step, ready, gaveUp, blind>>
        /\ \E at \in {"refused", "threw", "hook"} : pc' = [pc EXCEPT ![l] = at]
    BY <1>2 DEF Begin
  <2> QED
    BY <1>0, <2>1, LoaderSees DEF WaitsForUnpacking
<1>3. CASE DoStep(l)
  <2>1. UNCHANGED <<boot, game, ready, gaveUp>>
    BY <1>3 DEF DoStep
  <2>2. ~Unpacked /\ ~gaveUp => game = "bl4" /\ step = 1 /\ Current.does = "plain"
    BY <1>0, <1>3, NothingSearches DEF DoStep
  <2>3. blind' => blind \/ gaveUp
    BY <1>0, <1>3, <2>2, NothingSearches DEF DoStep, UnpackInv, SearchesUnpacked
  <2>4. CASE StepDone(l)
    <3>1. ~Unpacked /\ ~gaveUp => BeforeSearches'
      BY <2>1, <2>2, <2>4 DEF StepDone, BeforeSearches
    <3> QED
      BY <2>1, <2>3, <2>4, <3>1, LoaderSees DEF StepDone
  <2>5. CASE Throw(l) /\ UNCHANGED step
    BY <1>0, <2>1, <2>3, <2>5, LoaderSees DEF Throw, WaitsForUnpacking
  <2>6. CASE UNCHANGED <<pc, step>>
    <3>1. blind' => gaveUp
      BY <2>3 DEF UnpackInv, SearchesUnpacked
    <3> QED
      BY <1>0, <2>1, <2>6, <3>1
         DEF UnpackInv, WaitsForUnpacking, SeenUnpacked, SearchesUnpacked, Unpacked
  <2> QED
    BY <1>3, <2>4, <2>5, <2>6 DEF DoStep
<1>4. CASE CopyValue(l) \/ AwaitStage(l) \/ AwaitZeroByte(l)
  <2>1. /\ UNCHANGED <<boot, game, ready, gaveUp, blind>>
        /\ pc' = [pc EXCEPT ![l] = "hook"] /\ Current.does \in {"copy", "await", "await zero"}
    BY <1>4 DEF CopyValue, AwaitStage, AwaitZeroByte, StepDone
  <2>2. Unpacked \/ gaveUp
    BY <1>0, <2>1, NothingSearches
  <2> QED
    BY <2>1, <2>2, LoaderSees
<1>5. CASE Poll(l)
  <2>1. /\ UNCHANGED <<boot, game, ready, blind>>
        /\ pc' = [pc EXCEPT ![l] = "hook"] /\ Current.does = "poll"
    BY <1>5 DEF Poll, StepDone
  <2>2. /\ gaveUp' \in BOOLEAN
        /\ gaveUp => gaveUp'
        /\ Unpacked \/ gaveUp'
    <3>1. CASE Found /\ UNCHANGED gaveUp
      <4>1. Current.does # "choose"
        BY <2>1
      <4>2. Unpacked
        BY <3>1, <4>1 DEF Found, Present
      <4> QED
        BY <3>1, <4>2
    <3>2. CASE gaveUp' = TRUE
      BY <3>2
    <3> QED
      BY <1>5, <3>1, <3>2 DEF Poll
  <2> QED
    BY <2>1, <2>2, LoaderSees
<1>6. CASE Suspend(l) \/ HookSystemFunction(l) \/ LockReady(l) \/ Sleep(l)
  <2>1. /\ UNCHANGED <<boot, game, step, ready, gaveUp, blind>>
        /\ \E at \in {"looks", "locks", "tests", "complains", "asleep"} : pc' = [pc EXCEPT ![l] = at]
    BY <1>6 DEF Suspend, HookSystemFunction, LockReady, Sleep, AfterWait
  <2> QED
    BY <1>0, <2>1, LoaderSees DEF WaitsForUnpacking
<1>7. CASE Look(l)
  <2>1. UNCHANGED <<boot, game, ready, gaveUp, blind>>
    BY <1>7 DEF Look, AfterWait
  <2>2. CASE Present("entry") /\ StepDone(l)
    BY <2>1, <2>2, LoaderSees DEF Present, StepDone
  <2>3. CASE Present("entry") /\ pc' = [pc EXCEPT ![l] = "reports"] /\ UNCHANGED step
    BY <1>0, <2>1, <2>3, LoaderSees DEF Present, WaitsForUnpacking
  <2>4. CASE game = "bl1" /\ pc' = [pc EXCEPT ![l] = "reports"] /\ UNCHANGED step
    BY <1>0, <2>1, <2>4, LoaderSees DEF WaitsForUnpacking
  <2>5. CASE pc' = [pc EXCEPT ![l] = "hooks"] /\ UNCHANGED step
    BY <1>0, <2>1, <2>5, LoaderSees DEF WaitsForUnpacking
  <2> QED
    BY <1>7, <2>2, <2>3, <2>4, <2>5 DEF Look
<1>8. CASE Report(l)
  <2>1. UNCHANGED <<boot, game, ready, gaveUp, blind>> /\ pc[l] = "reports"
    BY <1>8 DEF Report
  <2>2. CASE \/ pc' = [pc EXCEPT ![l] = "hooks"] /\ UNCHANGED step
             \/ Throw(l) /\ UNCHANGED step
    BY <1>0, <2>1, <2>2, LoaderSees DEF Throw, WaitsForUnpacking
  <2>3. CASE game = "bl1e" /\ StepDone(l)
    <3>1. Unpacked
      BY <1>0, <2>1, <2>3 DEF SeenUnpacked
    <3> QED
      BY <2>1, <2>3, <3>1, LoaderSees DEF StepDone
  <2> QED
    BY <1>8, <2>2, <2>3 DEF Report
<1>9. CASE Complain(l)
  <2>1. UNCHANGED <<boot, game, ready, blind>> /\ gaveUp' = TRUE /\ pc' = [pc EXCEPT ![l] = "hook"]
    BY <1>9 DEF Complain, AfterWait, StepDone
  <2> QED
    BY <2>1, LoaderSees
<1>10. CASE TestReady(l)
  <2>1. /\ UNCHANGED <<boot, game, step, ready, gaveUp, blind>>
        /\ pc' = [pc EXCEPT ![l] = IF ready THEN "unhooks" ELSE "sleeps"]
    BY <1>10 DEF TestReady, AfterWait
  <2> QED
    BY <1>0, <2>1, LoaderSees DEF WaitsForUnpacking
<1>11. CASE Unhook(l)
  <2>1. UNCHANGED <<boot, game, ready, gaveUp, blind>> /\ pc' = [pc EXCEPT ![l] = "hook"]
    BY <1>11 DEF Unhook, AfterWait, StepDone
  <2>2. Unpacked
    BY <1>0, <1>11 DEF Unhook, SeenUnpacked
  <2> QED
    BY <2>1, <2>2, LoaderSees
<1>12. CASE FinishHook(l)
  <2>1. UNCHANGED <<boot, game, step, ready, gaveUp, blind>> /\ pc' = [pc EXCEPT ![l] = "posts"]
    BY <1>12 DEF FinishHook
  <2> QED
    BY <1>0, <2>1, LoaderSees DEF WaitsForUnpacking
<1>13. CASE PostInit(l)
  <2>1. /\ UNCHANGED <<boot, game, step, ready, gaveUp, blind>>
        /\ UNCHANGED pc \/ pc' = [pc EXCEPT ![l] = "returned"]
    BY <1>13 DEF PostInit
  <2> QED
    BY <1>0, <2>1, LoaderSees, NobodySees DEF WaitsForUnpacking
<1> QED
  BY <1>1, <1>2, <1>3, <1>4, <1>5, <1>6, <1>7, <1>8, <1>9, <1>10, <1>11, <1>12, <1>13 DEF Load

(***************************************************************************)
(* Every step of the game's start: it signals only once it is unpacked.    *)
(***************************************************************************)
LEMMA StartUnpacks ==
    ASSUME Inv, UnpackInv, Start
    PROVE  UnpackInv'
<1> USE DEF environment, init, Goto, AfterBoot, effects, history
<1>0. /\ Main \in GameThread /\ WaitsForUnpacking /\ SeenUnpacked
      /\ UNCHANGED <<game, step, gaveUp, blind>>
  BY StartupAssumption DEF UnpackInv, Start, Boot, EnterSystemFunction, TestBeforeSignal, Signal
<1>1. /\ boot' \in {Stages[i] : i \in DOMAIN Stages}
      /\ boot' # boot => Unpacked'
  <2>1. boot' = boot \/ (boot # "objects" /\ boot' = NextStage)
    <3>1. CASE Boot \/ EnterSystemFunction
      BY <3>1 DEF Boot, EnterSystemFunction
    <3>2. CASE TestBeforeSignal \/ Signal
      <4>1. boot' = boot \/ LeaveSystemFunction
        BY <3>2 DEF TestBeforeSignal, Signal
      <4> QED
        BY <4>1 DEF LeaveSystemFunction
    <3> QED
      BY <3>1, <3>2 DEF Start
  <2> QED
    BY <2>1, NextStageIsUnpacked DEF UnpackInv, Unpacked
<1>2. Unpacked => Unpacked'
  BY <1>1 DEF Unpacked
<1>3. WaitsForUnpacking' /\ SearchesUnpacked'
  BY <1>0, <1>1, <1>2 DEF UnpackInv, WaitsForUnpacking, BeforeSearches, SearchesUnpacked, Unpacked
<1>4. CASE Signal
  <2>1. /\ pc[Main] = "signals"
        /\ pc' = [t \in Thread |-> IF t = Main THEN "boots"
                                   ELSE IF pc[t] = "asleep" THEN "woken" ELSE pc[t]]
    BY <1>4 DEF Signal
  <2>2. /\ pc'[Main] = "boots" /\ Unpacked'
        /\ \A l \in Loader : pc'[l] = pc[l] \/ pc'[l] = "woken"
    BY <1>0, <1>2, <2>1, StartupAssumption DEF Thread, SeenUnpacked
  <2>3. \A l \in Loader : pc'[l] = "unhooks" => ready'
    BY <1>0, <1>4, <2>2 DEF SeenUnpacked, Signal
  <2> QED
    BY <1>1, <1>3, <2>2, <2>3 DEF UnpackInv, SeenUnpacked
<1>5. CASE ~Signal
  <2>1. /\ ready' = ready
        /\ \A l \in Loader : pc'[l] = pc[l]
    BY <1>5, StartupAssumption
       DEF Inv, Positions, Thread, Start, Boot, EnterSystemFunction, TestBeforeSignal
  <2>2. CASE Boot
    <3>1. pc'[Main] \in {"boots", "plays"}
      BY <2>2, StartupAssumption DEF Boot, Inv, Positions, Thread
    <3> QED
      BY <1>0, <1>1, <1>2, <1>3, <2>1, <3>1 DEF UnpackInv, SeenUnpacked
  <2>3. CASE EnterSystemFunction
    <3>1. pc'[Main] = "asked" /\ (game # "bl1e" => Unpacked)
      BY <2>3, StartupAssumption DEF EnterSystemFunction, Inv, Positions, Thread, Unpacked
    <3> QED
      BY <1>0, <1>1, <1>2, <1>3, <2>1, <3>1 DEF UnpackInv, SeenUnpacked
  <2>4. CASE TestBeforeSignal
    <3>1. pc[Main] = "asked"
      BY <2>4 DEF TestBeforeSignal
    <3>2. \/ pc'[Main] = "boots"
          \/ pc'[Main] = "signals" /\ (game = "bl1e" => Unpacked)
      <4>1. Main \in Thread /\ pc \in [Thread -> LoaderAt \union GameAt]
        BY <1>0 DEF Inv, Positions, Thread
      <4>2. CASE ready \/ (game = "bl1e" /\ ~Present("entry"))
        <5>1. pc' = [pc EXCEPT ![Main] = "boots"]
          BY <2>4, <4>2 DEF TestBeforeSignal
        <5> QED
          BY <4>1, <5>1
      <4>3. CASE ~(ready \/ (game = "bl1e" /\ ~Present("entry")))
        <5>1. pc' = [pc EXCEPT ![Main] = "signals"]
          BY <2>4, <4>3 DEF TestBeforeSignal
        <5> QED
          BY <4>1, <4>3, <5>1 DEF Present
      <4> QED
        BY <4>2, <4>3
    <3>3. pc'[Main] = "signals" => Unpacked
      BY <1>0, <3>1, <3>2 DEF SeenUnpacked
    <3> QED
      BY <1>0, <1>1, <1>2, <1>3, <2>1, <3>2, <3>3 DEF UnpackInv, SeenUnpacked
  <2> QED
    BY <1>5, <2>2, <2>3, <2>4 DEF Start
<1> QED
  BY <1>4, <1>5

LEMMA GameCallsUnpack ==
    ASSUME Inv, UnpackInv,
           \/ \E t \in GameThread : Process(t) \/ Call(t) \/ UseGlobal(t)
           \/ LoadStartup \/ CreateExport \/ LoggerLocks \/ LoggerUnlocks
    PROVE  UnpackInv'
<1> USE DEF environment, init, waiting, Goto, Undisturbed, effects, history
<1>0. Main \in GameThread
  BY StartupAssumption
<1>1. UNCHANGED <<boot, game, step, ready, gaveUp, blind>>
  BY DEF Process, IsInitialized, Return, Call, UseGlobal, LoadStartup, CreateExport,
         LoggerLocks, LoggerUnlocks
<1>2. ASSUME NEW t \in GameThread, Process(t) \/ Call(t)
      PROVE  \E at \in GameAt \ {"asked", "signals"} : pc' = [pc EXCEPT ![t] = at]
  BY <1>2 DEF Process, IsInitialized, Return, Call, GameAt
<1>3. CASE LoadStartup \/ CreateExport
  <2>1. \E at \in GameAt \ {"asked", "signals"} : pc' = [pc EXCEPT ![Main] = at]
    BY <1>3 DEF LoadStartup, CreateExport, GameAt
  <2> QED
    BY <1>0, <1>1, <2>1, GameSees
<1>4. CASE (\E t \in GameThread : UseGlobal(t)) \/ LoggerLocks \/ LoggerUnlocks
  <2>1. UNCHANGED pc
    BY <1>4 DEF UseGlobal, LoggerLocks, LoggerUnlocks
  <2> QED
    BY <1>1, <2>1, NobodySees
<1> QED
  BY <1>1, <1>2, <1>3, <1>4, GameSees

(***************************************************************************)
(* In every game and whatever is missing from it, nothing is searched for  *)
(* in the packed executable, unless waiting for it had to be given up.     *)
(***************************************************************************)
THEOREM SearchesSeeUnpacked == Spec => []SearchesUnpacked
<1> DEFINE UInv == UnpackInv /\ gaveUp \in BOOLEAN
<1>1. Init => UInv
  <2> SUFFICES ASSUME Init PROVE UInv
    OBVIOUS
  <2>1. /\ pc[Main] \in {"boots", "plays"} /\ \A l \in Loader : pc[l] = "calls"
        /\ ready = FALSE /\ blind = FALSE /\ gaveUp = FALSE
    BY StartupAssumption DEF Init, Thread
  <2>2. boot = "packed" => BeforeSearches
    BY DEF Init, BeforeSearches
  <2>3. boot \in {Stages[i] : i \in DOMAIN Stages}
    BY StartupAssumption, StagesKnown DEF Init
  <2> QED
    BY <2>1, <2>2, <2>3
       DEF UnpackInv, WaitsForUnpacking, SeenUnpacked, SearchesUnpacked, Unpacked
<1>2. Inv /\ UInv /\ [Next]_vars => UInv'
  <2> SUFFICES ASSUME Inv, UInv, [Next]_vars PROVE UInv'
    OBVIOUS
  <2>1. UnpackInv'
    <3>1. CASE UNCHANGED vars
      BY <3>1, NobodySees DEF vars, environment, init, waiting, history
    <3> QED
      BY <3>1, LoaderWaits, StartUnpacks, GameCallsUnpack DEF Next
  <2>2. gaveUp' \in BOOLEAN
    <3>1. gaveUp' = gaveUp \/ gaveUp' = TRUE
      BY DEF Next, Load, LockInit, Begin, DoStep, CopyValue, AwaitStage, AwaitZeroByte, Poll, Suspend, Look,
         Report, HookSystemFunction, Complain, LockReady, TestReady, Sleep, Unhook, FinishHook,
         PostInit, Start, Boot, EnterSystemFunction, TestBeforeSignal, Signal, Process,
         IsInitialized, Return, Call, UseGlobal, LoadStartup, CreateExport, LoggerLocks,
         LoggerUnlocks, AfterWait, AfterBoot, Undisturbed, waiting, vars
    <3> QED
      BY <3>1
  <2> QED
    BY <2>1, <2>2
<1>3. UInv => SearchesUnpacked
  BY DEF UnpackInv
<1> QED
  BY <1>1, <1>2, <1>3, Invariance, PTL DEF Spec
=============================================================================

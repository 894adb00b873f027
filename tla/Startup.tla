------------------------------- MODULE Startup ------------------------------
(***************************************************************************)
(* init: how the sdk comes up in a game that is already running.  Threads  *)
(* of the sdk or of a client call init; one of them goes through the       *)
(* game's hook() with init_mutex held, while the game's main thread        *)
(* unpacks the executable, sets up the engine, and begins to call unreal   *)
(* functions, which enter the detours as soon as those are enabled.        *)
(***************************************************************************)
EXTENDS Naturals, GameHooks

CONSTANTS
    Loader,         \* the threads that call init
    GameThread,     \* the game's threads
    Main,           \* the one that starts the game
    Game,           \* the games considered
    Missing,        \* what may be missing from them
    FirstStage,     \* how far they may have come when the sdk is loaded
    NoThread        \* the owner of a free mutex

ASSUME StartupAssumption ==
    /\ Main \in GameThread
    /\ Loader \cap GameThread = {}
    /\ NoThread \notin Loader \union GameThread
    /\ Game \subseteq DOMAIN Steps
    /\ "nothing" \in Missing
    /\ FirstStage \subseteq {"packed", "unpacked", "entered", "malloc", "names", "objects"}

VARIABLES
    game,           \* the game
    missing,        \* something that is not in this version of it, or "nothing"
    namesByte,      \* what BL4 reads as the flag that names are set up
    options,        \* of "bypass" (unrealsdk.bypass_startup_file) and "editor"
    boot,           \* how far the game has come
    pc,             \* what each thread is doing
    step,           \* the step of hook() that comes next
    initMutex,      \* the holder of init_mutex
    hookInstance,   \* hook_instance is set
    minhook,        \* MinHook is initialised
    detours,        \* the detours that are enabled
    cached,         \* multi_sigscan has run on the unpacked executable
    hooksAdded,     \* the number of hooks inject_console has added
    waitHook,       \* the system function waited for is hooked
    readyMutex,     \* the holder of ready_mutex
    ready,          \* the flag that the game is unpacked
    suspended,      \* a ThreadSuspender is in force
    loggerHolds,    \* the logger thread holds pending_messages_mutex
    gaveUp,         \* waiting ended in a fixed delay, or a timeout
    nullCopied,     \* what was copied before the game had set it
    blind,          \* a search has run on the packed executable
    early,          \* a global was used before hook_instance was set
    startupLoaded,  \* the game has loaded the package Startup
    crashed         \* the game has crashed

environment == <<game, missing, namesByte, options>>
effects == <<detours, cached, nullCopied>>
init == <<step, initMutex, hookInstance, minhook, effects, hooksAdded>>
waiting == <<waitHook, readyMutex, ready, suspended, gaveUp>>
history == <<blind, early, crashed>>
vars == <<environment, boot, pc, init, waiting, history, loggerHolds, startupLoaded>>

Thread == Loader \union GameThread

Stages == <<"packed", "unpacked", "entered", "malloc", "names", "objects">>

\* The game has come as far as the given stage.
Reached(stage) ==
    \E i, j \in DOMAIN Stages : i <= j /\ Stages[i] = stage /\ Stages[j] = boot

Unpacked == boot # "packed"

Hook == Steps[game]

Finished == step > Len(Hook)

Current == Hook[step]

Present(what) == Unpacked /\ missing # what

\* What find_* gets for the current step.
Found == IF Current.does = "choose" THEN cached /\ missing # Current.what
                                    ELSE Present(Current.what)

Names(g) == {Steps[g][i].what : i \in DOMAIN Steps[g]} \union {"entry", "nothing"}

Goto(t, at) == pc' = [pc EXCEPT ![t] = at]

StepDone(l) == Goto(l, "hook") /\ step' = step + 1

-----------------------------------------------------------------------------
Init ==
    /\ game \in Game
    /\ missing \in Names(game) \cap Missing
    /\ namesByte \in IF game = "bl4" THEN {"flag", "zero", "nonzero"} ELSE {"flag"}
    /\ options \in SUBSET (IF game = "bl1e" THEN {"bypass", "editor"} ELSE {})
    /\ boot \in FirstStage
    /\ boot = "packed" => game \in {"bl1", "bl1e", "bl4"}
    /\ pc = [t \in Thread |-> IF t \in Loader THEN "calls"
                              ELSE IF t = Main /\ boot # "objects" THEN "boots"
                              ELSE "plays"]
    /\ step = 1 /\ initMutex = NoThread /\ hookInstance = FALSE /\ minhook = FALSE
    /\ detours = {} /\ cached = FALSE /\ nullCopied = {} /\ hooksAdded = 0
    /\ waitHook = FALSE /\ readyMutex = NoThread /\ ready = FALSE
    /\ suspended = FALSE /\ loggerHolds = FALSE /\ gaveUp = FALSE
    /\ blind = FALSE /\ early = FALSE /\ startupLoaded = FALSE /\ crashed = FALSE

-----------------------------------------------------------------------------
(***************************************************************************)
(* init up to the game's hook().  It throws if MinHook cannot be           *)
(* initialised, as when an earlier init has done that and failed later,    *)
(* and if the executable is not one of a known game.                       *)
(***************************************************************************)
LockInit(l) ==
    /\ pc[l] = "calls" /\ initMutex = NoThread
    /\ initMutex' = l
    /\ Goto(l, "begins")
    /\ UNCHANGED <<environment, boot, step, hookInstance, minhook, effects,
                   hooksAdded, waiting, history, loggerHolds, startupLoaded>>

Begin(l) ==
    /\ pc[l] = "begins"
    /\ \/ hookInstance /\ Goto(l, "refused") /\ initMutex' = NoThread /\ UNCHANGED minhook
       \/ ~hookInstance /\ Goto(l, "threw") /\ initMutex' = NoThread
          /\ minhook' \in {minhook, TRUE}
       \/ ~hookInstance /\ ~minhook /\ minhook' = TRUE /\ Goto(l, "hook")
          /\ UNCHANGED initMutex
    /\ UNCHANGED <<environment, boot, step, hookInstance, effects, hooksAdded,
                   waiting, history, loggerHolds, startupLoaded>>

\* hook() throws: init_mutex is released, the detours stay.
Throw(l) == Goto(l, "threw") /\ initMutex' = NoThread

\* One step of hook() that neither waits nor polls.
DoStep(l) ==
    /\ pc[l] = "hook" /\ ~Finished
    /\ Current.does \in {"find", "choose", "detour", "edit", "plain", "search"}
    /\ blind' = (blind \/ (~Unpacked /\ Current.does \notin {"plain", "choose"}))
    /\ detours' = IF Current.does = "detour" /\ Found
                  THEN detours \union {Current.what} ELSE detours
    /\ cached' = (cached \/ (Current.does = "search" /\ Unpacked))
    /\ \/ (Found \/ Current.absent = "null") /\ StepDone(l) /\ UNCHANGED <<initMutex, crashed>>
       \/ ~Found /\ Current.absent = "throw" /\ Throw(l) /\ UNCHANGED <<step, crashed>>
       \/ ~Found /\ Current.absent = "fault" /\ crashed' = TRUE
          /\ UNCHANGED <<pc, step, initMutex>>
    /\ UNCHANGED <<environment, boot, hookInstance, minhook, nullCopied,
                   hooksAdded, waiting, early, loggerHolds, startupLoaded>>

\* The stage at which the game sets what is copied.
SetAt == [GMalloc |-> "malloc", GNames |-> "names"]

CopyValue(l) ==
    /\ pc[l] = "hook" /\ ~Finished /\ Current.does = "copy"
    /\ nullCopied' = IF Reached(SetAt[Current.what]) THEN nullCopied
                      ELSE nullCopied \union {Current.what}
    /\ StepDone(l)
    /\ UNCHANGED <<environment, boot, initMutex, hookInstance, minhook, detours,
                   cached, hooksAdded, waiting, history, loggerHolds,
                   startupLoaded>>

AwaitStage(l) ==
    /\ pc[l] = "hook" /\ ~Finished /\ Current.does = "await"
    /\ Reached(Current.what)
    /\ StepDone(l)
    /\ UNCHANGED <<environment, boot, initMutex, hookInstance, minhook, effects,
                   hooksAdded, waiting, history, loggerHolds, startupLoaded>>

(***************************************************************************)
(* find_fname_funcs of BL4 waits while the byte is not zero.  It may be    *)
(* the flag, which the game sets when the names are there.  But the        *)
(* instruction it is read from ends one byte behind the offset, which      *)
(* read_offset does not reckon with, and that makes it the byte before the *)
(* flag, whatever that is.                                                 *)
(***************************************************************************)
ByteIsZero == namesByte = "zero" \/ (namesByte = "flag" /\ ~Reached("names"))

AwaitZeroByte(l) ==
    /\ pc[l] = "hook" /\ ~Finished /\ Current.does = "await zero"
    /\ ByteIsZero
    /\ StepDone(l)
    /\ UNCHANGED <<environment, boot, initMutex, hookInstance, minhook, effects,
                   hooksAdded, waiting, history, loggerHolds, startupLoaded>>

\* hook_process_event_and_wait_for_unpack: tries until it finds it or the time is up.
Poll(l) ==
    /\ pc[l] = "hook" /\ ~Finished /\ Current.does = "poll"
    /\ \/ Found /\ detours' = detours \union {Current.what} /\ UNCHANGED gaveUp
       \/ ~Found /\ gaveUp' = TRUE /\ UNCHANGED detours
    /\ StepDone(l)
    /\ UNCHANGED <<environment, boot, initMutex, hookInstance, minhook, cached,
                   nullCopied, hooksAdded, waitHook, readyMutex, ready, suspended,
                   history, loggerHolds, startupLoaded>>

(***************************************************************************)
(* wait_for_steam_drm.  With the other threads suspended it looks for the  *)
(* unpacked entry function; if that is not there yet, it hooks a system    *)
(* function that the game calls once it is unpacked, and waits for the     *)
(* hook to set ready.  BL1E holds ready_mutex from the start, and keeps    *)
(* the hook; BL1 takes it to wait, and removes the hook.                   *)
(***************************************************************************)
AfterWait == <<environment, boot, hookInstance, initMutex, minhook, effects,
               hooksAdded, ready, history, loggerHolds, startupLoaded>>

\* Slip: the other threads go on.
LookUnsuspended(l) ==
    /\ pc[l] = "hook" /\ ~Finished /\ Current.does = "wait"
    /\ IF game = "bl1e" THEN readyMutex = NoThread /\ readyMutex' = l
                        ELSE UNCHANGED readyMutex
    /\ Goto(l, "looks")
    /\ UNCHANGED <<step, waitHook, suspended, gaveUp, AfterWait>>

Suspend(l) ==
    /\ pc[l] = "hook" /\ ~Finished /\ Current.does = "wait"
    /\ IF game = "bl1e" THEN readyMutex = NoThread /\ readyMutex' = l
                        ELSE UNCHANGED readyMutex
    /\ suspended' = TRUE
    /\ Goto(l, "looks")
    /\ UNCHANGED <<step, waitHook, gaveUp, AfterWait>>

Release(l) == readyMutex' = IF readyMutex = l THEN NoThread ELSE readyMutex

Look(l) ==
    /\ pc[l] = "looks"
    /\ \/ Present("entry") /\ game = "bl1"
          /\ StepDone(l) /\ suspended' = FALSE
       \/ Present("entry") /\ game = "bl1e"
          /\ Goto(l, "reports") /\ UNCHANGED <<step, suspended>>
       \/ ~Present("entry")
          /\ Goto(l, IF game = "bl1" THEN "reports" ELSE "hooks")
          /\ UNCHANGED <<step, suspended>>
    /\ UNCHANGED <<waitHook, readyMutex, gaveUp, AfterWait>>

\* LOG while the others are suspended; BL1E then makes its edits, which may throw.
Report(l) ==
    /\ pc[l] = "reports" /\ ~loggerHolds
    /\ \/ game = "bl1" /\ Goto(l, "hooks") /\ UNCHANGED <<step, initMutex, suspended, readyMutex>>
       \/ game = "bl1e" /\ ~("editor" \in options /\ missing = "Editor")
          /\ StepDone(l) /\ Release(l) /\ suspended' = FALSE /\ UNCHANGED initMutex
       \/ game = "bl1e" /\ "editor" \in options /\ missing = "Editor"
          /\ Throw(l) /\ Release(l) /\ suspended' = FALSE /\ UNCHANGED step
    /\ UNCHANGED <<environment, boot, hookInstance, minhook, effects, hooksAdded,
                   waitHook, ready, gaveUp, history, loggerHolds, startupLoaded>>

HookSystemFunction(l) ==
    /\ pc[l] = "hooks"
    /\ \/ waitHook' = TRUE /\ suspended' = FALSE
          /\ Goto(l, IF game = "bl1" THEN "locks" ELSE "tests")
       \/ Goto(l, "complains") /\ UNCHANGED <<waitHook, suspended>>
    /\ UNCHANGED <<step, readyMutex, gaveUp, AfterWait>>

\* The hook failed: after a LOG there is only a fixed delay to wait.
Complain(l) ==
    /\ pc[l] = "complains" /\ ~loggerHolds
    /\ gaveUp' = TRUE /\ suspended' = FALSE /\ Release(l)
    /\ StepDone(l)
    /\ UNCHANGED <<waitHook, AfterWait>>

\* The condition variable: test ready with the mutex held, release it and sleep,
\* take it again when woken.
LockReady(l) ==
    /\ pc[l] \in {"locks", "woken"} /\ readyMutex = NoThread
    /\ readyMutex' = l
    /\ Goto(l, "tests")
    /\ UNCHANGED <<step, waitHook, suspended, gaveUp, AfterWait>>

TestReady(l) ==
    /\ pc[l] = "tests"
    /\ Goto(l, IF ready THEN "unhooks" ELSE "sleeps")
    /\ UNCHANGED <<step, waitHook, readyMutex, suspended, gaveUp, AfterWait>>

Sleep(l) ==
    /\ pc[l] = "sleeps"
    /\ Release(l)
    /\ Goto(l, "asleep")
    /\ UNCHANGED <<step, waitHook, suspended, gaveUp, AfterWait>>

Unhook(l) ==
    /\ pc[l] = "unhooks"
    /\ waitHook' \in IF game = "bl1" THEN BOOLEAN ELSE {waitHook}
    /\ Release(l)
    /\ StepDone(l)
    /\ UNCHANGED <<suspended, gaveUp, AfterWait>>

-----------------------------------------------------------------------------
(***************************************************************************)
(* hook() has returned: hook_instance is set, and post_init adds the       *)
(* console's hooks, whose names it makes with FName::Init.                 *)
(***************************************************************************)
FinishHook(l) ==
    /\ pc[l] = "hook" /\ Finished
    /\ hookInstance' = TRUE
    /\ Goto(l, "posts")
    /\ UNCHANGED <<environment, boot, step, initMutex, minhook, effects,
                   hooksAdded, waiting, history, loggerHolds, startupLoaded>>

PostInit(l) ==
    /\ pc[l] = "posts"
    /\ \/ missing = "FName::Init" /\ crashed' = TRUE /\ UNCHANGED <<pc, initMutex, hooksAdded>>
       \/ missing # "FName::Init" /\ hooksAdded < ConsoleHooks[game]
          /\ hooksAdded' = hooksAdded + 1 /\ UNCHANGED <<pc, initMutex, crashed>>
       \/ hooksAdded = ConsoleHooks[game] /\ Goto(l, "returned") /\ initMutex' = NoThread
          /\ UNCHANGED <<hooksAdded, crashed>>
    /\ UNCHANGED <<environment, boot, step, hookInstance, minhook, effects,
                   waiting, blind, early, loggerHolds, startupLoaded>>

-----------------------------------------------------------------------------
(***************************************************************************)
(* The game's main thread starts the game.  The hooked system function is  *)
(* called when the executable has been unpacked, and in BL1E, which hooks  *)
(* a commoner one, before that too.                                        *)
(***************************************************************************)
AfterBoot == <<environment, init, waitHook, suspended, gaveUp, history,
               loggerHolds, startupLoaded>>

NextStage == CHOOSE s \in {Stages[i] : i \in DOMAIN Stages} :
                 \E i \in DOMAIN Stages : Stages[i] = boot /\ i < Len(Stages) /\ s = Stages[i + 1]

Boot ==
    /\ pc[Main] = "boots" /\ boot # "objects"
    /\ boot = "unpacked" => ~waitHook
    /\ boot' = NextStage
    /\ IF NextStage = "objects" THEN Goto(Main, "plays") ELSE UNCHANGED pc
    /\ UNCHANGED <<ready, readyMutex, AfterBoot>>

EnterSystemFunction ==
    /\ pc[Main] = "boots" /\ waitHook
    /\ boot = "unpacked" \/ (boot = "packed" /\ game = "bl1e")
    /\ Goto(Main, "asked")
    /\ UNCHANGED <<boot, ready, readyMutex, AfterBoot>>

LeaveSystemFunction ==
    /\ boot' = IF boot = "unpacked" THEN NextStage ELSE boot

\* Slip: the hook does not look for the entry.
TestReadyOnly ==
    /\ pc[Main] = "asked"
    /\ IF ready THEN Goto(Main, "boots") /\ LeaveSystemFunction
                ELSE Goto(Main, "signals") /\ UNCHANGED boot
    /\ UNCHANGED <<ready, readyMutex, AfterBoot>>

\* GetStartupInfoA_hook, and IsDebuggerPresent_hook, which looks for the entry first.
TestBeforeSignal ==
    /\ pc[Main] = "asked"
    /\ IF ready \/ (game = "bl1e" /\ ~Present("entry"))
       THEN Goto(Main, "boots") /\ LeaveSystemFunction
       ELSE Goto(Main, "signals") /\ UNCHANGED boot
    /\ UNCHANGED <<ready, readyMutex, AfterBoot>>

Signal ==
    /\ pc[Main] = "signals" /\ readyMutex = NoThread
    /\ ready' = TRUE
    /\ pc' = [t \in Thread |-> IF t = Main THEN "boots"
                               ELSE IF pc[t] = "asleep" THEN "woken" ELSE pc[t]]
    /\ LeaveSystemFunction
    /\ UNCHANGED <<readyMutex, AfterBoot>>

-----------------------------------------------------------------------------
(***************************************************************************)
(* The game calls unreal functions.  A detoured call first asks            *)
(* is_initialized, which takes init_mutex; without the sdk it goes on to   *)
(* the game's own function, with it the detour uses the globals.           *)
(***************************************************************************)
Undisturbed == <<environment, boot, init, waiting, loggerHolds>>

Call(t) ==
    /\ pc[t] = "plays" /\ boot = "objects"
    /\ detours \cap {"ProcessEvent", "CallFunction"} # {}
    /\ Goto(t, "asks")
    /\ UNCHANGED <<Undisturbed, history, startupLoaded>>

\* Slip: without init_mutex.
IsInitializedUnlocked(t) ==
    /\ pc[t] = "asks"
    /\ Goto(t, IF hookInstance THEN "detoured" ELSE "native")
    /\ UNCHANGED <<Undisturbed, history, startupLoaded>>

IsInitialized(t) ==
    /\ pc[t] = "asks" /\ initMutex = NoThread
    /\ Goto(t, IF hookInstance THEN "detoured" ELSE "native")
    /\ UNCHANGED <<Undisturbed, history, startupLoaded>>

\* Any exported call that goes through a pointer of hook_instance.
UseGlobal(t) ==
    /\ pc[t] = "detoured"
    /\ \E i \in DOMAIN Hook :
          /\ Hook[i].does \in {"find", "choose"}
          /\ early' = (early \/ ~hookInstance)
          /\ crashed' = (crashed \/ ~hookInstance \/ Hook[i].what \in nullCopied \union {missing})
    /\ UNCHANGED <<Undisturbed, pc, blind, startupLoaded>>

Return(t) ==
    /\ pc[t] \in {"detoured", "native"}
    /\ Goto(t, "plays")
    /\ UNCHANGED <<Undisturbed, history, startupLoaded>>

(***************************************************************************)
(* BL1E loads the package Startup.  If that is to be bypassed, the detours *)
(* make names and look for classes, for which they need the globals.       *)
(***************************************************************************)
LoadStartup ==
    /\ game = "bl1e" /\ pc[Main] = "plays" /\ boot = "objects" /\ ~startupLoaded
    /\ Goto(Main, IF "bypass" \in options /\ "LoadPackage" \in detours
                  THEN "links" ELSE "plays")
    /\ startupLoaded' = TRUE
    /\ UNCHANGED <<Undisturbed, history>>

CreateExport ==
    /\ pc[Main] = "links"
    /\ early' = (early \/ ("CreateExport" \in detours /\ ~hookInstance))
    /\ crashed' = (crashed \/ ("CreateExport" \in detours /\ ~hookInstance))
    /\ Goto(Main, "plays")
    /\ UNCHANGED <<Undisturbed, blind, startupLoaded>>

\* The logger thread takes pending_messages_mutex and gives it back; that matters
\* to the steps that suspend it.
LoggerLocks ==
    /\ minhook /\ ~Finished /\ Current.does = "wait"
    /\ ~loggerHolds /\ loggerHolds' = TRUE
    /\ UNCHANGED <<environment, boot, pc, init, waiting, history, startupLoaded>>

LoggerUnlocks ==
    /\ loggerHolds /\ loggerHolds' = FALSE
    /\ UNCHANGED <<environment, boot, pc, init, waiting, history, startupLoaded>>

-----------------------------------------------------------------------------
Running(l) == ~crashed /\ (suspended => pc[l] \in {"looks", "reports", "hooks", "complains"})

Load(l) ==
    Running(l) /\ (LockInit(l) \/ Begin(l) \/ DoStep(l) \/ CopyValue(l) \/ AwaitStage(l)
                   \/ AwaitZeroByte(l) \/ Poll(l) \/ Suspend(l) \/ Look(l) \/ Report(l) \/ HookSystemFunction(l)
                   \/ Complain(l) \/ LockReady(l) \/ TestReady(l) \/ Sleep(l) \/ Unhook(l)
                   \/ FinishHook(l) \/ PostInit(l))

Start ==
    ~crashed /\ ~suspended /\ (Boot \/ EnterSystemFunction \/ TestBeforeSignal \/ Signal)

Process(t) == ~crashed /\ ~suspended /\ (IsInitialized(t) \/ Return(t))

Next ==
    \/ \E l \in Loader : Load(l)
    \/ Start
    \/ \E t \in GameThread : Process(t)
    \/ ~crashed /\ ~suspended /\
          (\/ \E t \in GameThread : Call(t) \/ UseGlobal(t)
           \/ LoadStartup \/ CreateExport \/ LoggerLocks \/ LoggerUnlocks)

Spec == Init /\ [][Next]_vars

(***************************************************************************)
(* Every thread that can go on does; the game is unpacked some time,       *)
(* whatever system calls it makes before; the logger gives its mutex back. *)
(* Nothing says when the game calls a function, or for how long a poll     *)
(* goes on.                                                                *)
(***************************************************************************)
FairSpec ==
    /\ Spec
    /\ \A l \in Loader : WF_vars(Load(l))
    /\ WF_vars(Start)
    /\ SF_vars(~crashed /\ ~suspended /\ Boot)
    /\ \A t \in GameThread : WF_vars(Process(t))
    /\ WF_vars(~crashed /\ ~suspended /\ (LoggerUnlocks \/ CreateExport))

-----------------------------------------------------------------------------
(***************************************************************************)
(* A call that a detour handles sees the sdk whole: hook() has done all    *)
(* its steps, and the console's hooks are all there (unrealsdk_main.cpp,   *)
(* init and is_initialized).                                               *)
(***************************************************************************)
CallsSeeWholeSdk ==
    \A t \in GameThread : pc[t] = "detoured" =>
        hookInstance /\ Finished /\ hooksAdded = ConsoleHooks[game]

(***************************************************************************)
(* Nothing is searched for in the packed executable, unless waiting for it *)
(* had to be given up (game/bl1/steamdrm.cpp,                              *)
(* game/bl1e/hexedit_editor_access.cpp, game/bl4/hooks.cpp).               *)
(***************************************************************************)
SearchesUnpacked == blind => gaveUp

(***************************************************************************)
(* The globals are not used before they are set ("The unrealsdk globals    *)
(* are not yet valid during this call, and may crash if used",             *)
(* game/abstract_hook.h).                                                  *)
(***************************************************************************)
GlobalsNotUsedEarly == ~early

(***************************************************************************)
(* The logger was suspended with its mutex held, and the thread that       *)
(* suspended it wants to log (utils.cpp, ThreadSuspender).                 *)
(***************************************************************************)
LogsWhileSuspended ==
    suspended /\ loggerHolds /\ \E l \in Loader : pc[l] \in {"reports", "complains"}

(***************************************************************************)
(* "Just wait for it to happen on the main thread instead"                 *)
(* (game/bl4/fname.cpp): past this step of hook() the names are there.     *)
(***************************************************************************)
NamesAwaited ==
    \A i \in DOMAIN Hook : Hook[i] = AwaitZero("names") /\ step > i => Reached("names")

\* BL4's wait for the names finds a byte that will not be zero any more.
AwaitsNoNames ==
    ~ByteIsZero /\ \E l \in Loader : pc[l] = "hook" /\ ~Finished /\ Current.does = "await zero"

(***************************************************************************)
(* Startup ends: every init returns or throws.  It may not if the game     *)
(* crashes, if it logs while the logger is suspended, if the entry         *)
(* function looks different in this version, so that a game that is        *)
(* unpacked seems not to be, or if BL4's byte is not zero.                 *)
(***************************************************************************)
StartupEnds ==
    []<>(\/ crashed \/ LogsWhileSuspended \/ missing = "entry" \/ AwaitsNoNames
         \/ \A l \in Loader : pc[l] \in {"refused", "threw", "returned"})
=============================================================================

--------------------------- MODULE FunctionDetour ---------------------------
(***************************************************************************)
(* The two function detours every game installs, process_event_hook and    *)
(* call_function_hook, on one thread.  A call enters a detour; hooks run;  *)
(* the native function runs unless a pre-hook blocked it; the return value *)
(* is exchanged with the hooks.  Callbacks, native functions and the       *)
(* evaluation of arguments may all call further functions, so the state is *)
(* a stack of such calls.                                                  *)
(*                                                                         *)
(* What hook processing runs is taken from HookManager: a hook registered  *)
(* all through the call is run exactly once, one that was registered for   *)
(* only a part of it may or may not be run.                                *)
(***************************************************************************)
EXTENDS Naturals, FiniteSets

CONSTANTS
    Func,           \* the functions called
    Void,           \* those that return nothing
    Opaque,         \* those whose return type cast() does not know, or knows only in part
    Unknown,        \* those whose return type it does not know at all
    OpaqueParams,   \* those with a parameter of such a type
    Via,            \* which of the two detours may be entered
    Hook,           \* the hooks clients may register
    TypeOf,         \* TypeOf[h] is "PRE", "POST" or "POST_UNCONDITIONAL"
    FuncOf,         \* FuncOf[h] is the function hooked
    Volatile,       \* the hooks that callbacks may add and remove
    MaxDepth        \* bound on the calls nested in each other

Type == {"PRE", "POST", "POST_UNCONDITIONAL"}

ASSUME DetourAssumption ==
    /\ Func # {} /\ Via # {}
    /\ Void \subseteq Func /\ Opaque \subseteq Func \ Void /\ OpaqueParams \subseteq Func
    /\ Unknown \subseteq Opaque
    /\ Via \subseteq {"ProcessEvent", "CallFunction"}
    /\ TypeOf \in [Hook -> Type]
    /\ FuncOf \in [Hook -> Func]
    /\ Volatile \subseteq Hook
    /\ MaxDepth \in Nat \ {0}

VARIABLES
    hooks,      \* the hooks registered
    inject,     \* should_inject_next_call of this thread
    depth,      \* the number of calls in progress
    call        \* call[d]: the d-th of them, call[depth] the innermost

vars == <<hooks, inject, depth, call>>

(***************************************************************************)
(* at says where the call is:                                              *)
(*   "arguments"   extract_current_args evaluates the arguments            *)
(*   a hook type   run_hooks_of_type of that type                          *)
(*   "native"      the native function runs, called after the pre-hooks    *)
(*   "fallback"    it runs from the last line of the detour: the function  *)
(*                 is not hooked, or an exception was caught               *)
(*   "returned"    the detour has returned                                 *)
(*   "terminated"  the program ends, by std::terminate                     *)
(* busy: a callback is running.  ran: the hooks called so far.             *)
(* standing: the hooks of the function registered ever since the call      *)
(* began; maybe: those registered at some time since.                      *)
(* ret: hook.ret is unset, holds what a hook set, the zero value that a    *)
(* failed set leaves behind, or the native function's return value.        *)
(* result: the same of the memory the caller reads the return value from.  *)
(* code: where the stack's Code points, in a CallFunction: before the      *)
(* arguments, at the token that ends them, past it, or nowhere sensible.   *)
(* natives counts the native function's runs, injected says that the call  *)
(* was told to ignore hooks; these two only record history.                *)
(***************************************************************************)
Frame == [func : Func, via : {"ProcessEvent", "CallFunction"},
          at : Type \union {"arguments", "native", "fallback", "returned", "terminated"},
          busy : BOOLEAN, ran : SUBSET Hook,
          standing : SUBSET Hook, maybe : SUBSET Hook,
          block : BOOLEAN,
          ret : {"unset", "set", "zero", "native"},
          result : {"untouched", "set", "zero", "native"},
          code : {"call", "end", "past", "lost"},
          natives : 0 .. 2, injected : BOOLEAN]

HooksOn(func) == {h \in hooks : FuncOf[h] = func}

OfType(set, type) == {h \in set : TypeOf[h] = type}

Top == call[depth]

Running == depth > 0

SetTop(frame) == call' = [call EXCEPT ![depth] = frame]

(***************************************************************************)
(* Any code that is not the sdk's own may call a function: the game        *)
(* itself, a native function, an argument's expression, or a callback.     *)
(***************************************************************************)
MayCall == Running => Top.busy \/ Top.at \in {"native", "fallback", "arguments"}

InCallback == Running /\ Top.busy

-----------------------------------------------------------------------------
(***************************************************************************)
(* The native function reads its arguments from Code on, and leaves it     *)
(* past them.                                                              *)
(***************************************************************************)
RunNative(frame, at) ==
    [frame EXCEPT !.at = at, !.busy = FALSE, !.natives = @ + 1,
                  !.code = IF @ = "call" THEN "past" ELSE "lost"]

(***************************************************************************)
(* The catch clause: log, and fall through to calling the function.        *)
(***************************************************************************)
Catch(frame) == RunNative(frame, "fallback")

(***************************************************************************)
(* The end of a call's hook processing, and of the call.                   *)
(***************************************************************************)
Returned(frame) == [frame EXCEPT !.at = "returned", !.busy = FALSE]

(***************************************************************************)
(* hook.ret goes, when the detour is left or a callback destroys it.  With *)
(* a value of unknown type its destructor, which may not throw, does; of a *)
(* struct that is known in part what is known is destroyed, and a warning  *)
(* logged.                                                                 *)
(***************************************************************************)
RetDestroyed(frame, then) ==
    IF frame.ret # "unset" /\ frame.func \in Unknown
    THEN [frame EXCEPT !.at = "terminated", !.busy = FALSE]
    ELSE then

(***************************************************************************)
(* has_post_hooks: certain when a post-hook stayed registered, impossible  *)
(* when there never was one, and otherwise up to what the list still holds.*)
(***************************************************************************)
PostHooksFound(frame, types) ==
    {found \in BOOLEAN :
        /\ (\E h \in frame.standing : TypeOf[h] \in types) => found
        /\ found => \E h \in frame.maybe : TypeOf[h] \in types}

\* Slip: look for hooks of type POST only.
HasPostHooksOfTypePost(frame) == PostHooksFound(frame, {"POST"})

HasPostHooks(frame) == PostHooksFound(frame, {"POST", "POST_UNCONDITIONAL"})

(***************************************************************************)
(* From the return of the native function, or from the decision not to run *)
(* it, to the first post-hook: copy_to, has_post_hooks and copy_from.      *)
(* Either copy throws on an opaque return value, and hook.ret goes.        *)
(***************************************************************************)
Overwrites(frame) == frame.ret # "unset"

\* Slip: keep what the hooks set from the caller.
NotCopiedTo(frame) == frame

CopiedTo(frame) == IF Overwrites(frame) THEN [frame EXCEPT !.result = frame.ret] ELSE frame

Reads(frame) == ~Overwrites(frame) /\ ~frame.block /\ frame.func \notin Void

\* Slip: run post-hooks of a blocked call too.
ToAllPostHooks(frame) ==
    [frame EXCEPT !.busy = FALSE, !.at = "POST",
                  !.ret = IF Reads(frame) THEN "native" ELSE @]

ToPostHooks(frame) ==
    [frame EXCEPT !.busy = FALSE,
                  !.at = IF frame.block THEN "POST_UNCONDITIONAL" ELSE "POST",
                  !.ret = IF Reads(frame) THEN "native" ELSE @]

\* Slip: without post-hooks leave the try block instead of the function.
ExchangeFallingThrough(frame) ==
    {IF found THEN ToPostHooks(CopiedTo(frame)) ELSE Catch(CopiedTo(frame)) :
        found \in HasPostHooks(frame)}

Exchange(frame) ==
    IF Overwrites(frame) /\ frame.func \in Opaque THEN {RetDestroyed(frame, Catch(frame))}
    ELSE {IF ~found THEN Returned(CopiedTo(frame))
          ELSE IF Reads(frame) /\ frame.func \in Opaque THEN Catch(frame)
          ELSE ToPostHooks(CopiedTo(frame)) : found \in HasPostHooks(frame)}

(***************************************************************************)
(* The pre-hooks have decided.  A CallFunction that is blocked steps over  *)
(* the end token itself, one that goes on gives Code back to the function. *)
(***************************************************************************)
\* Slip: leave Code at the end token.
DecideWithoutRestoring(frame) ==
    IF frame.block
    THEN Exchange([frame EXCEPT !.code = IF frame.via = "CallFunction" THEN "past" ELSE @])
    ELSE {RunNative(frame, "native")}

Decide(frame) ==
    IF frame.block
    THEN Exchange([frame EXCEPT !.code = IF frame.via = "CallFunction" THEN "past" ELSE @])
    ELSE {RunNative([frame EXCEPT !.code = "call"], "native")}

-----------------------------------------------------------------------------

Blank == [func |-> CHOOSE f \in Func : TRUE, via |-> CHOOSE v \in Via : TRUE,
          at |-> "returned", busy |-> FALSE, ran |-> {}, standing |-> {}, maybe |-> {},
          block |-> FALSE, ret |-> "unset", result |-> "untouched", code |-> "past",
          natives |-> 0, injected |-> FALSE]

Init ==
    /\ hooks \in SUBSET Hook
    /\ inject = FALSE
    /\ depth = 0
    /\ call = [d \in 1 .. MaxDepth |-> Blank]

(***************************************************************************)
(* A call enters the detour, up to the first pre-hook.  preprocess_hook    *)
(* takes the inject flag.  ProcessEvent copies the parameters, the return  *)
(* parameter too, which throws if it cannot; CallFunction evaluates them.  *)
(***************************************************************************)
Entered(func, via) ==
    LET frame == [Blank EXCEPT !.func = func, !.via = via, !.code = "call",
                               !.standing = HooksOn(func), !.maybe = HooksOn(func),
                               !.injected = inject]
    IN  IF inject \/ HooksOn(func) = {} THEN RunNative(frame, "fallback")
        ELSE IF via = "CallFunction" THEN [frame EXCEPT !.at = "arguments"]
        ELSE IF func \in OpaqueParams \union Opaque THEN Catch(frame)
        ELSE [frame EXCEPT !.at = "PRE"]

Call(func, via) ==
    /\ depth < MaxDepth
    /\ MayCall
    /\ depth' = depth + 1
    /\ inject' = FALSE
    /\ call' = [call EXCEPT ![depth + 1] = Entered(func, via)]
    /\ UNCHANGED hooks

(***************************************************************************)
(* extract_current_args stops at the token that ends the arguments.        *)
(***************************************************************************)
ArgumentsExtracted ==
    /\ Running
    /\ Top.at = "arguments"
    /\ SetTop([Top EXCEPT !.at = "PRE", !.code = "end"])
    /\ UNCHANGED <<hooks, inject, depth>>

(***************************************************************************)
(* run_hooks_of_type calls a hook.                                         *)
(***************************************************************************)
RunCallback(h) ==
    /\ Running
    /\ Top.at \in Type /\ ~Top.busy
    /\ h \in OfType(Top.maybe, Top.at) \ Top.ran
    /\ SetTop([Top EXCEPT !.busy = TRUE, !.ran = @ \union {h}])
    /\ UNCHANGED <<hooks, inject, depth>>

(***************************************************************************)
(* What callbacks do: set or destroy the return value, ask for the next    *)
(* call to ignore hooks, add and remove hooks.  A set with the wrong       *)
(* property type or array index, or of an opaque value, throws once the    *)
(* proxy has allocated the value.                                          *)
(***************************************************************************)
SetReturn ==
    /\ InCallback
    /\ Top.func \notin Void
    /\ \/ Top.func \notin Opaque /\ SetTop([Top EXCEPT !.ret = "set"])
       \/ SetTop([Top EXCEPT !.ret = IF @ = "unset" THEN "zero" ELSE @])
    /\ UNCHANGED <<hooks, inject, depth>>

DestroyReturn ==
    /\ InCallback
    /\ SetTop(RetDestroyed(Top, [Top EXCEPT !.ret = "unset"]))
    /\ UNCHANGED <<hooks, inject, depth>>

InjectNextCall ==
    /\ InCallback
    /\ inject' = TRUE
    /\ UNCHANGED <<hooks, depth, call>>

AddHook(h) ==
    /\ InCallback
    /\ hooks' = hooks \union {h}
    /\ call' = [d \in 1 .. MaxDepth |->
                  IF d <= depth /\ call[d].func = FuncOf[h]
                  THEN [call[d] EXCEPT !.maybe = @ \union {h}] ELSE call[d]]
    /\ UNCHANGED <<inject, depth>>

RemoveHook(h) ==
    /\ InCallback
    /\ hooks' = hooks \ {h}
    /\ call' = [d \in 1 .. MaxDepth |->
                  IF d <= depth THEN [call[d] EXCEPT !.standing = @ \ {h}] ELSE call[d]]
    /\ UNCHANGED <<inject, depth>>

(***************************************************************************)
(* A callback returns, or throws, which run_hooks_of_type logs and counts  *)
(* as false.  What it returns matters in pre-hooks only.                   *)
(***************************************************************************)
CallbackReturns(block) ==
    /\ InCallback
    /\ SetTop([Top EXCEPT !.busy = FALSE, !.block = @ \/ (block /\ Top.at = "PRE")])
    /\ UNCHANGED <<hooks, inject, depth>>

(***************************************************************************)
(* All hooks of a type have run.                                           *)
(***************************************************************************)
StageDone(type) ==
    /\ Running
    /\ Top.at = type /\ ~Top.busy
    /\ OfType(Top.standing, type) \subseteq Top.ran

PreHooksDone ==
    /\ StageDone("PRE")
    /\ \E frame \in Decide(Top) : SetTop(frame)
    /\ UNCHANGED <<hooks, inject, depth>>

NativeReturns ==
    /\ Running
    /\ Top.at = "native"
    /\ \E frame \in Exchange([Top EXCEPT !.result = IF Top.func \in Void THEN @ ELSE "native"]) :
          SetTop(frame)
    /\ UNCHANGED <<hooks, inject, depth>>

PostHooksDone ==
    /\ StageDone("POST")
    /\ SetTop([Top EXCEPT !.at = "POST_UNCONDITIONAL"])
    /\ UNCHANGED <<hooks, inject, depth>>

UnconditionalHooksDone ==
    /\ StageDone("POST_UNCONDITIONAL")
    /\ SetTop(RetDestroyed(Top, Returned(Top)))
    /\ UNCHANGED <<hooks, inject, depth>>

FallbackReturns ==
    /\ Running
    /\ Top.at = "fallback"
    /\ SetTop(Returned([Top EXCEPT !.result = IF Top.func \in Void THEN @ ELSE "native"]))
    /\ UNCHANGED <<hooks, inject, depth>>

(***************************************************************************)
(* The caller goes on.                                                     *)
(***************************************************************************)
Return ==
    /\ Running
    /\ Top.at = "returned"
    /\ depth' = depth - 1
    /\ SetTop(Blank)
    /\ UNCHANGED <<hooks, inject>>

Next ==
    \/ \E func \in Func, via \in Via : Call(func, via)
    \/ ArgumentsExtracted
    \/ \E h \in Hook : RunCallback(h)
    \/ SetReturn \/ DestroyReturn \/ InjectNextCall
    \/ \E h \in Volatile : AddHook(h) \/ RemoveHook(h)
    \/ \E block \in BOOLEAN : CallbackReturns(block)
    \/ PreHooksDone \/ NativeReturns \/ PostHooksDone \/ UnconditionalHooksDone
    \/ FallbackReturns
    \/ Return

Spec == Init /\ [][Next]_vars

-----------------------------------------------------------------------------

TypeOK ==
    /\ hooks \subseteq Hook
    /\ inject \in BOOLEAN
    /\ depth \in 0 .. MaxDepth
    /\ call \in [1 .. MaxDepth -> Frame]

(***************************************************************************)
(* A call whose return type the sdk can copy runs the native function once *)
(* if no pre-hook blocked it, and not at all otherwise, whatever its       *)
(* callbacks did and whichever exceptions were caught.                     *)
(***************************************************************************)
NativeRunsAsDecided ==
    \A d \in 1 .. depth :
        call[d].at = "returned" /\ call[d].func \notin Opaque =>
            call[d].natives = IF call[d].block THEN 0 ELSE 1

(***************************************************************************)
(* Hooks of type POST run only after the native function ran, once, in a   *)
(* call that was not blocked.                                              *)
(***************************************************************************)
PostOnlyIfAllowed ==
    \A d \in 1 .. depth :
        call[d].at = "POST" => ~call[d].block /\ call[d].natives = 1

(***************************************************************************)
(* Extracting the arguments, restoring Code for the native function or     *)
(* stepping over the end token after a block: together they leave the      *)
(* caller's bytecode exactly past the arguments.                           *)
(***************************************************************************)
CodeEndsPastArguments ==
    \A d \in 1 .. depth :
        /\ call[d].at = "returned" /\ call[d].via = "CallFunction"
        /\ call[d].func \notin Opaque
        => call[d].code = "past"

(***************************************************************************)
(* A call made after inject_next_call runs no hook, and one that was not   *)
(* runs each hook registered throughout, save those of type POST if it was *)
(* blocked and save for the calls whose values the sdk cannot copy.        *)
(***************************************************************************)
HooksRunUnlessInjected ==
    \A d \in 1 .. depth :
        /\ call[d].injected => call[d].ran = {}
        /\ /\ call[d].at = "returned" /\ ~call[d].injected
           /\ call[d].func \notin Opaque
           /\ call[d].via = "ProcessEvent" => call[d].func \notin OpaqueParams
           => \A h \in call[d].standing :
                 h \in call[d].ran \/ (TypeOf[h] = "POST" /\ call[d].block)

(***************************************************************************)
(* Post-hooks start out with the value the caller is going to read, be it  *)
(* the native function's or a pre-hook's.  Only a function without one and *)
(* a blocked call nobody set a value for leave it unset.                   *)
(***************************************************************************)
PostHooksSeeResult ==
    [][\A d \in 1 .. MaxDepth :
          call[d].at # call'[d].at /\ call[d].at \in {"PRE", "native"}
              /\ call'[d].at \in {"POST", "POST_UNCONDITIONAL"} =>
            IF call'[d].ret = "unset"
            THEN call'[d].func \in Void \/ call'[d].block
            ELSE call'[d].ret = call'[d].result]_vars

(***************************************************************************)
(* hook_manager.h on callbacks: if any pre-hook returns true, the function *)
(* will not be run.                                                        *)
(***************************************************************************)
BlockedNeverRuns == \A d \in 1 .. depth : call[d].block => call[d].natives = 0
=============================================================================

------------------------ MODULE FunctionDetourProofs ------------------------
(***************************************************************************)
(* Proofs about FunctionDetour: its type invariant and the four safety     *)
(* invariants of DetourMC, for any functions, hooks and depth of calls.    *)
(* A call's state changes only through its own frame, except that AddHook  *)
(* and RemoveHook touch the sets standing and maybe of every frame; so the *)
(* inductive invariant is a statement about one frame, held by all.        *)
(***************************************************************************)
EXTENDS FunctionDetour, TLAPS

(***************************************************************************)
(* What is known of a call at each point of the detour.                    *)
(***************************************************************************)
\* How often the native function has run, and where Code points.
Progress(c) ==
    /\ c.at \in {"arguments", "PRE"} => c.natives = 0
    /\ c.at = "arguments" => c.code = "call" /\ ~c.block /\ c.via = "CallFunction"
    /\ c.at = "PRE" => c.code = IF c.via = "CallFunction" THEN "end" ELSE "call"
    /\ c.at \in {"native", "POST"} => ~c.block /\ c.natives = 1 /\ c.code = "past"
    /\ c.at \in {"POST_UNCONDITIONAL", "fallback", "returned"} /\ c.func \notin Opaque =>
             /\ c.natives = IF c.block THEN 0 ELSE 1
             /\ c.via = "CallFunction" => c.code = "past"

\* Which of the hooks registered throughout have been called.
Coverage(c) ==
    /\ c.at \in {"arguments", "PRE", "native"} => ~c.injected
    /\ c.injected => c.ran = {} /\ c.at \in {"fallback", "returned", "terminated"}
    /\ c.at \in {"native", "POST", "POST_UNCONDITIONAL"} =>
          OfType(c.standing, "PRE") \subseteq c.ran
    /\ c.at = "POST_UNCONDITIONAL" => c.block \/ OfType(c.standing, "POST") \subseteq c.ran
    /\ /\ c.at \in {"fallback", "returned"} /\ ~c.injected
       /\ c.func \notin Opaque
       /\ c.via = "ProcessEvent" => c.func \notin OpaqueParams
       => \A h \in c.standing : h \in c.ran \/ (TypeOf[h] = "POST" /\ c.block)

FrameInv(c) == Progress(c) /\ Coverage(c)

IInv == TypeOK /\ \A d \in 1 .. depth : FrameInv(call[d])
-----------------------------------------------------------------------------
USE DEF Type

(***************************************************************************)
(* The frame a call starts from is well typed.                             *)
(***************************************************************************)
LEMMA BlankOK == Blank \in Frame
<1>1. (CHOOSE f \in Func : TRUE) \in Func
  BY DetourAssumption
<1>2. (CHOOSE v \in Via : TRUE) \in {"ProcessEvent", "CallFunction"}
  BY DetourAssumption
<1> QED
  BY <1>1, <1>2 DEF Blank, Frame

(***************************************************************************)
(* The native function is entered at most twice: there is one call of it   *)
(* after the pre-hooks and one in the last line.                           *)
(***************************************************************************)
LEMMA RunNativeOK ==
  ASSUME NEW c \in Frame, c.natives \in 0 .. 1, NEW at \in {"native", "fallback"}
  PROVE  RunNative(c, at) \in Frame
<1>1. c.natives + 1 \in 0 .. 2
  OBVIOUS
<1> QED
  BY <1>1 DEF RunNative, Frame

(***************************************************************************)
(* The frame the post-hooks see is well typed.                             *)
(***************************************************************************)
LEMMA ToPostHooksOK ==
  ASSUME NEW c \in Frame
  PROVE  ToPostHooks(c) \in Frame
<1> DEFINE at == IF c.block THEN "POST_UNCONDITIONAL" ELSE "POST"
           ret == IF Reads(c) THEN "native" ELSE c.ret
<1>1. at \in Type /\ ret \in {"unset", "set", "zero", "native"}
  BY DEF Frame
<1>2. ToPostHooks(c) = [c EXCEPT !.busy = FALSE, !.at = at, !.ret = ret]
  BY DEF ToPostHooks
<1> HIDE DEF at, ret
<1> QED
  BY <1>1, <1>2 DEF Frame

(***************************************************************************)
(* Destroying hook.ret is nothing to the frame, or ends the program.       *)
(***************************************************************************)
LEMMA RetDestroyedOK ==
  ASSUME NEW c \in Frame, NEW then,
         c.injected => c.ran = {}
  PROVE  \/ RetDestroyed(c, then) = then
         \/ RetDestroyed(c, then) \in Frame /\ FrameInv(RetDestroyed(c, then))
<1> DEFINE e == [c EXCEPT !.at = "terminated", !.busy = FALSE]
<1>1. RetDestroyed(c, then) \in {then, e}
  BY DEF RetDestroyed
<1>2. e \in Frame /\ e.at = "terminated" /\ e.injected = c.injected /\ e.ran = c.ran
  BY DEF Frame
<1>3. FrameInv(e)
  BY <1>2 DEF FrameInv, Progress, Coverage
<1> QED
  BY <1>1, <1>2, <1>3

(***************************************************************************)
(* What follows the native function, or a block, leaves a sound frame: the *)
(* copies throw for opaque functions only, and whatever is not run in a    *)
(* return without post-hooks was not registered throughout.                *)
(***************************************************************************)
LEMMA ExchangeOK ==
  ASSUME NEW c \in Frame, NEW e \in Exchange(c),
         ~c.injected,
         OfType(c.standing, "PRE") \subseteq c.ran,
         c.natives = IF c.block THEN 0 ELSE 1,
         c.code = "past" \/ (c.block /\ c.via = "ProcessEvent")
  PROVE  e \in Frame /\ FrameInv(e)
<1>1. c.natives \in 0 .. 1
  BY DEF Frame
<1>2. Catch(c) \in Frame
  BY <1>1, RunNativeOK DEF Catch
<1>3. Catch(c).at = "fallback" /\ Catch(c).func = c.func
      /\ Catch(c).injected = c.injected
  BY DEF Catch, RunNative, Frame
<1>4. CASE e = Catch(c) /\ c.func \in Opaque
  BY <1>2, <1>3, <1>4 DEF FrameInv, Progress, Coverage
<1>5. CopiedTo(c) \in Frame
      /\ \E r \in {"untouched", "set", "zero", "native"} :
            CopiedTo(c) = [c EXCEPT !.result = r]
  BY DEF CopiedTo, Overwrites, Frame
<1>6. CASE /\ e = Returned(CopiedTo(c))
           /\ ~\E h \in c.standing : TypeOf[h] \in {"POST", "POST_UNCONDITIONAL"}
  <2>1. e \in Frame
    BY <1>5, <1>6 DEF Returned, Frame
  <2>2. \A h \in c.standing : h \in c.ran
    BY <1>6, DetourAssumption DEF OfType, Frame
  <2>3. /\ e.at = "returned" /\ e.natives = c.natives /\ e.block = c.block
        /\ e.code = c.code /\ e.via = c.via /\ e.standing = c.standing
        /\ e.ran = c.ran /\ e.injected = c.injected
    BY <1>5, <1>6 DEF Returned, Frame
  <2> QED
    BY <2>1, <2>2, <2>3 DEF FrameInv, Progress, Coverage
<1>7. CASE e = ToPostHooks(CopiedTo(c))
  <2>1. e \in Frame
    BY <1>5, <1>7, ToPostHooksOK
  <2>2. /\ e.at = IF c.block THEN "POST_UNCONDITIONAL" ELSE "POST"
        /\ e.natives = c.natives /\ e.block = c.block
        /\ e.code = c.code /\ e.via = c.via /\ e.standing = c.standing
        /\ e.ran = c.ran /\ e.injected = c.injected
    BY <1>5, <1>7 DEF ToPostHooks, Frame
  <2> QED
    BY <2>1, <2>2 DEF FrameInv, Progress, Coverage
<1>8. CASE e = RetDestroyed(c, Catch(c)) /\ c.func \in Opaque
  BY <1>4, <1>8, RetDestroyedOK
<1> QED
  BY <1>4, <1>6, <1>7, <1>8 DEF Exchange, HasPostHooks, PostHooksFound

-----------------------------------------------------------------------------
(***************************************************************************)
(* While a call is in progress the innermost one has a sound frame.        *)
(***************************************************************************)
LEMMA TopOK ==
  ASSUME IInv, Running
  PROVE  depth \in 1 .. MaxDepth /\ Top \in Frame /\ FrameInv(Top)
  BY DetourAssumption DEF IInv, TypeOK, Running, Top

(***************************************************************************)
(* A step of the innermost call keeps the invariant if the frame it leaves *)
(* is sound.                                                               *)
(***************************************************************************)
LEMMA TopStep ==
  ASSUME IInv, Running, NEW frame \in Frame, FrameInv(frame), SetTop(frame),
         hooks' = hooks, inject' \in BOOLEAN, depth' = depth
  PROVE  IInv'
<1>1. TypeOK'
  BY TopOK DEF IInv, TypeOK, SetTop
<1>2. \A d \in 1 .. depth : call'[d] = IF d = depth THEN frame ELSE call[d]
  BY TopOK DEF IInv, TypeOK, SetTop
<1>3. \A d \in 1 .. depth : FrameInv(call'[d])
  BY <1>2 DEF IInv
<1> QED
  BY <1>1, <1>3 DEF IInv
(***************************************************************************)
(* The steps of the detour itself: each has one frame it leads to, or the  *)
(* frames of an exchange.                                                  *)
(***************************************************************************)
LEMMA DetourStep ==
  ASSUME IInv,
         ArgumentsExtracted \/ PreHooksDone \/ NativeReturns \/ PostHooksDone
            \/ UnconditionalHooksDone \/ FallbackReturns
  PROVE  IInv'
<1> inject \in BOOLEAN
  BY DEF IInv, TypeOK
<1>1. CASE ArgumentsExtracted
  <2> DEFINE frame == [Top EXCEPT !.at = "PRE", !.code = "end"]
  <2>1. Running /\ SetTop(frame) /\ UNCHANGED <<hooks, inject, depth>> /\ Top.at = "arguments"
    BY <1>1 DEF ArgumentsExtracted
  <2>2. frame \in Frame /\ FrameInv(frame)
    BY <2>1, TopOK DEF Frame, FrameInv, Progress, Coverage
  <2> QED
    BY <2>1, <2>2, TopStep
<1>2. CASE PreHooksDone
  <2>1. Running /\ Top.at = "PRE" /\ ~Top.busy /\ OfType(Top.standing, "PRE") \subseteq Top.ran
    BY <1>2 DEF PreHooksDone, StageDone
  <2>2. PICK frame \in Decide(Top) : SetTop(frame) /\ UNCHANGED <<hooks, inject, depth>>
    BY <1>2 DEF PreHooksDone
  <2>3. Top \in Frame /\ FrameInv(Top)
    BY <2>1, TopOK
  <2>4. frame \in Frame /\ FrameInv(frame)
    <3>1. CASE Top.block
      <4> DEFINE c == [Top EXCEPT !.code = IF Top.via = "CallFunction" THEN "past" ELSE @]
      <4>1. c \in Frame /\ frame \in Exchange(c)
        BY <3>1, <2>2, <2>3 DEF Decide, Frame
      <4>2. /\ ~c.injected /\ c.block /\ c.natives = 0
            /\ OfType(c.standing, "PRE") \subseteq c.ran
            /\ c.code = "past" \/ c.via = "ProcessEvent"
        BY <3>1, <2>1, <2>3 DEF FrameInv, Progress, Coverage, Frame
      <4> HIDE DEF c
      <4> QED
        BY <4>1, <4>2, ExchangeOK
    <3>2. CASE ~Top.block
      <4> DEFINE c == [Top EXCEPT !.code = "call"]
      <4>1. c \in Frame /\ c.natives = 0 /\ frame = RunNative(c, "native")
        BY <3>2, <2>1, <2>2, <2>3 DEF Decide, Frame, FrameInv, Progress
      <4>2. c.natives \in 0 .. 1
        BY <4>1
      <4>3. frame \in Frame
        <5> HIDE DEF c
        <5> QED
          BY <4>1, <4>2, RunNativeOK
      <4>4. /\ frame.at = "native" /\ frame.natives = 1 /\ frame.code = "past"
            /\ ~frame.block /\ ~frame.injected /\ frame.func = Top.func
            /\ frame.standing = Top.standing /\ frame.ran = Top.ran
        BY <3>2, <2>1, <2>3, <4>1 DEF RunNative, Frame, FrameInv, Coverage
      <4> QED
        BY <4>3, <4>4, <2>1 DEF FrameInv, Progress, Coverage
    <3> QED
      BY <3>1, <3>2
  <2> QED
    BY <2>1, <2>2, <2>4, TopStep
<1>3. CASE NativeReturns
  <2> DEFINE c == [Top EXCEPT !.result = IF Top.func \in Void THEN @ ELSE "native"]
  <2>1. Running /\ Top.at = "native"
    BY <1>3 DEF NativeReturns
  <2>2. PICK frame \in Exchange(c) : SetTop(frame) /\ UNCHANGED <<hooks, inject, depth>>
    BY <1>3 DEF NativeReturns
  <2>3. c \in Frame
    BY <2>1, TopOK DEF Frame
  <2>4. /\ ~c.injected /\ ~c.block /\ c.natives = 1 /\ c.code = "past"
        /\ OfType(c.standing, "PRE") \subseteq c.ran
    BY <2>1, TopOK DEF Frame, FrameInv, Progress, Coverage
  <2> HIDE DEF c
  <2>5. frame \in Frame /\ FrameInv(frame)
    BY <2>3, <2>4, ExchangeOK
  <2> QED
    BY <2>1, <2>2, <2>5, TopStep
<1>4. CASE PostHooksDone
  <2> DEFINE frame == [Top EXCEPT !.at = "POST_UNCONDITIONAL"]
  <2>1. Running /\ SetTop(frame) /\ UNCHANGED <<hooks, inject, depth>> /\ Top.at = "POST"
        /\ OfType(Top.standing, "POST") \subseteq Top.ran
    BY <1>4 DEF PostHooksDone, StageDone
  <2>2. frame \in Frame /\ FrameInv(frame)
    BY <2>1, TopOK DEF Frame, FrameInv, Progress, Coverage
  <2> QED
    BY <2>1, <2>2, TopStep
<1>5. CASE UnconditionalHooksDone
  <2> DEFINE frame == Returned(Top)
             left == RetDestroyed(Top, frame)
  <2>1. Running /\ SetTop(left) /\ UNCHANGED <<hooks, inject, depth>>
        /\ Top.at = "POST_UNCONDITIONAL"
        /\ OfType(Top.standing, "POST_UNCONDITIONAL") \subseteq Top.ran
    BY <1>5 DEF UnconditionalHooksDone, StageDone
  <2>2. Top \in Frame /\ FrameInv(Top)
    BY <2>1, TopOK
  <2>3. \A h \in Top.standing : h \in Top.ran \/ (TypeOf[h] = "POST" /\ Top.block)
    BY <2>1, <2>2, DetourAssumption DEF OfType, FrameInv, Coverage, Frame
  <2>4. frame \in Frame /\ FrameInv(frame)
    BY <2>1, <2>2, <2>3 DEF Returned, Frame, FrameInv, Progress, Coverage
  <2>5. left \in Frame /\ FrameInv(left)
    BY <2>2, <2>4, RetDestroyedOK DEF FrameInv, Coverage
  <2> QED
    BY <2>1, <2>5, TopStep
<1>6. CASE FallbackReturns
  <2> DEFINE frame == Returned([Top EXCEPT !.result = IF Top.func \in Void THEN @ ELSE "native"])
  <2>1. Running /\ SetTop(frame) /\ UNCHANGED <<hooks, inject, depth>> /\ Top.at = "fallback"
    BY <1>6 DEF FallbackReturns
  <2>2. frame \in Frame /\ FrameInv(frame)
    BY <2>1, TopOK DEF Returned, Frame, FrameInv, Progress, Coverage
  <2> QED
    BY <2>1, <2>2, TopStep
<1> QED
  BY <1>1, <1>2, <1>3, <1>4, <1>5, <1>6
(***************************************************************************)
(* Callbacks start only in a call that was not told to ignore hooks, and   *)
(* what they do to the frame leaves its place in the detour alone.         *)
(***************************************************************************)
LEMMA CallbackStep ==
  ASSUME IInv,
         \/ \E h \in Hook : RunCallback(h)
         \/ SetReturn \/ DestroyReturn \/ InjectNextCall
         \/ \E block \in BOOLEAN : CallbackReturns(block)
  PROVE  IInv'
<1> inject \in BOOLEAN
  BY DEF IInv, TypeOK
<1>1. ASSUME NEW h \in Hook, RunCallback(h) PROVE IInv'
  <2> DEFINE frame == [Top EXCEPT !.busy = TRUE, !.ran = @ \union {h}]
  <2>1. Running /\ SetTop(frame) /\ UNCHANGED <<hooks, inject, depth>> /\ Top.at \in Type
    BY <1>1 DEF RunCallback
  <2>2. frame \in Frame /\ FrameInv(frame)
    BY <2>1, TopOK DEF Frame, FrameInv, Progress, Coverage, OfType
  <2> QED
    BY <2>1, <2>2, TopStep
<1>2. CASE SetReturn \/ DestroyReturn
  <2>1. Running /\ Top \in Frame /\ FrameInv(Top) /\ UNCHANGED <<hooks, inject, depth>>
    BY <1>2, TopOK DEF SetReturn, DestroyReturn, InCallback
  <2>2. ASSUME NEW ret \in {"unset", "set", "zero", "native"}
        PROVE  [Top EXCEPT !.ret = ret] \in Frame /\ FrameInv([Top EXCEPT !.ret = ret])
    BY <2>1 DEF Frame, FrameInv, Progress, Coverage
  <2>3. CASE SetReturn
    <3>1. PICK ret \in {"unset", "set", "zero", "native"} : SetTop([Top EXCEPT !.ret = ret])
      BY <2>1, <2>3 DEF SetReturn, Frame
    <3> QED
      BY <2>1, <2>2, <3>1, TopStep
  <2>4. CASE DestroyReturn
    <3> DEFINE frame == RetDestroyed(Top, [Top EXCEPT !.ret = "unset"])
    <3>1. SetTop(frame)
      BY <2>4 DEF DestroyReturn
    <3>2. frame \in Frame /\ FrameInv(frame)
      BY <2>1, <2>2, RetDestroyedOK DEF FrameInv, Coverage
    <3> QED
      BY <2>1, <3>1, <3>2, TopStep
  <2> QED
    BY <1>2, <2>3, <2>4
<1>3. CASE InjectNextCall
  BY <1>3 DEF InjectNextCall, IInv, TypeOK
<1>4. ASSUME NEW block \in BOOLEAN, CallbackReturns(block) PROVE IInv'
  <2> DEFINE decided == Top.block \/ (block /\ Top.at = "PRE")
             frame == [Top EXCEPT !.busy = FALSE, !.block = decided]
  <2>1. Running /\ SetTop(frame) /\ UNCHANGED <<hooks, inject, depth>>
    BY <1>4 DEF CallbackReturns, InCallback
  <2>2. Top \in Frame /\ FrameInv(Top)
    BY <2>1, TopOK
  <2>3. decided \in BOOLEAN /\ (Top.at # "PRE" => decided = Top.block)
    BY <2>2 DEF Frame
  <2> HIDE DEF decided
  <2>4. frame \in Frame
    BY <2>2, <2>3 DEF Frame
  <2>5. FrameInv(frame)
    BY <2>2, <2>3 DEF Frame, FrameInv, Progress, Coverage
  <2> QED
    BY <2>1, <2>4, <2>5, TopStep
<1> QED
  BY <1>1, <1>2, <1>3, <1>4

(***************************************************************************)
(* Adding and removing hooks can only enlarge maybe and shrink standing.   *)
(***************************************************************************)
LEMMA RegistryStep ==
  ASSUME IInv, NEW h \in Hook, AddHook(h) \/ RemoveHook(h)
  PROVE  IInv'
<1>1. depth' = depth /\ inject' = inject /\ hooks' \subseteq Hook
  BY DEF AddHook, RemoveHook, IInv, TypeOK
<1>2. call' \in [1 .. MaxDepth -> Frame]
  BY DEF AddHook, RemoveHook, IInv, TypeOK, Frame
<1>3. ASSUME NEW d \in 1 .. depth PROVE FrameInv(call'[d])
  <2>1. d \in 1 .. MaxDepth /\ call[d] \in Frame /\ FrameInv(call[d])
    BY DetourAssumption DEF IInv, TypeOK
  <2>2. \/ call'[d] = call[d]
        \/ call'[d] = [call[d] EXCEPT !.maybe = @ \union {h}]
        \/ call'[d] = [call[d] EXCEPT !.standing = @ \ {h}]
    BY <2>1 DEF AddHook, RemoveHook
  <2> QED
    BY <2>1, <2>2 DEF Frame, FrameInv, Progress, Coverage, OfType
<1> QED
  BY <1>1, <1>2, <1>3 DEF IInv, TypeOK

(***************************************************************************)
(* A new call starts in a sound frame: hooks are passed by only because    *)
(* of the inject flag, because there are none, or because the parameters   *)
(* cannot be copied.                                                       *)
(***************************************************************************)
LEMMA EnteredOK ==
  ASSUME IInv, NEW func \in Func, NEW via \in Via
  PROVE  /\ Entered(func, via) \in Frame
         /\ FrameInv(Entered(func, via))
         /\ Entered(func, via).at \in {"fallback", "arguments", "PRE"}
<1> DEFINE base == [Blank EXCEPT !.func = func, !.via = via, !.code = "call",
                                 !.standing = HooksOn(func), !.maybe = HooksOn(func),
                                 !.injected = inject]
           native == RunNative(base, "fallback")
           frame == Entered(func, via)
<1>1. inject \in BOOLEAN /\ HooksOn(func) \in SUBSET Hook
      /\ via \in {"ProcessEvent", "CallFunction"}
  BY DetourAssumption DEF IInv, TypeOK, HooksOn
<1>2. base \in Frame
  BY <1>1, BlankOK DEF Frame
<1>3. /\ base.func = func /\ base.via = via /\ base.code = "call" /\ base.natives = 0
      /\ base.standing = HooksOn(func) /\ base.injected = inject
      /\ base.block = FALSE /\ base.ran = {}
  BY <1>1, BlankOK DEF Blank, Frame
<1>4. frame = IF inject \/ HooksOn(func) = {} THEN native
              ELSE IF via = "CallFunction" THEN [base EXCEPT !.at = "arguments"]
              ELSE IF func \in OpaqueParams \union Opaque THEN native
              ELSE [base EXCEPT !.at = "PRE"]
  BY DEF Entered, Catch
<1> HIDE DEF base, frame
<1>5. native \in Frame
  BY <1>2, <1>3, RunNativeOK
<1>6. /\ native.at = "fallback" /\ native.natives = 1 /\ native.code = "past"
      /\ native.func = func /\ native.via = via
      /\ native.standing = HooksOn(func) /\ native.injected = inject
      /\ native.block = FALSE /\ native.ran = {}
  BY <1>2, <1>3 DEF RunNative, Frame
<1> HIDE DEF native
<1>7. CASE inject \/ HooksOn(func) = {}
  BY <1>4, <1>5, <1>6, <1>7 DEF FrameInv, Progress, Coverage, frame
<1>8. CASE ~(inject \/ HooksOn(func) = {}) /\ via = "CallFunction"
  BY <1>2, <1>3, <1>4, <1>8 DEF FrameInv, Progress, Coverage, Frame, frame
<1>9. CASE ~(inject \/ HooksOn(func) = {}) /\ via # "CallFunction" /\ func \in OpaqueParams \union Opaque
  <2>1. frame = native /\ ~inject /\ via = "ProcessEvent"
    BY <1>1, <1>4, <1>9
  <2> QED
    BY <1>5, <1>6, <1>9, <2>1 DEF FrameInv, Progress, Coverage, frame
<1>10. CASE ~(inject \/ HooksOn(func) = {}) /\ via # "CallFunction" /\ func \notin OpaqueParams \union Opaque
  BY <1>2, <1>3, <1>4, <1>10 DEF FrameInv, Progress, Coverage, Frame, frame
<1> QED
  BY <1>7, <1>8, <1>9, <1>10

(***************************************************************************)
(* Entering a call keeps the invariant: the frames below stay as they are. *)
(***************************************************************************)
LEMMA CallStep ==
  ASSUME IInv, NEW func \in Func, NEW via \in Via, Call(func, via)
  PROVE  IInv'
<1> DEFINE frame == Entered(func, via)
<1>1. /\ depth + 1 \in 1 .. MaxDepth /\ depth' = depth + 1 /\ inject' = FALSE
      /\ hooks' = hooks /\ call' = [call EXCEPT ![depth + 1] = frame]
  BY DetourAssumption DEF Call, IInv, TypeOK
<1>5. frame \in Frame /\ FrameInv(frame)
  BY EnteredOK
<1> HIDE DEF frame
<1>6. TypeOK'
  <2>1. depth' \in 0 .. MaxDepth
    BY <1>1, DetourAssumption
  <2>2. call' \in [1 .. MaxDepth -> Frame]
    BY <1>1, <1>5 DEF IInv, TypeOK
  <2> QED
    BY <1>1, <2>1, <2>2 DEF IInv, TypeOK
<1>7. \A d \in 1 .. depth' : call'[d] = IF d = depth + 1 THEN frame ELSE call[d]
  BY <1>1 DEF IInv, TypeOK
<1>8. \A d \in 1 .. depth' : d # depth + 1 => d \in 1 .. depth
  BY <1>1 DEF IInv, TypeOK
<1>9. \A d \in 1 .. depth' : FrameInv(call'[d])
  BY <1>5, <1>7, <1>8 DEF IInv
<1> QED
  BY <1>6, <1>9 DEF IInv

(***************************************************************************)
(* So does returning from one.                                             *)
(***************************************************************************)
LEMMA ReturnStep ==
  ASSUME IInv, Return
  PROVE  IInv'
<1>1. /\ depth \in 1 .. MaxDepth /\ depth' = depth - 1 /\ hooks' = hooks
      /\ inject' = inject /\ call' = [call EXCEPT ![depth] = Blank]
  BY TopOK DEF Return, SetTop
<1>2. TypeOK'
  <2>1. depth' \in 0 .. MaxDepth
    BY <1>1, DetourAssumption
  <2>2. call' \in [1 .. MaxDepth -> Frame]
    BY <1>1, BlankOK DEF IInv, TypeOK
  <2> QED
    BY <1>1, <2>1, <2>2 DEF IInv, TypeOK
<1>3. \A d \in 1 .. depth' : d \in 1 .. depth /\ call'[d] = call[d]
  BY <1>1 DEF IInv, TypeOK
<1> QED
  BY <1>2, <1>3 DEF IInv
-----------------------------------------------------------------------------
(***************************************************************************)
(* The inductive invariant holds: every call in progress is in a sound     *)
(* frame, at any depth and with any hooks.                                 *)
(***************************************************************************)
THEOREM Invariance == Spec => []IInv
<1>1. Init => IInv
  <2> SUFFICES ASSUME Init PROVE IInv
    OBVIOUS
  <2>1. TypeOK
    <3>1. depth \in 0 .. MaxDepth
      BY DetourAssumption DEF Init
    <3> QED
      BY <3>1, BlankOK DEF Init, TypeOK
  <2>2. \A d \in 1 .. depth : FALSE
    BY DEF Init
  <2> QED
    BY <2>1, <2>2 DEF IInv
<1>2. IInv /\ [Next]_vars => IInv'
  <2> SUFFICES ASSUME IInv, [Next]_vars PROVE IInv'
    OBVIOUS
  <2>1. ASSUME NEW func \in Func, NEW via \in Via, Call(func, via) PROVE IInv'
    BY <2>1, CallStep
  <2>2. CASE Return
    BY <2>2, ReturnStep
  <2>3. ASSUME NEW h \in Volatile, AddHook(h) \/ RemoveHook(h) PROVE IInv'
    BY <2>3, RegistryStep, DetourAssumption
  <2>4. CASE UNCHANGED vars
    BY <2>4 DEF vars, IInv, TypeOK
  <2> QED
    BY <2>1, <2>2, <2>3, <2>4, DetourStep, CallbackStep DEF Next
<1> QED
  BY <1>1, <1>2, PTL DEF Spec

(***************************************************************************)
(* Type correctness of the detours: the native function runs at most twice *)
(* in a call, and calls nest no deeper than the stack.                     *)
(***************************************************************************)
THEOREM TypeCorrect == Spec => []TypeOK
  BY Invariance, PTL DEF IInv

(***************************************************************************)
(* process_event_hook and call_function_hook run a function whose return   *)
(* type they can copy once, or not at all if a pre-hook blocked it.        *)
(***************************************************************************)
THEOREM RunsAsDecided == Spec => []NativeRunsAsDecided
<1>1. IInv => NativeRunsAsDecided
  BY DEF IInv, FrameInv, Progress, NativeRunsAsDecided
<1> QED
  BY <1>1, Invariance, PTL

(***************************************************************************)
(* Hooks of type POST run only after the function did, unblocked and once. *)
(***************************************************************************)
THEOREM PostHooksAllowed == Spec => []PostOnlyIfAllowed
<1>1. IInv => PostOnlyIfAllowed
  BY DEF IInv, FrameInv, Progress, PostOnlyIfAllowed
<1> QED
  BY <1>1, Invariance, PTL

(***************************************************************************)
(* call_function_hook leaves the caller's bytecode just past the arguments *)
(* whether it restored Code for the function or stepped over the end token.*)
(***************************************************************************)
THEOREM CodeIsPastArguments == Spec => []CodeEndsPastArguments
<1>1. IInv => CodeEndsPastArguments
  BY DEF IInv, FrameInv, Progress, CodeEndsPastArguments
<1> QED
  BY <1>1, Invariance, PTL

(***************************************************************************)
(* No hook runs in a call that was told to ignore them, and every hook     *)
(* that stays registered runs in the others, unless it is of type POST and *)
(* the call was blocked.                                                   *)
(***************************************************************************)
THEOREM HooksRun == Spec => []HooksRunUnlessInjected
<1>1. IInv => HooksRunUnlessInjected
  BY DEF IInv, FrameInv, Coverage, HooksRunUnlessInjected
<1> QED
  BY <1>1, Invariance, PTL
-----------------------------------------------------------------------------
Shown(c) == IF c.ret = "unset" THEN c.func \in Void \/ c.block ELSE c.ret = c.result

(***************************************************************************)
(* A frame that the exchange sends to the post-hooks shows them the value  *)
(* the caller is going to read.                                            *)
(***************************************************************************)
LEMMA ExchangeShows ==
  ASSUME NEW c \in Frame, NEW e \in Exchange(c),
         c.block \/ c.func \in Void \/ c.result = "native",
         e.at \in {"POST", "POST_UNCONDITIONAL"}
  PROVE  Shown(e)
<1>1. e = ToPostHooks(CopiedTo(c))
  BY DEF Exchange, Catch, RunNative, Returned, RetDestroyed, CopiedTo, Frame
<1>2. CASE Overwrites(c)
  <2>1. CopiedTo(c) = [c EXCEPT !.result = c.ret] /\ c.ret # "unset"
    BY <1>2 DEF CopiedTo, Overwrites
  <2>2. e.ret = c.ret /\ e.result = c.ret
    BY <1>1, <2>1 DEF ToPostHooks, Reads, Overwrites, Frame
  <2> QED
    BY <2>1, <2>2 DEF Shown
<1>3. CASE ~Overwrites(c)
  <2>1. CopiedTo(c) = c /\ c.ret = "unset"
    BY <1>3 DEF CopiedTo, Overwrites
  <2>2. /\ e.func = c.func /\ e.block = c.block /\ e.result = c.result
        /\ e.ret = IF Reads(c) THEN "native" ELSE "unset"
    BY <1>1, <2>1 DEF ToPostHooks, Frame
  <2>3. Reads(c) <=> ~c.block /\ c.func \notin Void
    BY <1>3 DEF Reads
  <2>4. CASE Reads(c)
    BY <2>2, <2>3, <2>4 DEF Shown
  <2>5. CASE ~Reads(c)
    BY <2>2, <2>3, <2>5 DEF Shown
  <2> QED
    BY <2>4, <2>5
<1> QED
  BY <1>2, <1>3

ShowsAt(d) ==
    call[d].at # call'[d].at /\ call[d].at \in {"PRE", "native"}
        /\ call'[d].at \in {"POST", "POST_UNCONDITIONAL"} => Shown(call'[d])

(***************************************************************************)
(* No other step takes a call from the pre-hooks or the native function to *)
(* the post-hooks.                                                         *)
(***************************************************************************)
LEMMA StepShows ==
  ASSUME IInv, [Next]_vars, NEW d \in 1 .. MaxDepth
  PROVE  ShowsAt(d)
<1> SUFFICES ASSUME call[d].at \in {"PRE", "native"},
                    call'[d].at \in {"POST", "POST_UNCONDITIONAL"}
             PROVE  Shown(call'[d])
  BY DEF ShowsAt
<1>0. call[d] \in Frame /\ call \in [1 .. MaxDepth -> Frame] /\ call'[d] # call[d]
  BY DEF IInv, TypeOK
<1>1. CASE PreHooksDone
  <2>1. PICK frame \in Decide(Top) : SetTop(frame)
    BY <1>1 DEF PreHooksDone
  <2>2. Running
    BY <1>1 DEF PreHooksDone, StageDone
  <2>3. d = depth /\ Top = call[d] /\ call'[d] = frame
    BY <1>0, <2>1, <2>2, TopOK DEF SetTop, Top
  <2>4. Top.block
    <3> SUFFICES ASSUME ~Top.block PROVE FALSE
      OBVIOUS
    <3>1. frame = RunNative([Top EXCEPT !.code = "call"], "native")
      BY <2>1 DEF Decide
    <3>2. frame.at = "native"
      BY <1>0, <2>3, <3>1 DEF RunNative, Frame
    <3> QED
      BY <2>3, <3>2
  <2> DEFINE c == [Top EXCEPT !.code = IF Top.via = "CallFunction" THEN "past" ELSE @]
  <2>5. c \in Frame /\ frame \in Exchange(c) /\ c.block
    BY <1>0, <2>1, <2>3, <2>4 DEF Decide, Frame
  <2> HIDE DEF c
  <2> QED
    BY <2>3, <2>5, ExchangeShows
<1>2. CASE NativeReturns
  <2> DEFINE c == [Top EXCEPT !.result = IF Top.func \in Void THEN @ ELSE "native"]
  <2>1. PICK frame \in Exchange(c) : SetTop(frame)
    BY <1>2 DEF NativeReturns
  <2>2. Running
    BY <1>2 DEF NativeReturns
  <2>3. d = depth /\ Top = call[d] /\ call'[d] = frame
    BY <1>0, <2>1, <2>2, TopOK DEF SetTop, Top
  <2>4. c \in Frame /\ (c.func \in Void \/ c.result = "native")
    BY <1>0, <2>3 DEF Frame
  <2> HIDE DEF c
  <2> QED
    BY <2>1, <2>3, <2>4, ExchangeShows
<1>3. CASE ArgumentsExtracted \/ PostHooksDone \/ UnconditionalHooksDone \/ FallbackReturns
  <2>1. Running /\ Top.at \notin {"PRE", "native"}
    BY <1>3 DEF ArgumentsExtracted, PostHooksDone, UnconditionalHooksDone,
                FallbackReturns, StageDone
  <2>2. d = depth
    BY <1>0, <1>3, TopOK DEF ArgumentsExtracted, PostHooksDone, UnconditionalHooksDone,
                FallbackReturns, SetTop
  <2> QED
    BY <2>1, <2>2 DEF Top
<1>4. CASE \/ \E h \in Hook : RunCallback(h)
           \/ SetReturn \/ DestroyReturn \/ InjectNextCall
           \/ \E block \in BOOLEAN : CallbackReturns(block)
  <2>1. \/ call' = call
        \/ Running /\ \E frame : SetTop(frame) /\ frame.at \in {Top.at, "terminated"}
    <3>1. Running /\ Top \in Frame
      BY <1>4, TopOK DEF RunCallback, SetReturn, DestroyReturn, InjectNextCall,
                  CallbackReturns, InCallback
    <3>2. ASSUME NEW h \in Hook, RunCallback(h)
          PROVE  \E frame : SetTop(frame) /\ frame.at = Top.at
      <4> DEFINE frame == [Top EXCEPT !.busy = TRUE, !.ran = @ \union {h}]
      <4>1. SetTop(frame) /\ frame.at = Top.at
        BY <3>1, <3>2 DEF RunCallback, Frame
      <4> QED
        BY <4>1
    <3>3. CASE SetReturn
      BY <3>1, <3>3 DEF SetReturn, Frame
    <3>6. CASE DestroyReturn
      <4> DEFINE frame == RetDestroyed(Top, [Top EXCEPT !.ret = "unset"])
      <4>1. SetTop(frame)
        BY <3>6 DEF DestroyReturn
      <4>2. frame.at \in {Top.at, "terminated"}
        BY <3>1 DEF RetDestroyed, Frame
      <4> QED
        BY <3>1, <4>1, <4>2
    <3>4. CASE InjectNextCall
      BY <3>4 DEF InjectNextCall
    <3>5. ASSUME NEW block \in BOOLEAN, CallbackReturns(block)
          PROVE  \E frame : SetTop(frame) /\ frame.at = Top.at
      <4> DEFINE frame == [Top EXCEPT !.busy = FALSE, !.block = @ \/ (block /\ Top.at = "PRE")]
      <4>1. SetTop(frame) /\ frame.at = Top.at
        BY <3>1, <3>5 DEF CallbackReturns, Frame
      <4> HIDE DEF frame
      <4> QED
        BY <4>1
    <3> QED
      BY <1>4, <3>1, <3>2, <3>3, <3>4, <3>5, <3>6
  <2>2. call'[d].at \in {call[d].at, "terminated"}
    BY <1>0, <2>1, TopOK DEF SetTop, Top
  <2> QED
    BY <2>2
<1>5. ASSUME NEW h \in Hook, AddHook(h) \/ RemoveHook(h) PROVE FALSE
  <2>1. \/ call'[d] = call[d]
        \/ call'[d] = [call[d] EXCEPT !.maybe = @ \union {h}]
        \/ call'[d] = [call[d] EXCEPT !.standing = @ \ {h}]
    BY <1>0, <1>5 DEF AddHook, RemoveHook
  <2>2. call'[d].at = call[d].at
    BY <1>0, <2>1 DEF Frame
  <2> QED
    BY <2>2
<1>6. ASSUME NEW func \in Func, NEW via \in Via, Call(func, via) PROVE FALSE
  <2>1. call' = [call EXCEPT ![depth + 1] = Entered(func, via)]
    BY <1>6 DEF Call
  <2>2. Entered(func, via).at \in {"fallback", "arguments", "PRE"}
    BY EnteredOK
  <2>3. call'[d] = call[d] \/ call'[d] = Entered(func, via)
    BY <1>0, <2>1
  <2> QED
    BY <1>0, <2>2, <2>3
<1>7. CASE Return
  BY <1>0, <1>7 DEF Return, SetTop, Blank
<1>8. CASE UNCHANGED vars
  BY <1>0, <1>8 DEF vars
<1> QED
  BY <1>1, <1>2, <1>3, <1>4, <1>5, <1>6, <1>7, <1>8, DetourAssumption DEF Next

(***************************************************************************)
(* Post-hooks start out with the value the caller of the detour is going   *)
(* to read: the one copy_to wrote, or the one copy_from read.              *)
(***************************************************************************)
THEOREM PostHooksSeeWhatCallerGets == Spec => PostHooksSeeResult
<1>1. IInv /\ [Next]_vars =>
        [\A d \in 1 .. MaxDepth :
           call[d].at # call'[d].at /\ call[d].at \in {"PRE", "native"}
               /\ call'[d].at \in {"POST", "POST_UNCONDITIONAL"} =>
             IF call'[d].ret = "unset"
             THEN call'[d].func \in Void \/ call'[d].block
             ELSE call'[d].ret = call'[d].result]_vars
  BY StepShows DEF ShowsAt, Shown
<1> QED
  BY <1>1, Invariance, PTL DEF Spec, PostHooksSeeResult

=============================================================================

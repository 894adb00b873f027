------------------------------ MODULE GameHooks -----------------------------
(***************************************************************************)
(* What each game's hook() does, step by step.  A step looks for one thing *)
(* in the executable; what tells the steps apart is what they do with it,  *)
(* and what happens if it is not there.  The signatures are abstracted to  *)
(* the name of what they find.                                             *)
(***************************************************************************)
EXTENDS Sequences

Step(does, what, absent) == [does |-> does, what |-> what, absent |-> absent]

\* A pointer that sigscan_nullable may leave null, unnoticed until it is used.
Pointer(what) == Step("find", what, "null")

\* A pointer that read_offset reads at the place found: of a place that was not
\* found it only logs, and is null.
Offset(what) == Step("find", what, "null")

\* One that is read some way behind the place, or used at once, unchecked: near
\* address 0 that is a crash.
Unchecked(what) == Step("find", what, "fault")

\* A pointer that sigscan looks for, and throws if it is not there.
Checked(what) == Step("find", what, "throw")

\* Pointers that multi_sigscan looked for before.
Chosen(what) == Step("choose", what, "null")
ChosenUnchecked(what) == Step("choose", what, "fault")

\* A function that is replaced; not finding it is only logged.
Detour(what) == Step("detour", what, "null")

\* Machine code that is changed; not finding it is only logged.
Edit(what) == Step("edit", what, "null")

\* Something that does not look into the executable and cannot fail.
Plain(what) == Step("plain", what, "null")

\* Copying the value of a pointer found before, which the game sets some time.
Copy(what) == Step("copy", what, "null")

\* Waiting for the game's main thread to have set something up.
Await(what) == Step("await", what, "null")

\* Waiting as long as the byte that is taken for a flag is not zero.
AwaitZero(what) == Step("await zero", what, "null")

-----------------------------------------------------------------------------
\* Borderlands
BL1Wait == <<Step("wait", "entry", "null")>>

BL1Antidebug == <<Plain("antidebug")>>

BL1ProcessEvent == <<Detour("ProcessEvent")>>

BL1CallFunction == <<Detour("CallFunction")>>

BL1Globals == <<Offset("GObjects"), Offset("GNames")>>

BL1Names == <<Pointer("FName::Init"), Pointer("GNatives")>>

BL1Memory == <<Offset("GMalloc")>>

BL1Objects ==
    <<Pointer("ConstructObject"), Pointer("GetPathName"), Pointer("FindObject")>>

BL1LoadPackage == <<Pointer("LoadPackage")>>

BL1Hexedits == <<Edit("SetCommand"), Edit("ArrayLimit")>>

BL1Hook == BL1Wait \o BL1Antidebug \o BL1ProcessEvent \o BL1CallFunction
         \o BL1Globals \o BL1Names \o BL1Memory \o BL1Objects
         \o BL1LoadPackage \o BL1Hexedits

-----------------------------------------------------------------------------
\* Borderlands Enhanced
BL1EWait == <<Step("wait", "entry", "null")>>

BL1EEditor == <<Edit("Editor")>>

BL1EProcessEvent == <<Detour("ProcessEvent")>>

BL1ECallFunction == <<Detour("CallFunction")>>

BL1EMemory == <<Offset("GMalloc")>>

BL1EGlobals == <<Offset("GObjects"), Offset("GNames")>>

BL1ENames == <<Pointer("FName::Init"), Offset("GNatives")>>

BL1EObjects ==
    <<Pointer("ConstructObject"), Pointer("GetPathName"), Pointer("FindObject")>>

BL1EStartupBypass ==
    <<Checked("StaticLoadObject"), Checked("GetExportPathName"), Detour("CreateExport")>>

BL1ELoadPackage == <<Detour("LoadPackage")>>

BL1EHook == BL1EWait \o BL1EEditor \o BL1EProcessEvent \o BL1ECallFunction
          \o BL1EMemory \o BL1EGlobals \o BL1ENames \o BL1EObjects
          \o BL1EStartupBypass \o BL1ELoadPackage

-----------------------------------------------------------------------------
\* Borderlands 2, and The Pre-Sequel, which looks for one edit elsewhere
BL2Antidebug == <<Plain("antidebug")>>

BL2ProcessEvent == <<Detour("ProcessEvent")>>

BL2CallFunction == <<Detour("CallFunction")>>

BL2Globals == <<Offset("GObjects"), Offset("GNames")>>

BL2Names == <<Pointer("FName::Init"), Pointer("FFrame::Step")>>

BL2Memory == <<Checked("GMalloc"), Copy("GMalloc")>>

BL2Objects ==
    <<Pointer("ConstructObject"), Pointer("GetPathName"), Pointer("FindObject")>>

BL2LoadPackage == <<Pointer("LoadPackage")>>

BL2Hexedits == <<Edit("SetCommand"), Edit("ArrayLimit"), Edit("ArrayLimitMessage")>>

BL2Hook == BL2Antidebug \o BL2ProcessEvent \o BL2CallFunction \o BL2Globals
         \o BL2Names \o BL2Memory \o BL2Objects \o BL2LoadPackage
         \o BL2Hexedits

-----------------------------------------------------------------------------
\* Borderlands 3
BL3ProcessEvent == <<Detour("ProcessEvent")>>

BL3CallFunction == <<Detour("CallFunction")>>

BL3Globals == <<Offset("GObjects"), Checked("GNames"), Copy("GNames")>>

BL3Names == <<Pointer("FName::Init"), Pointer("FFrame::Step")>>

BL3Memory == <<Pointer("Malloc"), Pointer("Realloc"), Pointer("Free")>>

BL3Objects ==
    <<Pointer("ConstructObject"), Pointer("GetPathName"), Pointer("FindObject")>>

BL3Texts == <<Pointer("AsCultureInvariant")>>

BL3LoadPackage == <<Pointer("LoadPackage")>>

BL3PersistentObjects == <<Unchecked("SoftObjectPtr"), Unchecked("LazyObjectPtr")>>

BL3Hook == BL3ProcessEvent \o BL3CallFunction \o BL3Globals \o BL3Names
         \o BL3Memory \o BL3Objects \o BL3Texts \o BL3LoadPackage
         \o BL3PersistentObjects

-----------------------------------------------------------------------------
\* Borderlands 4, its debugging options off
BL4Antidebug == <<Plain("antidebug")>>

BL4Unpack == <<Step("poll", "ProcessEvent", "null")>>

BL4Search == <<Step("search", "patterns", "null")>>

BL4CallFunction == <<Detour("CallFunction")>>

BL4Names == <<Chosen("FName::Init"), ChosenUnchecked("FNamePool"), AwaitZero("names")>>

BL4Memory == <<ChosenUnchecked("GMalloc"), Await("malloc"), Copy("GMalloc")>>

BL4PathNames == <<Chosen("GetPathName")>>

BL4Objects == <<Chosen("ConstructObject"), Chosen("FindObject")>>

BL4LoadPackage == <<Pointer("LoadPackage")>>

BL4Natives == <<Checked("GNatives")>>

BL4Texts == <<Chosen("AsCultureInvariant")>>

BL4GObjects == <<Unchecked("GObjects"), Await("objects")>>

BL4Hook == BL4Antidebug \o BL4Unpack \o BL4Search \o BL4CallFunction \o BL4Names
           \o BL4Memory \o BL4PathNames \o BL4Objects \o BL4LoadPackage \o BL4Natives
           \o BL4Texts \o BL4GObjects

-----------------------------------------------------------------------------
Steps == [bl1 |-> BL1Hook, bl1e |-> BL1EHook, bl2 |-> BL2Hook, bl3 |-> BL3Hook,
          bl4 |-> BL4Hook]

\* The hooks inject_console adds.
ConsoleHooks == [bl1 |-> 4, bl1e |-> 4, bl2 |-> 5, bl3 |-> 1, bl4 |-> 1]
=============================================================================

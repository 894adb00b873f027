----------------------------- MODULE ConsoleSetup -----------------------------
(***************************************************************************)
(* How the sdk takes over a game's console.  The first call of a function  *)
(* that comes once the console can exist, which a hook waits for, finds    *)
(* the console or makes one, hooks it, and sees to a key that opens it.    *)
(* In BL4 the code to detour is unpacked late: a thread polls for it.      *)
(* What the functions called here do to throw is left out.                 *)
(***************************************************************************)
EXTENDS Naturals, Sequences, SequencesExt, FiniteSets

CONSTANTS
    Settings,       \* the game's InputSettings objects; in UE3 the console is the only one
    KeyName,        \* the names of keys, and the two that are none:
    NoneKey, UndefineKey,
    Tilde,          \* the key wanted by default
    NotConfigured,  \* unrealsdk.console_key is not set
    MaxPolls        \* timeout over poll_interval

Willow == {"BL1", "BL1E", "BL2", "TPS"}

ASSUME SetupAssumption ==
    /\ {NoneKey, UndefineKey, Tilde} \subseteq KeyName /\ NotConfigured \notin KeyName
    /\ Tilde \notin {NoneKey, UndefineKey}
    /\ IsFiniteSet(Settings) /\ MaxPolls \in Nat

VARIABLES
    game,
    configured,     \* unrealsdk.console_key
    waiting,        \* the hook that injects the console is registered
    console,        \* "none", "game": the viewport has one, "sdk": the sdk knows it
    key,            \* key[s]: ConsoleKey, not in BL4
    keys,           \* keys[s]: ConsoleKeys, not in UE3
    found,          \* the keys that were in effect before
    executable,     \* the page the console's command function is on
    polls,          \* the attempts to detour it
    detour          \* "none", "created": console_command_ptr is set, or "enabled"

setupVars == <<game, configured, waiting, console, key, keys, found, executable, polls, detour>>

Real(name) == name \notin {NoneKey, UndefineKey}

\* The keys that open the console.
InEffect(s) == IF game = "BL4" THEN ToSet(keys[s]) ELSE {key[s]}

SetupInit ==
    /\ game \in Willow \union {"BL3", "BL4"}
    /\ configured \in {name \in KeyName : Real(name)} \union {NotConfigured}
    /\ waiting = TRUE
    /\ console \in IF game \in Willow THEN {"game"} ELSE {"none", "game"}
    /\ key \in [Settings -> KeyName]
    /\ keys \in [Settings -> SeqOf(KeyName, 2)]
    /\ game \in Willow => \A s \in Settings : keys[s] = <<>>
    /\ game = "BL4" => \A s \in Settings : key[s] = NoneKey
    /\ found = [s \in Settings |-> InEffect(s)]
    /\ executable \in IF game = "BL4" THEN BOOLEAN ELSE {TRUE}
    /\ polls = 0 /\ detour = "none"

Wanted == IF configured = NotConfigured THEN Tilde ELSE configured

\* Borderlands 1 compares with Undefine the wrong way round.
Replaced(name) == IF game \in {"BL1", "BL1E"} THEN name = NoneKey ELSE ~Real(name)

KeyFor(name) == IF Replaced(name) THEN Wanted ELSE name

\* Slip: the configured key is only a default in BL4, too.
KeysKept(list) == IF list = <<>> THEN <<Wanted>> ELSE list

KeysFor(list) ==
    IF list = <<>> THEN <<Wanted>>
    ELSE IF configured \in {NotConfigured, list[1]} THEN list ELSE <<configured>>

\* MinHook may fail to create a detour or, once created, to enable it; it creates none twice.
Detoured(now) ==
    \/ now = detour
    \/ detour = "none" /\ now \in {"created", "enabled"}

\* UE3, where the commands are hooked with the hook manager from the beginning.
InjectWillow ==
    /\ game \in Willow
    /\ key' = [s \in Settings |-> KeyFor(key[s])]
    /\ UNCHANGED <<keys, detour>>

InjectBL3 ==
    /\ game = "BL3"
    /\ \E now \in {"none", "created", "enabled"} : Detoured(now) /\ detour' = now
    /\ key' = [s \in Settings |-> KeyFor(key[s])]
    /\ keys' = [s \in Settings |-> <<key'[s]>>]

InjectBL4 ==
    /\ game = "BL4"
    /\ keys' = [s \in Settings |-> KeysFor(keys[s])]
    /\ UNCHANGED <<key, detour>>

Inject ==
    /\ waiting
    /\ waiting' = FALSE
    /\ console' = "sdk"
    /\ InjectWillow \/ InjectBL3 \/ InjectBL4
    /\ UNCHANGED <<game, configured, found, executable, polls>>

\* The antidebug of BL4 may take a page away again while it unpacks.
Unpack ==
    /\ game = "BL4"
    /\ executable' \in BOOLEAN
    /\ UNCHANGED <<game, configured, waiting, console, key, keys, found, polls, detour>>

\* detour_once_executable's thread, which Inject starts.
Poll ==
    /\ game = "BL4" /\ ~waiting /\ polls < MaxPolls /\ detour # "enabled"
    /\ polls' = polls + 1
    /\ \E now \in {"none", "created", "enabled"} :
          Detoured(now) /\ (executable \/ now = detour) /\ detour' = now
    /\ UNCHANGED <<game, configured, waiting, console, key, keys, found, executable>>

is_console_ready ==
    IF game = "BL4" THEN console = "sdk" /\ detour # "none" ELSE console = "sdk"

SetupNext == Inject \/ Unpack \/ Poll

SetupSpec == SetupInit /\ [][SetupNext]_setupVars

-----------------------------------------------------------------------------

SetupTypeOK ==
    /\ key \in [Settings -> KeyName]
    /\ keys \in [Settings -> Seq(KeyName)]
    /\ polls \in 0 .. MaxPolls
    /\ detour \in {"none", "created", "enabled"}

(***************************************************************************)
(* changelog.md, "The console key will now also be overwritten if it was   *)
(* previously set to Undefine", and the comments on keys the player chose: *)
(* a console that is ready has a key that opens it, the configured one if  *)
(* nothing or, in BL4, anything else did before, and keys the player chose *)
(* still do; BL3's two settings agree.  What the code does not see to is   *)
(* named: Undefine in BL1, and in BL4 a list of keys that are none.        *)
(***************************************************************************)
LeftUnset(s) ==
    \/ game \in {"BL1", "BL1E"} /\ found[s] = {UndefineKey}
    \/ game = "BL4" /\ configured = NotConfigured /\ found[s] # {}

ReadyConsolesOpen ==
    is_console_ready =>
        \A s \in Settings :
            LET before == {name \in found[s] : Real(name)}
                now == {name \in InEffect(s) : Real(name)}
            IN
            /\ before = {} /\ ~LeftUnset(s) => now = {Wanted}
            /\ IF game = "BL4" /\ configured # NotConfigured
               THEN configured \in now
               ELSE before \subseteq now
            /\ game = "BL3" => InEffect(s) = ToSet(keys[s])
=============================================================================

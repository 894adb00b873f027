# A verification of unrealsdk

unrealsdk is a library that is loaded into the Borderlands games (the Unreal Engine 3 games
BL1, BL1E, BL2 and TPS, the Unreal Engine 4 and 5 games BL3 and BL4). It detours the game's two
entry points for script functions, so that clients can run hooks before and after any of them; it
gives clients access to the game's objects; it adds console commands and a logger. This directory
holds TLA+ modules of its logic, TLC runs that check them, and proofs checked by TLAPS.

All paths are relative to `src/src/unrealsdk/` unless they begin with `src/`.

## 1. Inventory

| Component | State it keeps | Operations | Talks to | Hard because | Correct if |
|---|---|---|---|---|---|
| hook manager (`hook_manager.cpp`) | `hooks_hash_table`: buckets of nodes linked at four levels (FName, object, type, collection) by `shared_ptr`s | `add_hook`, `has_hook`, `remove_hook`, `preprocess_hook`, `has_post_hooks`, `run_hooks_of_type` | detours, clients' callbacks | callbacks change the lists under the walk that runs them; no lock | searches are exact in every order of changes; a walk runs what stays, once, and ends |
| call logging (same file) | `should_log_all_calls`, the file stream | `log_all_calls`, two parts of `preprocess_hook` | every unreal call of every thread | a flag read twice, a stream with sticky errors | logging never hides hooks |
| function detours (`game/*/hooks.cpp`) | the call being processed: arguments, return value, bytecode pointer; the thread's inject flag | `process_event_hook`, `call_function_hook`, their locking versions | hook manager, property proxy, the game | exceptions at any point; nesting; two copies of the arguments | native runs once or, blocked, not at all; post-hooks and caller see the same result |
| return value proxy (`wrappers/property_proxy.*`) | an optional allocation | `set`, `destroy`, `copy_to`, `copy_from` | detours, hooks | a failing `set` leaves something set | as above |
| console commands (`commands.cpp`) | map of names to callbacks, with the unnamed NEXT_LINE | add, has, remove, `is_command_valid`, `run_command` | consoles, clients | callbacks change the map; a check and a use with unreal calls in between | a line goes to its command or to the game, never both |
| game consoles (`game/*/console.cpp`) | the game's history buffer, the console object | line hooks, `inject_console`, output | commands, hooks, logging | a ring that wraps around, an array moved by hand, hooks in between; consoles that come late | history shows the last lines, a line entered again once; a console has a key |
| logging (`logging.cpp`) | message queue, callbacks, logger thread | `log`, `add_callback`, `remove_callback`, `init` | every thread; consoles | three locks, a condition variable | every message reaches every callback that stays, in order |
| locks (`locks.cpp`, `wrappers/bound_function.cpp`) | two recursive mutexes; `FunctionFlags` | `FunctionCall`, `LoadPackage`, `BoundFunction::call` | detours, load_package | held through whole game functions | flags come back; the locks are passed on, but for one known circle |
| signature scanning (`multi_sigscan.h`, `memory.cpp`) | a result per pattern | `multi_sigscan`, `sigscan` | init | chunks, races between finders | the first match of each pattern |
| initialisation (`unrealsdk_main.cpp`, `src/src/shared/dllmain.cpp`, `game/selector.cpp`) | `init_mutex`, `hook_instance` | `init`, `is_initialized`, every exported call | all | detours are live before the globals they need; the game is starting at the same time | a call sees the sdk whole or not at all; startup ends |
| game hooks (`game/*/`) | pointers found by signatures | `hook`, `post_init`, `find_*` | signature scanning | a packed executable, waits with suspended threads, things not found | nothing is looked for or copied before it is there |
| unreal smart pointers (`wrappers/unreal_pointer*`) | reference counts in the game's memory | copy, move, assign, release | wrappers | threads drop the last references together | freed once, never used after, also when a destructor throws |
| weak pointers, object array (`wrappers/weak_pointer.cpp`, `wrappers/gobjects.cpp`, `namedobjectcache.h`) | serial numbers, indexes, cached names | get, set, iterate, find | the game's garbage collector | a compare-and-swap; slots used again | its own object while that lives, never another one after |
| structs, arrays, delegates, properties (`unreal/wrappers`, `unreal/structs`, `unreal/properties`) | the game's memory | get, set, copy, destroy, resize, call | smart pointers, the game's allocator | who owns what is in an entry; sets that throw midway; delegates changed by what they call | every reference is counted; undisturbed calls reach every bound function |
| classes (`unreal/classes/ustruct.cpp`) | none; the game's lists of fields and properties | iterate, `find`, `find_prop`, `find_func_and_validate` | everything that takes a name | lists per struct, some of them empty, entries that are no properties | the most derived member is found |
| configuration, layouts, names, utilities | none, or constants | - | - | - | not modelled |

How they interact: the game calls a script function, which enters a detour. The detour asks the
hook manager (`preprocess_hook`) for hooks, runs them, calls the game's own function, moves the
return value through the proxy, and runs post-hooks. Hooks are arbitrary code: they call unreal
functions (nested detours), change hooks and commands, log. The consoles are themselves hooks (or
detours) that feed `commands`. Logging hands messages to its own thread, whose builtin callback
prints through an unreal function in the BL2 family: back into a detour, on another thread. The
function call lock, off by default, serialises all of that.

PROJECT.json lists the hazards of this code at their lines, and the property that covers each, or
why none does.

## 2. Modules

| Module | Models | Runs |
|---|---|---|
| `HookTable`, `HookTableProofs` | the table's operations as operators on a heap of nodes | |
| `HookRegistry` | what `hook_manager.h` promises: a set of hooks | |
| `HookManager`, `MCHookManager`, `MCHooks`, `HookManagerProofs` | the table in use, with a walk over it | `hooks`, `hook_add_answer` |
| `CallLogging`, `MCHooks`, `HookManagerProofs` | log_all_calls against running calls | `hooks`, `hook_logging` |
| `FunctionDetour`, `MCFunctionDetour`, `FunctionDetourProofs` | both detours, nested, with exceptions | `detour`, `detour_block` |
| `Commands`, `MCCommands`, `ConsoleProofs` | commands and the lines that reach them | `commands`, `commands_automated` |
| `RecentLines` | what a history of lines shows, abstractly | |
| `ConsoleHistory`, `MCCommands` | the history of lines, a ring or an array | `commands` |
| `ConsoleSetup`, `MCCommands`, `ConsoleProofs` | how each game's console is taken over | `commands` |
| `Logging`, `MCThreads`, `ThreadsProofs` | queue, logger thread, callbacks | `threads` |
| `MultiSigscan`, `MCThreads`, `ThreadsProofs` | the parallel search | `threads` |
| `FunctionLocks`, `MCThreads`, `ThreadsProofs` | both locks and the function flags | `threads` |
| `GameHooks` | the steps of each game's hook(), and what each does if it fails | |
| `Startup`, `MCStartup`, `StartupProofs` | init, hook() and the waits for the game, against the game's threads | `startup`, `startup_globals`, `startup_names` |
| `SharedOwnership` | owners of a block of memory, abstractly | |
| `UnrealPointer`, `MCObjects`, `UnrealPointerProofs` | owning pointers with an atomic count, on many threads | `objects` |
| `UnrealArray`, `MCObjects`, `ObjectsProofs` | arrays of strings and of shared structs | `objects` |
| `WeakPointers`, `MCObjects`, `ObjectsProofs` | weak pointers and the array of all objects | `objects` |
| `Delegates`, `MCObjects`, `ObjectsProofs` | multicast delegates whose functions change them | `objects` |
| `StructFields`, `MCObjects`, `ObjectsProofs` | the search for a member by its name | `objects` |

Components that share no state share a run: an `MC` module has a variable `part`, set by Init,
that says which one a behaviour is of.

### HookTable, HookRegistry, HookManager

`table.heap` maps the nodes alive to their hook and their four `next_*` links; `table.bucket`
is the bucket array. `AddHook`, `RemoveHook` and the searches follow the code's loops level by level
(`Visited` and `Found` are the loops, `Insert` and `Bypass` the relinking, `Promote` the move of
a removed node's sublists to its successor). `Owned` is what `shared_ptr` does: a node lives while
a table entry, another live node or a walk owns it.

A walk of `HookManager` is one call going through `preprocess_hook`, `run_hooks_of_type`,
`has_post_hooks` in the order of the detours. The code reads `next_in_collection` only when the
callback has returned, so calling and returning are two steps and any public call may come
between. The native function and the copying of its result are a stage of their own ("NATIVE"), at
whose end `has_post_hooks` is asked (`AskForPostHooks`): until then hooks may come and go. One walk is enough: walks never write the table, so several do not affect each other, and
the walk sees the changes of all others as steps of clients. `ImplementsRegistry` is the
refinement of the table to a set of hooks, `HookRegistry`, which by itself says that a step adds or
removes a hook, and, step by step (`StepsAsRegistry`), which one: `add_hook` its own, `remove_hook`
its own, and a step of a call none.

### FunctionDetour

A stack of calls, nested through callbacks and native functions. `Call` is the game or a client
entering a detour, up to the first hook (`preprocess_hook`, with the inject flag);
`ArgumentsExtracted` is CallFunction's extraction, which may run functions itself; `RunCallback`
and what follows it are a hook and what it may do; `Decide` is what the detour makes of the
pre-hooks' answers; `Exchange` copies the return value in one direction or the other and asks
`has_post_hooks`; `Catch` is the `catch` clause with the call behind it. What `cast` knows of the
return type is part of the function: a value of an `Opaque` type cannot be copied, be it a struct
that is known in part or of an `Unknown` type, which cannot be destroyed either. ProcessEvent copies
the parameters before its first hook, the return parameter with them, so that functions of such
types get no further (`Entered`); CallFunction runs the hooks and fails later (`Exchange`). An
unknown value that a hook set, or tried to, is destroyed in a destructor that may not throw: the
program ends ("terminated", `RetDestroyed`). Code is the position in the
caller's bytecode. Functions without a return value are covered by the proof and not by the run.

### Commands

`Commands` keeps the map, and a stack of lines being processed: typed or automated, each valid or
not when it is checked, then the history and echo (unreal functions whose hooks may do anything),
then `run_command`. BL3 and BL4 take every line as typed (`game/bl3/console.cpp:64-67`), so they
are the model without automated lines.

### RecentLines, ConsoleHistory

`RecentLines` is a list: entering a line takes an older copy out and puts it at the end, and the
oldest line goes when there are too many. The two may be one step or two (`TakeOut`, `PutAtEnd`);
only a line that has been taken out may be put at the end. `ConsoleHistory` is the two ways the code does that. In
UE3 `Purge` is the game's own PurgeCommandFromHistory, called through a detour, so that hooks may
enter lines of their own before `Insert` writes the line and moves top and bottom. A hook that
enters the very line that is being purged makes it show twice, as nobody takes it out again: that
is the one way to get a line twice that the specification has. In BL3 and BL4
`Update` destroys an entry, moves the memory behind it, one entry too much, and assigns the last
one: what it moves in from behind the array is any string, and the refinement shows that it is
always overwritten. The game's own changes to the history are left out, but for the state that the
sdk finds: a ring is any that the game may have left, stale lines in its free entries included.

### ConsoleSetup

`inject_console` of every game, run by the first call that its hook sees, with the choice of keys
game by game (`KeyFor`, `KeysFor`), and for BL4 `detour_once_executable`: a thread that polls for
the page to become executable while the antidebug code may take it away again, with MinHook
failing to create the detour or to enable it.

### Logging

The logger's program counter names what it holds: `pending_messages_mutex` in "acquires" and
"pops", `callback_mutex` from "pops" to "relocks". Messages are numbers in the order they were
pushed. `EnterGame` and `LeaveGame` are unreal functions with the function call lock held;
everything a thread does between them may be a hook's doing.

### MultiSigscan

`multi_sigscan_preprocess` (choice of the common byte, offsets) is an operator; each thread's
`std::find`, comparison, relaxed load and weak compare-and-swap (which may fail for no reason) are
steps. Images are functions from addresses, also of the bytes around the image, since comparisons
may read there.

### FunctionLocks

Per thread a stack of calls: a BoundFunction call (lock, save and set flags, process_event,
restore, unlock), a call by the game through the locking detours, or load_package. The lock is
recursive: who has it may take it again.

### CallLogging

Each read and write of `should_log_all_calls` and of the stream is a step; `std::ofstream`'s open,
close and write are modelled with their sticky failure flag. It models `preprocess_hook` after
initialisation. It shares nothing with the table of hooks, so `MCHooks` runs either the one or the
other.

### GameHooks, Startup

`GameHooks` is data: for each game the sequence of what `hook()` does, one step for each thing it
looks for. A step says what is done with it (a pointer kept, a detour, an edit, a copy, a wait)
and what happens if it is not there: a null pointer that nobody notices (`sigscan_nullable`, and
`read_offset`, which logs address 0 and returns null), an exception (`sigscan`), or a crash where
the place is read some way behind its start or what is read there is used at once (`Unchecked`: BL3's
persistent object pointers, BL4's GObjects, name pool and allocator). TPS is BL2 with the signature of one
edit in another place. BL4's debugging options are taken to be off.

`Startup` is init around these steps. Its threads are loaders (`startup_thread`, or clients that
call `init`), the game's main thread, which goes through the stages of `Stages` while the loaders
run, another game thread, and the logger as far as its mutex matters. `missing` is one thing that
this version of the game does not have, or nothing. `Suspend` to `Unhook` are the two versions of
`wait_for_steam_drm`, where ThreadSuspender stops every other thread; `EnterSystemFunction` to
`Signal` are the system function they hook. `Call`, `IsInitialized` and `UseGlobal` are a game
thread in a detour, as soon as there is one; `LoadStartup` and `CreateExport` are BL1E's bypass of
the package Startup. A crash ends the behaviour. BL4's wait for the names is what the code does and not what its comment
says: it waits while a byte is not zero (`AwaitZeroByte`). `namesByte` says what that byte is: the
flag that the game sets, or always zero or not, as the instruction it is found in ends one byte later
than `read_offset` reckons with. What the game does by itself (unpacking, setting
up its allocator, names and objects in this order, calling no unreal function before) is external.

### SharedOwnership, UnrealPointer

Every pointer belongs to one thread at a time, as with `std::shared_ptr`, and threads share
blocks. A task is the member function a thread is in: `Attach` increments the count before it
stores the pointer, `Check` and `Drop` are the two reads of `dec_ref`, `Free` destroys the object
and frees the block, whether or not the destructor throws (`Unsupported` are blocks that do).
Moves and swaps touch no count. `SharedOwnership` is the promise: a block has a set of owners and
is freed when the last one gives it up; a pointer owns its block until it has decremented the
count.

### UnrealArray

The whole allocation of an array is a sequence, its size a number: what lies behind the size stays
there, as `resize` never shrinks. Entries are strings, each with a buffer of its own, or inline
structs behind a strong reference count, which handles (WrappedInlineStruct) and entries hold.
`SetArray` sets from any other values, one entry after the other, and may throw in between.

### WeakPointers

The array of all objects, in which the game creates and collects objects. Native weak pointers
have an index and a serial number, given by `LoadSerial`, `IncrementMaster` and `SwapInSerial`,
between which another thread may do the same. The emulation compares an address and what the
object looks like. `life` is history, the identity that the code does not have.

### Delegates

`MulticastCall` is one call of a delegate on a stack of them: the copy of the parameters for all
functions but the last, and functions that bind others, clear the delegate, set it or call it.

### StructFields

The structs 1, 2, 3 are a class and its supers. `Follow` is operator++ of both iterators, `Begin`
what `fields()` and `properties()` return, and a search a step for each member looked at. All
games use the property list that the game links through a class and its supers (PROPERTYLINK); the
other iterator, which the code has for the lists of single structs, is modelled with it.

## 3. Runs

| Run | Bounds | Shows |
|---|---|---|
| `hooks` | eight hooks, two functions sharing an FName and a third in the same bucket, two types, two identifiers; one walk among four hooks of one function with all three types, or three that may be added again while their removed node is still held; for the logging three threads, one at a time turning it on or off | `LayoutIsLayered`, `SearchIsExact`, `PreprocessFindsHooked`, `UndisturbedCallsFindHooks`, `NoOwnershipCycle`, `ImplementsRegistry`, `RunsOnlyMatchingHooks`, `StandingHookIsNotSkipped`, `StandingHookRunsOnce`, `WalksEnd` |
| `hook_add_answer` | as the walk, no walk | a deviation, below |
| `hook_logging` | the same as `hooks`, two threads, opening the file may fail | a deviation, below |
| `detour` | three functions, two of them with return types not known in full, seven hooks, nesting two deep | `NativeRunsAsDecided`, `PostOnlyIfAllowed`, `CodeEndsPastArguments`, `HooksRunUnlessInjected`, `PostHooksSeeResult` |
| `detour_block` | two functions, no nesting | a deviation, below |
| `commands` | two commands, NEXT_LINE, blank lines, nesting three deep; histories of three lines out of four different ones, a ring or array as the game may leave it; every game's console with keys out of four, two of which are none | `NextLineRunsOnce`, `StandingCommandAnswers`, `RegistrationsEndWhenDue`, `HistoryShowsRecentLines`, `ReadyConsolesOpen` |
| `commands_automated` | nesting smaller | a deviation, below |
| `threads` | logging: two threads, two callbacks (three registrations), two messages, lock enabled; searching: every image of four bytes, two bytes, two patterns, two threads; locks: two threads, two functions, both locks enabled, nesting five deep, packages that call functions as they load | `StandingCallbacksSeeAll`, `DeliveredInOrder`, `CallbacksStayWhileDelivering`, `MessagesAreDelivered`; `FirstMatchesFound`, `SearchEnds`; `FlagsRestored`, `NativeWhileProcessed`, `LocksArePassedOn` |
| `objects` | two threads, three pointers, two blocks; two arrays of two entries, two handles; two weak pointers, two places, two lives; three bound functions, calls nested two deep; three structs with three members in all | `NoDanglingPointer`, `NoBlockIsLost`, `ImplementsOwnership`; `EntriesHaveReferences`; `LiveObjectsAreFound`, `OnlyItsObjectIsFound`; `UndisturbedCallsAreWhole`; `FindsMostDerived` |
| `startup` | two loaders, two game threads, every game, at most one of six things missing, the game packed, unpacked or running | `CallsSeeWholeSdk`, `SearchesUnpacked`, `StartupEnds` |
| `startup_globals` | BL1E with one loader | a deviation, below |
| `startup_names` | BL4 with one loader | a deviation, below |

Why the bounds are enough. The table's loops compare one level at a time, so two elements at each
level, with a middle one at two of them, give every position (first, inner, last, only) at every
level. A walk stands on one node; a neighbour before and behind it and its own copy cover what its
pointer can meet. Detours interact with the next frame only. Two threads reach every race between
two holders of a lock and one waiter; logging has a third, the logger. For the search, chunks of
two bytes and patterns of two and three bytes put matches inside, across and at the ends of
chunks; the proof covers all sizes. For the startup, two loaders are one that does the work and
one that waits for it or comes after it; the six things missing are one for each way to fail. Two
pointers give up the last two references while a third is copied from one of them. A ring of three
wraps around with lines entered in between, and an array of three has a first, an inner and a last
line to drop. Of three structs the middle one may be empty. Two lives at two places let an object
return to its own place or take another's. Every bound is a constant of the .cfg, and the ones
that cut behaviours off (`MaxMessages`, `MaxCallbacks`, the nesting depths, `Generation`) stand in
guards.

`threads` is run with CHECK_DEADLOCK FALSE: the logger really may stop, in the deadlock described
next, a search ends, and the two locks can be waited for in a circle. So are `commands`, as a
console is set up once, `objects`, as a search for a member ends; `detour`, as std::terminate ends
the program; and the runs of `Startup`: a crash ends the game, and an init that waits for an
executable it does not recognise, or for a byte that stays, never ends.

### Where code and documentation disagree

Six are violation runs, the findings of PROJECT.json: `add_hook` answers false for hooks it added
(`hook_add_answer`); if the file for the call log cannot be opened, no hook of any function is
found until logging is turned off (`hook_logging`); a function blocked in CallFunction runs when
its return value cannot be copied (`detour_block`); NEXT_LINE takes automated lines whose command exists
(`commands_automated`); the detours of BL1E's package loader use the globals before they are set
(`startup_globals`); BL4's init does not wait for the names, or never stops waiting
(`startup_names`).

Others the models exhibit, and their properties are worded to exclude:

- `logging.cpp:66`: the logger holds callback_mutex and waits for the function call lock; the
  holder of that lock is in a hook that adds or removes a log callback. `Deadlocked` of `Logging`;
  `MessagesAreDelivered` shows that it is the only way to lose a message.
- `hook_manager.cpp:147`: if logging is turned on during a call, its hooks may not be found (calls
  that are not `calm`); if two threads turn it on and off at once, the flag may end up set with
  the file closed, which again hides all hooks (`OneAtATime` FALSE).
- `hook_manager.cpp:141`: turning logging on twice makes the stream fail, and the file stays
  silent (`Open`).
- `game/bl1/console.cpp:178`, `game/bl1e/console.cpp:180`: the test for a key joins its halves the
  wrong way, so that Undefine counts as a key and the console cannot be opened, though
  `src/changelog.md:179` says it is overwritten (`Replaced`, `LeftUnset`).
- `game/bl4/console.cpp`: keys that are all None are kept unless a key is configured (`KeysFor`,
  `LeftUnset`).
- `game/bl4/antidebug.cpp:191`: after MinHook created a detour that it could not enable, trying
  again fails for ever, and the console counts as ready (`Detoured`, `is_console_ready`).
- `game/bl3/console.cpp:111`: one entry past the last is read; its value is overwritten, as
  `HistoryShowsRecentLines` shows, but without spare room it is past the allocation.
- `wrappers/property_proxy.h:88`: a hook's failed `set` replaces the return value by zero (`ret`
  being "zero" in `FunctionDetour`).
- `wrappers/unreal_pointer.h:196`: a return value of an unknown type, once set, ends the program when
  it is destroyed ("terminated" in `FunctionDetour`).
- `wrappers/bound_function.cpp:49`: with the function call lock off, the default, overlapping
  calls of one function leave FUNC_NATIVE set (`LockCalls` FALSE in `FunctionLocks`).
- `utils.cpp:122`: `wait_for_steam_drm` logs while the logger may be suspended with
  pending_messages_mutex held (`LogsWhileSuspended`); `StartupEnds` shows that, but for crashes,
  unknown executables and BL4's wait for the names, it is the only way for init to hang.
- `game/bl2/memory.cpp:48`, `game/bl3/globals.cpp:54`: BL2 copies GMalloc, and BL3 GNames, when
  `hook()` runs, set or not (`nullCopied`). `game/abstract_hook.h:45` wants all functions to be
  valid to call after `hook()`; that holds neither then nor for the pointers that
  `sigscan_nullable` leaves null.
- `unrealsdk_main.cpp:63`: after an init that failed, every later one fails too, as MinHook is
  initialised already (`Begin`).
- `unrealsdk_main.cpp:145`: if loading a package calls script functions, the two locks are taken in
  both orders and two threads can wait for each other (`Circle`); `LocksArePassedOn` shows that it is
  the only way for the locks to get stuck. Whether a game does call functions there the code does
  not say; with `LoadRunsFunctions` FALSE there is no circle.

### Fairness

Threads that can take a step do (weak fairness of their next step). For the two locks of
`FunctionLocks` that is all: SRW locks and critical sections promise nobody a turn, so what is shown
is that the locks are passed on, not that a given thread gets one. `Logging` assumes more, strong
fairness: who asks for callback_mutex, or the logger for the function call lock, while it is free
again and again, obtains it. Windows does not promise that: `MessagesAreDelivered` is relative to
it, and a logger that always comes too late is not excluded. Nothing is assumed of a lock that is
never free. Functions of the game and callbacks return, at each depth. The game's main thread gets
unpacked some time, however many system calls the unpacker makes (strong fairness of `Boot`);
polling may end or go on. Nothing makes clients log, call or change anything, and `WalksEnd` allows
for clients that add hooks for ever. That `add_callback` gets its turn is not claimed: the logger
gives callback_mutex back only when the queue is empty.

## 4. Proofs

For every value of the constants, TLAPS checks these theorems, each from an inductive invariant
`IInv` with the three facts Init => IInv, IInv /\ [Next]_vars => IInv', IInv => property.

- `HookTableProofs`, `HookManagerProofs`: the hook table, for any functions, names, identifiers and
  hash, with any number of calls under way. The lists keep their layout, `has_hook` and
  `preprocess_hook` find exactly what is registered, no node owns itself, calls run the hooks of
  their function and stage only, those that stay registered once each without skipping one, and
  the table implements `HookRegistry`. The argument is below.
- `FunctionDetourProofs`: the five properties of `detour`, for any functions (also without a
  return value), hooks and nesting. The properties speak of the call at the top, or of all calls,
  at certain points; the invariant says for each stage of each call on the stack what must have
  happened before it: how often the native function ran, which hooks are still owed, where the
  bytecode pointer is and what the return value holds. Without the part on the calls below the top
  the step that returns to them would say nothing.
- `HookManagerProofs`, of `CallLogging`: `UndisturbedCallsFindHooks`, for any number of threads, under the two
  assumptions that the run `hook_logging` and data races leave: the file can be opened, and
  log_all_calls runs in one thread at a time. The invariant: outside log_all_calls a flag that is
  set comes with an open stream, and a call which log_all_calls has left alone read the one and
  the other as they are, so that it has its function's name when it compares names.
- `ConsoleProofs`: of `Commands` that a NEXT_LINE command answers one line, that a line goes to
  its command or the game, and how registrations end, from the invariant that registrations are
  numbered apart and a line's state agrees with what ran for it. Of
  `ConsoleSetup` that a console which is ready opens, in every game: until it is injected the keys
  in effect are the ones that were found, and the injection is one step.
- `ThreadsProofs`, of `Logging`: mutual exclusion of the mutexes, hence that the callbacks never
  change under the logger; delivery in order, from the invariant that the queue is an increasing
  sequence above everything delivered; and `StandingCallbacksSeeAll`. For that the invariant
  (`DeliveryInv`) says of the message being delivered that everybody before the logger's place in
  the list has had it, and of every message that who has to have it is in the list; removing a
  callback keeps the others (`WithoutKeeps`), proved by counting, without induction.
- `ThreadsProofs`, of `MultiSigscan`: the search finds the first match of each pattern and nothing
  else, and results only improve. The invariant: every match whose common byte lies between a
  thread's start and its position is accounted for in the pattern's result, and every result is a
  match; the chunks cover the image, so when all threads have ended all matches are accounted for.
- `ThreadsProofs`, of `FunctionLocks`: with the lock enabled (`LockCalls`, an assumption of the theorems), flags
  are restored, stay native while needed, and calls exclude each other. The invariant describes
  the flags as what the stack of saved flags of the one thread inside says.
- `StartupProofs`: `CallsSeeWholeSdk`, for any number of threads, any games and anything missing.
  The invariant: who is within init holds init_mutex; `hook()` is over and not run again once
  hook_instance is set; a call that found it set found the mutex free, so post_init was over. And
  `SearchesUnpacked`, in every game: the invariant (`UnpackInv`) says that as long as the game is
  packed and nobody gave up waiting, a thread in `hook()` is before the first search, which in the
  games that come packed means before or in the wait, and who got past it has seen it unpacked.
- `UnrealPointerProofs`: a pointer's block is allocated, no block is lost, a count never goes
  below zero, and the count implements `SharedOwnership`. The invariant (`PointersInv`): the count
  of a block is the number of its owners, the pointers to it and the one that a task has yet to
  drop; a task has its pointers to itself; and a block that a task destroys has no owner and no
  other task.
- `ObjectsProofs`, of `WeakPointers`: a weak pointer finds its object while that lives, and no
  other. The invariant says of a pointer that nobody is assigning that it holds its object's
  number, and that numbers are fresh: one that a thread has taken from the master and not swapped
  in yet is no object's, no pointer's and no other thread's. So the thread that loses the race
  throws away a number nobody has seen, and a pointer never meets its number in a later object.
- `ObjectsProofs`, of `UnrealArray`: `EntriesHaveReferences` is inductive once the shapes of
  sizes and allocations are known (`ArraysShape`). What has to be proved is how the number of
  places with a struct changes when one array does (`EntriesChange`): `SetArray` gives up the
  references of all entries that it overwrites, also those it finds past the array's size.
- `ObjectsProofs`, of `Delegates`: `UndisturbedCallsAreWhole`, for any functions and nesting. The
  invariant says of each undisturbed call, also those that wait for an inner one, that it has
  called the entries up to its place, each in its turn.
- `ObjectsProofs`, of `StructFields`: `FindsMostDerived`, for any structs and members. The
  iterators go through exactly the members of their list, in order, and skip no struct
  (`FollowIsNext`, `BeginIsFirst`); so nothing before the iterator has the name.

### The hook table

None of the properties of the table is inductive: that searches are exact says nothing of the
sublists a promotion moves. The invariant (`IInv`, with `InOrder` for the table) is

- of all nodes alive, also the removed ones that calls hold: a link of level l leads to a hook
  that agrees with the node's own on all that the levels above l compare (`Layered`), and every
  set of nodes has one without a link into the set (`Acyclic`);
- of the nodes that the table leads to: each has a rank, the level of the one list that it is
  linked into, or 0 for the first node of a bucket (`Ranked`). A link of level l leaves a node of
  at most that rank and leads to one of exactly that rank; no two links of a level lead to the
  same node; and no two nodes of rank up to l agree on all that the levels up to l compare;
- of each call: what it holds is alive, and its node has its stage as type and the function of
  its head.

The rank is not part of the model: it exists, and every operation's proof says what it becomes.
From it follows what a search finds: along a list of level l are all nodes of rank up to l that
agree with the key above l (`HangsFromHead`, `OneList`), so one that ends without a match has
excluded every node (`SearchDescends`). `AddHookFacts` adds a node of the rank at which the search
missed. `RemoveHookFacts` takes the promotions level by level (`PromotedBelow`): only the lowest
successor of the removed node changes its rank, to that of the removed one. `Owned` drops only
what nothing leads to (`OwnedFacts`), from the reachable set being the least closed one
(`ReachIsLeast`).

That a hook which stays registered is run once and not skipped (`HooksRunOnce`,
`HooksAreNotSkipped`) needs more, since a call goes on from nodes that may be removed by now. The
invariant (`SInv`) follows `run_hooks_of_type`: from a node along the list of types up to the type
that is looked for, then along the collection (`Onward`). With x the node of the standing hook:

- while the hook is owed, that way leads to x from the head, and from the node that is run (which
  is not x) once the call is in the hook's stage (`LeadsTo`);
- once it was run, the call is in a later stage, or in the same one with the collection going on
  from its node without x (`IsPast`);
- neither the table nor what the call holds leads to an older, removed node of the same hook
  (`OnlyNode`), which would run it again.

Each is said with sets closed under the links in question, not with paths, so that a step keeps it
if such a set of the new heap gives one of the old heap: with `Lengthened` and `Unlinked`, which say
which links `add_hook` and `remove_hook` change (`AddHookStep`, `RemoveHookStep`), that is a matter
of the few links that changed (`LengthenedKeeps`, `UnlinkedKeeps`, `OwnedKeeps`). A search that
starts at `preprocess_hook`'s result establishes it (`FirstLeads`).

The recursive functions (`Visited`, `Reach`, the loop of `has_post_hooks`) are unfolded by well-founded arguments on the
acyclic heap and by their fixpoint equations, not by induction rules.

Assumptions are the named ASSUMEs of the modules, which TLC evaluates in the runs.

Only model-checked: liveness (`WalksEnd`, `MessagesAreDelivered`, `LocksArePassedOn`,
`SearchEnds`, `StartupEnds`), which is out of the prover's reach; and that `ConsoleHistory`
implements `RecentLines`. Where a proof needs induction over numbers, it takes the least counterexample
(`LeastNumber` and its like), as the provers do not handle the library's induction rules.

## 5. Not modelled

- Data races on the hook table and the command map: undefined behaviour with no useful set of
  outcomes. A command that removes itself while it runs (`commands.cpp:70`) is of this kind too,
  as are log callbacks that change the callbacks (`logging.cpp:383`), and a torn read of a
  console's output function while it is set (`game/bl2/console.cpp:275`).
- What an element of an array is when it is a struct inside it: a view that is not valid any more
  once the array was resized (`wrappers/wrapped_array.h:95`).
- Allocations that fail; a division by zero with a single hardware thread (`multi_sigscan.h:255`).
- The game's own changes to a console's history while the sdk is there.
- Marshalling of parameters, accessors of plain values and casts between property types: templates
  that keep no state.
- Iterating over all objects, the caches of objects by name, texts, and structs within structs.
- Machine code, signatures and memory layouts; text formatting, log levels, files; names,
  configuration and utilities.

What would be next: a proof that `ConsoleHistory` implements `RecentLines`, and the caches of
objects by name on top of `WeakPointers`.

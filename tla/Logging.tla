------------------------------- MODULE Logging ------------------------------
(***************************************************************************)
(* The message queue of the logging module.  Any thread logs by pushing a  *)
(* message; the logger thread takes them out and calls every callback with *)
(* each.  Two mutexes are involved, and a third where the builtin logger   *)
(* prints to the console through an unreal function, as in the BL2 family: *)
(* the function call lock, if it is enabled, is held all through an unreal *)
(* function, hooks included.                                               *)
(***************************************************************************)
EXTENDS Naturals, Sequences, FiniteSets

CONSTANTS
    Thread,         \* the threads that log
    Logger,         \* the logger thread
    Callback,       \* the log callbacks
    Builtin,        \* the builtin logger, one of them
    CallsGame,      \* the callbacks that call an unreal function
    Locking,        \* unrealsdk.locking_function_calls
    MaxMessages,    \* bound on the messages logged
    MaxCallbacks    \* bound on the callbacks registered at once

ASSUME LoggingAssumption ==
    /\ Logger \notin Thread
    /\ Builtin \in Callback
    /\ CallsGame \subseteq Callback
    /\ Locking \in BOOLEAN
    /\ MaxMessages \in Nat /\ MaxCallbacks \in Nat \ {0}

VARIABLES
    pending,        \* pending_messages, numbered in the order they were pushed
    logged,         \* the number of messages pushed
    callbacks,      \* all_log_callbacks
    logger,         \* what the logger thread is doing
    thread,         \* thread[t]: what t is doing
    game,           \* the threads inside an unreal function
    last,           \* last[c]: the last message c was called with
    standing        \* standing[m]: the callbacks registered since m was pushed

vars == <<pending, logged, callbacks, logger, thread, game, last, standing>>

Message == 1 .. MaxMessages

NoMessage == 0

(***************************************************************************)
(* The logger is "off" before init and at the top of its "loop"; "waits"   *)
(* for the condition variable; holds pending_messages_mutex and wants      *)
(* callback_mutex ("acquires"); holds both ("pops"); holds callback_mutex  *)
(* while it "delivers" msg, is in the next callback ("calls"), in a        *)
(* function called by it ("game"), and wants the other back ("relocks").   *)
(***************************************************************************)
LoggerState == [at : {"off", "loop", "waits", "acquires", "pops",
                      "delivers", "calls", "game", "relocks"},
                msg : Message \union {NoMessage}, next : 1 .. MaxCallbacks + 1]

(***************************************************************************)
(* A thread is "idle", about to "notify", or wants to "add" or "remove" a  *)
(* callback; locked: it holds callback_mutex.                              *)
(***************************************************************************)
ThreadState == [op : {"idle", "notify", "add", "remove"}, callback : Callback,
                locked : BOOLEAN]

Idle == [op |-> "idle", callback |-> Builtin, locked |-> FALSE]

PendingHeld == logger.at \in {"acquires", "pops"}

CallbacksHeldByLogger == logger.at \in {"pops", "delivers", "calls", "game", "relocks"}

CallbacksHeld == CallbacksHeldByLogger \/ \E t \in Thread : thread[t].locked

Calling == logger.at \in {"calls", "game"}

Current == callbacks[logger.next]

SetLogger(at) == logger' = [logger EXCEPT !.at = at]

MayEnterGame(t) == Locking => game \subseteq {t}

Init ==
    /\ pending = <<>> /\ logged = 0
    /\ callbacks = <<>>
    /\ logger = [at |-> "off", msg |-> NoMessage, next |-> 1]
    /\ thread = [t \in Thread |-> Idle]
    /\ game = {}
    /\ last = [c \in Callback |-> NoMessage]
    /\ standing = [m \in Message |-> {}]

-----------------------------------------------------------------------------
\* The callbacks there are, and a list with one of them removed.
Registered == {callbacks[i] : i \in DOMAIN callbacks}

Without(list, c) ==
    LET kept == {i \in DOMAIN list : list[i] # c}
    IN  [j \in 1 .. Cardinality(kept) |->
            list[CHOOSE i \in kept : Cardinality({k \in kept : k <= i}) = j]]

\* Slip: push at the end that is popped.
PushedFront(queue, msg) == <<msg>> \o queue

Pushed(queue, msg) == Append(queue, msg)

\* enqueue_log_msg, inside the mutex.
Push ==
    /\ logged < MaxMessages
    /\ ~PendingHeld
    /\ logged' = logged + 1
    /\ pending' = Pushed(pending, logged')
    /\ standing' = [standing EXCEPT ![logged'] = Registered]
    /\ UNCHANGED <<callbacks, game, last>>

\* Slip: push without notifying.
LogQuietly(t) ==
    /\ thread[t] = Idle
    /\ Push
    /\ UNCHANGED <<logger, thread>>

Log(t) ==
    /\ thread[t] = Idle
    /\ Push
    /\ thread' = [thread EXCEPT ![t].op = "notify"]
    /\ UNCHANGED logger

NotifyAll(t) ==
    /\ thread[t].op = "notify"
    /\ thread' = [thread EXCEPT ![t] = Idle]
    /\ logger' = IF logger.at = "waits" THEN [logger EXCEPT !.at = "loop"] ELSE logger
    /\ UNCHANGED <<pending, logged, callbacks, game, last, standing>>

\* A condition variable may wake on its own; the loop then looks again.
WakeSpuriously ==
    /\ logger.at = "waits"
    /\ SetLogger("loop")
    /\ UNCHANGED <<pending, logged, callbacks, thread, game, last, standing>>

(***************************************************************************)
(* Logging from a callback; the logger itself is not waiting then.         *)
(***************************************************************************)
LogFromCallback ==
    /\ Calling
    /\ Push
    /\ UNCHANGED <<logger, thread>>

(***************************************************************************)
(* init starts the logger thread first thing, and adds the builtin logger. *)
(***************************************************************************)
StartLogger(t) ==
    /\ thread[t] = Idle
    /\ logger.at = "off"
    /\ SetLogger("loop")
    /\ thread' = [thread EXCEPT ![t].op = "add"]
    /\ UNCHANGED <<pending, logged, callbacks, game, last, standing>>

WantCallbacks(t, op, c) ==
    /\ thread[t] = Idle
    /\ Len(callbacks) + Cardinality({u \in Thread : thread[u].op = "add"}) < MaxCallbacks
    /\ logger.at # "off"
    /\ c # Builtin
    /\ thread' = [thread EXCEPT ![t].op = op, ![t].callback = c]
    /\ UNCHANGED <<pending, logged, callbacks, logger, game, last, standing>>

LockCallbacks(t) ==
    /\ thread[t].op \in {"add", "remove"}
    /\ ~CallbacksHeld
    /\ thread' = [thread EXCEPT ![t].locked = TRUE]
    /\ UNCHANGED <<pending, logged, callbacks, logger, game, last, standing>>

AddCallback(t) ==
    /\ thread[t].op = "add" /\ thread[t].locked
    /\ callbacks' = Append(callbacks, thread[t].callback)
    /\ thread' = [thread EXCEPT ![t] = Idle]
    /\ UNCHANGED <<pending, logged, logger, game, last, standing>>

\* Slip: take the callback out without the mutex.
RemoveUnlocked(t) ==
    /\ thread[t].op = "remove"
    /\ callbacks' = Without(callbacks, thread[t].callback)
    /\ standing' = [m \in Message |-> standing[m] \ {thread[t].callback}]
    /\ thread' = [thread EXCEPT ![t] = Idle]
    /\ UNCHANGED <<pending, logged, logger, game, last>>

RemoveCallback(t) ==
    /\ thread[t].op = "remove" /\ thread[t].locked
    /\ callbacks' = Without(callbacks, thread[t].callback)
    /\ standing' = [m \in Message |-> standing[m] \ {thread[t].callback}]
    /\ thread' = [thread EXCEPT ![t] = Idle]
    /\ UNCHANGED <<pending, logged, logger, game, last>>

(***************************************************************************)
(* A thread calls an unreal function and gets back from it.  What it does  *)
(* in between it may do in a hook.                                         *)
(***************************************************************************)
EnterGame(t) ==
    /\ thread[t] = Idle /\ t \notin game
    /\ MayEnterGame(t)
    /\ game' = game \union {t}
    /\ UNCHANGED <<pending, logged, callbacks, logger, thread, last, standing>>

LeaveGame(t) ==
    /\ thread[t] = Idle /\ t \in game
    /\ game' = game \ {t}
    /\ UNCHANGED <<pending, logged, callbacks, logger, thread, last, standing>>

-----------------------------------------------------------------------------
(***************************************************************************)
(* logger_thread                                                           *)
(***************************************************************************)
LockPending ==
    /\ logger.at = "loop"
    /\ SetLogger(IF pending = <<>> THEN "waits" ELSE "acquires")
    /\ UNCHANGED <<pending, logged, callbacks, thread, game, last, standing>>

AcquireCallbacks ==
    /\ logger.at = "acquires"
    /\ ~CallbacksHeld
    /\ SetLogger("pops")
    /\ UNCHANGED <<pending, logged, callbacks, thread, game, last, standing>>

Pop ==
    /\ logger.at = "pops"
    /\ IF pending = <<>>
       THEN SetLogger("loop") /\ UNCHANGED pending
       ELSE /\ logger' = [at |-> "delivers", msg |-> Head(pending), next |-> 1]
            /\ pending' = Tail(pending)
    /\ UNCHANGED <<logged, callbacks, thread, game, last, standing>>

\* Slip: stop before the last callback.
DeliverAllButLast ==
    /\ logger.at = "delivers"
    /\ IF logger.next < Len(callbacks)
       THEN SetLogger("calls") /\ last' = [last EXCEPT ![Current] = logger.msg]
       ELSE SetLogger("relocks") /\ UNCHANGED last
    /\ UNCHANGED <<pending, logged, callbacks, thread, game, standing>>

DeliverOrFinish ==
    /\ logger.at = "delivers"
    /\ IF logger.next <= Len(callbacks)
       THEN SetLogger("calls") /\ last' = [last EXCEPT ![Current] = logger.msg]
       ELSE SetLogger("relocks") /\ UNCHANGED last
    /\ UNCHANGED <<pending, logged, callbacks, thread, game, standing>>

CallGame ==
    /\ logger.at = "calls"
    /\ Current \in CallsGame
    /\ MayEnterGame(Logger)
    /\ SetLogger("game")
    /\ game' = game \union {Logger}
    /\ UNCHANGED <<pending, logged, callbacks, thread, last, standing>>

CallbackReturns ==
    /\ Calling
    /\ logger.at = "calls" => Current \notin CallsGame
    /\ logger' = [logger EXCEPT !.at = "delivers", !.next = @ + 1]
    /\ game' = game \ {Logger}
    /\ UNCHANGED <<pending, logged, callbacks, thread, last, standing>>

RelockPending ==
    /\ logger.at = "relocks"
    /\ SetLogger("pops")
    /\ UNCHANGED <<pending, logged, callbacks, thread, game, last, standing>>

LoggerStep ==
    \/ LockPending \/ AcquireCallbacks \/ Pop \/ DeliverOrFinish
    \/ CallGame \/ CallbackReturns \/ RelockPending

ThreadStep(t) ==
    NotifyAll(t) \/ LockCallbacks(t) \/ AddCallback(t) \/ RemoveCallback(t)

Next ==
    \/ LoggerStep \/ WakeSpuriously \/ LogFromCallback
    \/ \E t \in Thread :
          \/ Log(t) \/ StartLogger(t) \/ ThreadStep(t)
          \/ \E op \in {"add", "remove"}, c \in Callback : WantCallbacks(t, op, c)
          \/ EnterGame(t) \/ LeaveGame(t)

Spec == Init /\ [][Next]_vars

(***************************************************************************)
(* Threads go on, and functions and callbacks return.  That a mutex which  *)
(* is free again and again is obtained at last is an assumption about the  *)
(* scheduler: Windows' locks are not fair.                                 *)
(***************************************************************************)
Fairness ==
    /\ WF_vars(LoggerStep) /\ SF_vars(AcquireCallbacks) /\ SF_vars(CallGame)
    /\ \A t \in Thread :
          WF_vars(ThreadStep(t)) /\ SF_vars(LockCallbacks(t)) /\ WF_vars(LeaveGame(t))

FairSpec == Spec /\ Fairness

-----------------------------------------------------------------------------

TypeOK ==
    /\ pending \in Seq(Message) /\ logged \in 0 .. MaxMessages
    /\ callbacks \in Seq(Callback) /\ Len(callbacks) <= MaxCallbacks
    /\ logger \in LoggerState
    /\ thread \in [Thread -> ThreadState]
    /\ game \subseteq Thread \union {Logger}
    /\ last \in [Callback -> Message \union {NoMessage}]
    /\ standing \in [Message -> SUBSET Callback]

(***************************************************************************)
(* Never two holders of a mutex: callback_mutex, and, if it is enabled,    *)
(* the function call lock.                                                 *)
(***************************************************************************)
MutualExclusion ==
    /\ \A t \in Thread : thread[t].locked =>
          ~CallbacksHeldByLogger /\ \A u \in Thread : thread[u].locked => u = t
    /\ Locking => \A t, u \in game : t = u

(***************************************************************************)
(* Callbacks get messages in the order they were pushed, whichever threads *)
(* and callbacks pushed them.                                              *)
(***************************************************************************)
DeliveredInOrder == [][\A c \in Callback : last'[c] >= last[c]]_vars

(***************************************************************************)
(* Once the logger is done with a message, every callback registered since *)
(* it was pushed has been called with it.                                  *)
(***************************************************************************)
StandingCallbacksSeeAll ==
    logger.at = "relocks" => \A c \in standing[logger.msg] : last[c] = logger.msg

(***************************************************************************)
(* The list of callbacks never changes while the logger goes through it;   *)
(* in particular, remove_callback returns only while no callback runs, so  *)
(* that its code may be unloaded.                                          *)
(***************************************************************************)
CallbacksStayWhileDelivering == [][callbacks' # callbacks => ~CallbacksHeldByLogger]_vars

(***************************************************************************)
(* The one deadlock of the logger: while it is in a callback, with         *)
(* callback_mutex, and needs the function call lock to go on, the thread   *)
(* that holds that lock waits in a hook to change the callbacks.           *)
(***************************************************************************)
Deadlocked ==
    /\ logger.at = "calls" /\ Current \in CallsGame
    /\ Locking
    /\ \E t \in game \ {Logger} : thread[t].op \in {"add", "remove"}

(***************************************************************************)
(* Once init started the logger thread, every message is delivered, if     *)
(* that deadlock does not come first: no other order of the wake-ups and   *)
(* of the three locks loses a message.                                     *)
(***************************************************************************)
MessagesAreDelivered ==
    \A m \in Message :
        logged >= m /\ logger.at # "off" ~>
            \/ logger.msg >= m /\ ~Calling /\ logger.at # "delivers"
            \/ Deadlocked
=============================================================================

---------------------------- MODULE ThreadsProofs ---------------------------
(***************************************************************************)
(* Proofs about the parts of the sdk with threads of their own and about   *)
(* the locks that all threads take.                                        *)
(*                                                                         *)
(* Logging, for any threads, callbacks and number of messages and with the *)
(* function call lock or without: mutual exclusion, that the list of       *)
(* callbacks stays put while the logger goes through it, that callbacks    *)
(* get messages in order and that none of those registered misses one.     *)
(*                                                                         *)
(* MultiSigscan.  The argument: the chunks cover the image; a match has    *)
(* the anchor at its pattern's start offset; so a thread that has passed   *)
(* the anchor has seen the match, and from then on the result is at least  *)
(* as good.                                                                *)
(*                                                                         *)
(* FunctionLocks, with the function call lock enabled.  The argument: only *)
(* one thread has frames that matter, and in its stack each call saved the *)
(* flag as the game made it, unless an outer call on the same function is  *)
(* under way, which has set it and will put it back.                       *)
(***************************************************************************)
EXTENDS Logging, MultiSigscan, FunctionLocks,
        FiniteSetTheorems, SequenceTheorems, WellFoundedInduction, TLAPS

(***************************************************************************)
(* The part of TypeOK that the proofs need.                                *)
(***************************************************************************)
Typed ==
    /\ pending \in Seq(Message) /\ logged \in 0 .. MaxMessages
    /\ logger.msg \in Message \union {NoMessage}
    /\ DOMAIN logger = {"at", "msg", "next"}
    /\ thread \in [Thread -> ThreadState]
    /\ last \in [Callback -> Message \union {NoMessage}]

(***************************************************************************)
(* callback_mutex has at most one holder, which wants to change the list.  *)
(***************************************************************************)
OneHolder ==
    \A t \in Thread : thread[t].locked =>
        /\ ~CallbacksHeldByLogger
        /\ \A u \in Thread : thread[u].locked => u = t

(***************************************************************************)
(* The queue holds increasing numbers, all of them past the message being  *)
(* delivered; no callback is ahead of that one.                            *)
(***************************************************************************)
Ordered ==
    /\ \A i \in 1 .. Len(pending) : logger.msg < pending[i] /\ pending[i] <= logged
    /\ \A i, j \in 1 .. Len(pending) : i < j => pending[i] < pending[j]
    /\ logger.msg <= logged
    /\ \A c \in Callback : last[c] <= logger.msg

GameInv == Locking => \A t, u \in game : t = u

IInv == Typed /\ OneHolder /\ Ordered /\ GameInv

-----------------------------------------------------------------------------
(***************************************************************************)
(* Appending the next number keeps the queue in order.                     *)
(***************************************************************************)
LEMMA PushStep ==
  ASSUME IInv, Push, logger' = logger, thread' \in [Thread -> ThreadState],
         \A t \in Thread : thread'[t].locked = thread[t].locked
  PROVE  IInv'
<1>1. /\ logged + 1 \in Message /\ logged' = logged + 1
      /\ pending' = Append(pending, logged + 1)
      /\ game' = game /\ last' = last
  BY LoggingAssumption DEF IInv, Typed, Push, Pushed, Message
<1>2. Typed'
  BY <1>1 DEF IInv, Typed, Message
<1>3. OneHolder'
  BY DEF IInv, OneHolder, CallbacksHeldByLogger
<1>4. Ordered'
  <2>1. Len(pending') = Len(pending) + 1 /\ Len(pending) \in Nat
    BY <1>1 DEF IInv, Typed
  <2>2. \A i \in 1 .. Len(pending') :
           pending'[i] = IF i = Len(pending) + 1 THEN logged + 1 ELSE pending[i]
    BY <1>1, <2>1 DEF IInv, Typed
  <2>3. \A i \in 1 .. Len(pending) : pending[i] \in Nat
    <3>1. \A i \in 1 .. Len(pending) : pending[i] \in Message
      BY DEF IInv, Typed
    <3>2. Message \subseteq Nat
      BY LoggingAssumption DEF Message
    <3> QED
      BY <3>1, <3>2
  <2>4. logged \in Nat /\ logger.msg \in Nat
    BY LoggingAssumption DEF IInv, Typed, Message, NoMessage
  <2> QED
    BY <1>1, <2>1, <2>2, <2>3, <2>4 DEF IInv, Ordered
<1>5. GameInv'
  BY <1>1 DEF IInv, GameInv
<1> QED
  BY <1>2, <1>3, <1>4, <1>5 DEF IInv
(***************************************************************************)
(* Popping takes the least number of the queue; the callbacks have had     *)
(* none but smaller ones.                                                  *)
(***************************************************************************)
LEMMA PopStep ==
  ASSUME IInv, Pop
  PROVE  IInv'
<1>1. CASE pending = <<>>
  BY <1>1 DEF Pop, SetLogger, IInv, Typed, OneHolder, CallbacksHeldByLogger, Ordered, GameInv
<1>2. CASE pending # <<>>
  <2>1. /\ logger' = [at |-> "delivers", msg |-> Head(pending), next |-> 1]
        /\ pending' = Tail(pending) /\ logged' = logged /\ thread' = thread
        /\ game' = game /\ last' = last /\ logger.at = "pops"
    BY <1>2 DEF Pop
  <2>2. /\ Len(pending) \in Nat \ {0} /\ Len(pending') = Len(pending) - 1
        /\ Head(pending) = pending[1] /\ pending' \in Seq(Message)
        /\ \A i \in 1 .. Len(pending') : pending'[i] = pending[i + 1]
    BY <1>2, <2>1 DEF IInv, Typed
  <2>3. /\ \A i \in 1 .. Len(pending) : pending[i] \in Message
        /\ Message \subseteq Nat
    BY LoggingAssumption DEF IInv, Typed, Message
  <2>4. logger'.msg = pending[1] /\ pending[1] \in Message /\ logger.msg < pending[1]
    BY <2>1, <2>2, <2>3 DEF IInv, Ordered
  <2>5. Typed'
    BY <2>1, <2>2, <2>4 DEF IInv, Typed
  <2>6. OneHolder'
    BY <2>1 DEF IInv, OneHolder, CallbacksHeldByLogger
  <2>7. Ordered'
    <3>1. \A i \in 1 .. Len(pending') : i + 1 \in 1 .. Len(pending) /\ 1 < i + 1
      BY <2>2
    <3>2. \A i \in 1 .. Len(pending') : logger'.msg < pending'[i] /\ pending'[i] <= logged
      BY <2>2, <2>4, <3>1 DEF IInv, Ordered
    <3>3. \A i, j \in 1 .. Len(pending') : i < j => pending'[i] < pending'[j]
      BY <2>2, <3>1 DEF IInv, Ordered
    <3>4. logger'.msg <= logged
      BY <2>2, <2>4 DEF IInv, Ordered
    <3>5. \A c \in Callback : last[c] <= logger'.msg
      <4>1. Message \union {NoMessage} \subseteq Nat
        BY LoggingAssumption DEF Message, NoMessage
      <4>2. \A c \in Callback : last[c] \in Nat /\ last[c] <= logger.msg
        BY <4>1 DEF IInv, Typed, Ordered
      <4>3. logger.msg \in Nat /\ pending[1] \in Nat
        BY <2>4, <4>1 DEF IInv, Typed
      <4> QED
        BY <2>4, <4>2, <4>3
    <3> QED
      BY <2>1, <3>2, <3>3, <3>4, <3>5 DEF Ordered
  <2>8. GameInv'
    BY <2>1 DEF IInv, GameInv
  <2> QED
    BY <2>5, <2>6, <2>7, <2>8 DEF IInv
<1> QED
  BY <1>1, <1>2

(***************************************************************************)
(* The other steps of the logger leave the queue alone, and take           *)
(* callback_mutex only while no thread has it.                             *)
(***************************************************************************)
LEMMA LoggerOK ==
  ASSUME IInv, LoggerStep \/ WakeSpuriously
  PROVE  IInv'
<1>1. CASE LockPending \/ WakeSpuriously
  BY <1>1 DEF LockPending, WakeSpuriously, SetLogger, IInv, Typed, OneHolder,
              CallbacksHeldByLogger, Ordered, GameInv
<1>2. CASE AcquireCallbacks
  BY <1>2 DEF AcquireCallbacks, SetLogger, IInv, Typed, OneHolder, CallbacksHeld,
              CallbacksHeldByLogger, Ordered, GameInv
<1>3. CASE DeliverOrFinish
  <2>1. /\ DOMAIN logger' = {"at", "msg", "next"} /\ logger'.msg = logger.msg
        /\ logger.at = "delivers" /\ pending' = pending /\ logged' = logged
        /\ thread' = thread /\ game' = game
    BY <1>3 DEF DeliverOrFinish, SetLogger, IInv, Typed
  <2>2. last' = last \/ last' = [last EXCEPT ![Current] = logger.msg]
    BY <1>3 DEF DeliverOrFinish
  <2>3. logger.msg <= logger.msg
    BY LoggingAssumption DEF IInv, Typed, Message, NoMessage
  <2>4. \A c \in Callback : last'[c] <= logger.msg
    BY <2>2, <2>3 DEF IInv, Typed, Ordered
  <2>5. Typed' /\ OneHolder'
    BY <2>1, <2>2 DEF IInv, Typed, OneHolder, CallbacksHeldByLogger
  <2> QED
    BY <2>1, <2>4, <2>5 DEF IInv, Ordered, GameInv
<1>4. CASE CallGame
  <2>1. GameInv'
    BY <1>4 DEF CallGame, MayEnterGame, IInv, GameInv
  <2> QED
    BY <1>4, <2>1 DEF CallGame, SetLogger, IInv, Typed, OneHolder, CallbacksHeldByLogger, Ordered
<1>5. CASE CallbackReturns
  BY <1>5 DEF CallbackReturns, Calling, IInv, Typed, OneHolder, CallbacksHeldByLogger,
              Ordered, GameInv
<1>6. CASE RelockPending
  BY <1>6 DEF RelockPending, SetLogger, IInv, Typed, OneHolder, CallbacksHeldByLogger,
              Ordered, GameInv
<1> QED
  BY <1>1, <1>2, <1>3, <1>4, <1>5, <1>6, PopStep DEF LoggerStep

(***************************************************************************)
(* Threads take callback_mutex only while nobody has it, and give it back  *)
(* with the change they make to the list.                                  *)
(***************************************************************************)
LEMMA ThreadOK ==
  ASSUME IInv, NEW t \in Thread,
         \/ ThreadStep(t) \/ StartLogger(t)
         \/ \E op \in {"add", "remove"}, c \in Callback : WantCallbacks(t, op, c)
         \/ EnterGame(t) \/ LeaveGame(t)
  PROVE  IInv'
<1> USE LoggingAssumption
<1> Idle \in ThreadState
  BY DEF Idle, ThreadState
<1>1. CASE NotifyAll(t)
  BY <1>1 DEF NotifyAll, Idle, IInv, Typed, OneHolder, CallbacksHeldByLogger, Ordered, GameInv
<1>2. CASE LockCallbacks(t)
  <2>1. thread' \in [Thread -> ThreadState] /\ thread' = [thread EXCEPT ![t].locked = TRUE]
    BY <1>2 DEF LockCallbacks, IInv, Typed, ThreadState
  <2>2. OneHolder'
    BY <1>2, <2>1 DEF LockCallbacks, IInv, Typed, OneHolder, CallbacksHeld,
                      CallbacksHeldByLogger, ThreadState
  <2> QED
    BY <1>2, <2>1, <2>2 DEF LockCallbacks, IInv, Typed, Ordered, GameInv
<1>3. CASE AddCallback(t) \/ RemoveCallback(t)
  <2>1. /\ thread' = [thread EXCEPT ![t] = Idle] /\ logger' = logger /\ game' = game
        /\ pending' = pending /\ logged' = logged /\ last' = last
    BY <1>3 DEF AddCallback, RemoveCallback
  <2> QED
    BY <2>1 DEF Idle, IInv, Typed, OneHolder, CallbacksHeldByLogger, Ordered, GameInv
<1>4. CASE \/ StartLogger(t)
           \/ \E op \in {"add", "remove"}, c \in Callback : WantCallbacks(t, op, c)
  <2> DEFINE NoneLocks == /\ thread' \in [Thread -> ThreadState]
                          /\ \A u \in Thread : thread'[u].locked => thread[u].locked
  <2>1. ASSUME StartLogger(t) PROVE NoneLocks
    <3>1. thread' = [thread EXCEPT ![t].op = "add"]
      BY <2>1 DEF StartLogger
    <3> QED
      BY <3>1 DEF IInv, Typed, ThreadState
  <2>2. ASSUME NEW op \in {"add", "remove"}, NEW c \in Callback, WantCallbacks(t, op, c)
        PROVE  NoneLocks
    <3>1. thread' = [thread EXCEPT ![t].op = op, ![t].callback = c]
      BY <2>2 DEF WantCallbacks
    <3>2. /\ thread' \in [Thread -> ThreadState]
          /\ \A u \in Thread : thread'[u].locked = thread[u].locked
      <4>1. op \in {"idle", "notify", "add", "remove"}
        OBVIOUS
      <4>2. thread[t] \in ThreadState /\ thread \in [Thread -> ThreadState]
        BY DEF IInv, Typed
      <4>3. [[thread[t] EXCEPT !.op = op] EXCEPT !.callback = c] \in ThreadState
        BY <4>1, <4>2 DEF ThreadState
      <4>4. \A u \in Thread :
               thread'[u] = IF u = t THEN [[thread[t] EXCEPT !.op = op] EXCEPT !.callback = c]
                                     ELSE thread[u]
        BY <3>1, <4>2 DEF ThreadState
      <4> QED
        BY <3>1, <4>2, <4>3, <4>4 DEF ThreadState
    <3> QED
      BY <3>2
  <2>3. /\ pending' = pending /\ logged' = logged /\ last' = last /\ game' = game
        /\ logger' = logger \/ (logger.at = "off" /\ logger' = [logger EXCEPT !.at = "loop"])
    BY <1>4 DEF StartLogger, WantCallbacks, SetLogger
  <2>4. NoneLocks
    BY <1>4, <2>1, <2>2
  <2> QED
    BY <2>3, <2>4 DEF IInv, Typed, OneHolder, CallbacksHeldByLogger, Ordered, GameInv
<1>5. CASE EnterGame(t) \/ LeaveGame(t)
  BY <1>5 DEF EnterGame, LeaveGame, MayEnterGame, IInv, Typed, OneHolder,
              CallbacksHeldByLogger, Ordered, GameInv
<1> QED
  BY <1>1, <1>2, <1>3, <1>4, <1>5 DEF ThreadStep

-----------------------------------------------------------------------------
(***************************************************************************)
(* The invariant: mutual exclusion and the order of the queue.             *)
(***************************************************************************)
THEOREM LoggingInvariance == Spec => []IInv
<1>1. Init => IInv
  <2> SUFFICES ASSUME Init PROVE IInv
    OBVIOUS
  <2>1. Idle \in ThreadState /\ ~Idle.locked
    BY LoggingAssumption DEF Idle, ThreadState
  <2>2. Typed
    BY <2>1, LoggingAssumption DEF Init, Typed
  <2>3. OneHolder /\ GameInv
    BY <2>1 DEF Init, OneHolder, GameInv
  <2>4. Ordered
    BY DEF Init, Ordered, NoMessage
  <2> QED
    BY <2>2, <2>3, <2>4 DEF IInv
<1>2. IInv /\ [Next]_vars => IInv'
  <2> SUFFICES ASSUME IInv, [Next]_vars PROVE IInv'
    OBVIOUS
  <2>1. CASE LoggerStep \/ WakeSpuriously
    BY <2>1, LoggerOK
  <2>2. CASE LogFromCallback
    BY <2>2, PushStep DEF LogFromCallback, IInv, Typed
  <2>3. ASSUME NEW t \in Thread, Log(t) PROVE IInv'
    <3>1. /\ thread' \in [Thread -> ThreadState] /\ Push /\ logger' = logger
          /\ \A u \in Thread : thread'[u].locked = thread[u].locked
      BY <2>3 DEF Log, IInv, Typed, ThreadState
    <3> QED
      BY <3>1, PushStep
  <2>4. CASE UNCHANGED vars
    BY <2>4 DEF vars, IInv, Typed, OneHolder, CallbacksHeldByLogger, Ordered, GameInv
  <2> QED
    BY <2>1, <2>2, <2>3, <2>4, ThreadOK DEF Next
<1> QED
  BY <1>1, <1>2, PTL DEF Spec

(***************************************************************************)
(* callback_mutex and the function call lock exclude each other's holders. *)
(***************************************************************************)
THEOREM MutexesExclude == Spec => []MutualExclusion
<1>1. IInv => MutualExclusion
  BY DEF IInv, OneHolder, GameInv, MutualExclusion
<1> QED
  BY <1>1, LoggingInvariance, PTL

(***************************************************************************)
(* add_callback and remove_callback change the list only while the logger  *)
(* thread is not going through it, so that a callback that was removed     *)
(* does not run any more.                                                  *)
(***************************************************************************)
THEOREM CallbacksStay == Spec => CallbacksStayWhileDelivering
<1>1. IInv /\ [Next]_vars => [callbacks' # callbacks => ~CallbacksHeldByLogger]_vars
  <2> SUFFICES ASSUME IInv, [Next]_vars, callbacks' # callbacks
               PROVE  ~CallbacksHeldByLogger
    OBVIOUS
  <2>1. PICK t \in Thread : AddCallback(t) \/ RemoveCallback(t)
    BY DEF Next, LoggerStep, ThreadStep, LockPending, AcquireCallbacks, Pop, DeliverOrFinish,
           CallGame, CallbackReturns, RelockPending, WakeSpuriously, LogFromCallback, Push,
           Log, StartLogger, NotifyAll, LockCallbacks, WantCallbacks, EnterGame, LeaveGame, vars
  <2>2. thread[t].locked
    BY <2>1 DEF AddCallback, RemoveCallback
  <2> QED
    BY <2>2 DEF IInv, OneHolder
<1> QED
  BY <1>1, LoggingInvariance, PTL DEF Spec, CallbacksStayWhileDelivering

(***************************************************************************)
(* Every callback gets the messages in the order they were pushed.         *)
(***************************************************************************)
THEOREM InOrder == Spec => DeliveredInOrder
<1>1. IInv /\ [Next]_vars => [\A c \in Callback : last'[c] >= last[c]]_vars
  <2> SUFFICES ASSUME IInv, [Next]_vars, NEW c \in Callback PROVE last'[c] >= last[c]
    OBVIOUS
  <2>1. last[c] \in Nat /\ logger.msg \in Nat
    BY LoggingAssumption DEF IInv, Typed, Message, NoMessage
  <2>2. last' = last \/ last' = [last EXCEPT ![Current] = logger.msg]
    BY DEF Next, LoggerStep, ThreadStep, LockPending, AcquireCallbacks, Pop, DeliverOrFinish,
           CallGame, CallbackReturns, RelockPending, WakeSpuriously, LogFromCallback, Push,
           Log, StartLogger, NotifyAll, LockCallbacks, WantCallbacks, EnterGame, LeaveGame,
           AddCallback, RemoveCallback, vars
  <2>3. last'[c] = last[c] \/ last'[c] = logger.msg
    BY <2>2 DEF IInv, Typed
  <2> QED
    BY <2>1, <2>3 DEF IInv, Ordered
<1> QED
  BY <1>1, LoggingInvariance, PTL DEF Spec, DeliveredInOrder

-----------------------------------------------------------------------------
(***************************************************************************)
(* Removing a callback keeps the others: the rank of an entry among those  *)
(* that are kept is its position in the new list, and every position is    *)
(* the rank of one.                                                        *)
(***************************************************************************)
LEMMA WithoutKeeps ==
  ASSUME NEW S, NEW list \in Seq(S), NEW c
  PROVE  /\ Without(list, c) \in Seq(S)
         /\ \A i \in 1 .. Len(list) : list[i] # c =>
               \E j \in 1 .. Len(Without(list, c)) : Without(list, c)[j] = list[i]
<1> DEFINE kept == {i \in DOMAIN list : list[i] # c}
           Upto(i) == {k \in kept : k <= i}
           n == Cardinality(kept)
           rank == [i \in kept |-> Cardinality(Upto(i))]
           Place(j) == CHOOSE i \in kept : Cardinality(Upto(i)) = j
<1>1. /\ DOMAIN list = 1 .. Len(list) /\ Len(list) \in Nat
      /\ kept \subseteq 1 .. Len(list) /\ \A i \in kept : list[i] \in S
  OBVIOUS
<1>2. IsFiniteSet(kept) /\ n \in Nat
  <2>1. IsFiniteSet(1 .. Len(list))
    BY <1>1, FS_Interval
  <2>2. IsFiniteSet(kept)
    <3> HIDE DEF kept
    <3> QED
      BY <1>1, <2>1, FS_Subset
  <2> QED
    BY <2>2, FS_CardinalityType
<1>3. \A i \in kept : IsFiniteSet(Upto(i)) /\ Cardinality(Upto(i)) \in 1 .. n
  <2> SUFFICES ASSUME NEW i \in kept
               PROVE  IsFiniteSet(Upto(i)) /\ Cardinality(Upto(i)) \in 1 .. n
    OBVIOUS
  <2>1. Upto(i) \in SUBSET kept /\ i \in Upto(i)
    BY <1>1
  <2>2. IsFiniteSet(Upto(i)) /\ Cardinality(Upto(i)) <= n
    <3> HIDE DEF kept, Upto
    <3> QED
      BY <1>2, <2>1, FS_Subset
  <2>3. Cardinality(Upto(i)) \in Nat /\ Cardinality(Upto(i)) # 0
    <3> HIDE DEF Upto
    <3> QED
      BY <2>1, <2>2, FS_CardinalityType, FS_EmptySet
  <2> QED
    BY <1>2, <2>2, <2>3
<1>4. \A i, k \in kept : i < k => Cardinality(Upto(i)) # Cardinality(Upto(k))
  <2> SUFFICES ASSUME NEW i \in kept, NEW k \in kept, i < k
               PROVE  Cardinality(Upto(i)) # Cardinality(Upto(k))
    OBVIOUS
  <2>1. Upto(i) \in SUBSET Upto(k) /\ k \in Upto(k) /\ k \notin Upto(i)
    BY <1>1
  <2> HIDE DEF Upto, kept
  <2> QED
    BY <1>3, <2>1, FS_Subset
<1>5. \A i, k \in kept : Cardinality(Upto(i)) = Cardinality(Upto(k)) => i = k
  <2>1. \A i, k \in kept : i < k \/ k < i \/ i = k
    BY <1>1
  <2> HIDE DEF Upto, kept
  <2> QED
    BY <1>4, <2>1
<1>6. \A j \in 1 .. n : \E i \in kept : Cardinality(Upto(i)) = j
  <2> HIDE DEF kept, Upto
  <2>1. rank \in Injection(kept, 1 .. n)
    BY <1>3, <1>5 DEF Injection, IsInjective
  <2>2. IsFiniteSet(1 .. n) /\ Cardinality(1 .. n) = n
    BY <1>2, FS_Interval
  <2>3. rank \in Surjection(kept, 1 .. n)
    <3> HIDE DEF rank
    <3> QED
      BY <2>1, <2>2, FS_Injection
  <2>4. \A j \in 1 .. n : \E i \in kept : rank[i] = j
    <3> HIDE DEF rank
    <3> QED
      BY <2>3 DEF Surjection
  <2> QED
    BY <2>4
<1>7. Without(list, c) = [j \in 1 .. n |-> list[Place(j)]]
  BY DEF Without
<1>8. \A j \in 1 .. n : Place(j) \in kept /\ Cardinality(Upto(Place(j))) = j
  <2> HIDE DEF kept, Upto
  <2> QED
    BY <1>6
<1>9. \A i \in kept : Place(Cardinality(Upto(i))) = i
  <2>1. \A i \in kept : Cardinality(Upto(i)) \in 1 .. n
    BY <1>3
  <2> HIDE DEF At, kept, Upto
  <2> QED
    BY <1>5, <1>8, <2>1
<1> HIDE DEF At, Upto, kept, n
<1>10. Without(list, c) \in Seq(S) /\ Len(Without(list, c)) = n
  <2>1. \A j \in 1 .. n : list[Place(j)] \in S
    BY <1>1, <1>8
  <2>2. \A f : f \in [1 .. n -> S] => f \in Seq(S) /\ Len(f) = n
    BY <1>2
  <2>3. Without(list, c) \in [1 .. n -> S]
    BY <1>7, <2>1
  <2> QED
    BY <2>2, <2>3
<1>11. \A i \in kept : Without(list, c)[Cardinality(Upto(i))] = list[i]
  BY <1>3, <1>7, <1>9
<1>12. \A i \in 1 .. Len(list) : list[i] # c => i \in kept
  BY <1>1 DEF kept
<1>13. ASSUME NEW i \in 1 .. Len(list), list[i] # c
       PROVE  \E j \in 1 .. Len(Without(list, c)) : Without(list, c)[j] = list[i]
  <2>1. i \in kept
    BY <1>12, <1>13
  <2>2. Cardinality(Upto(i)) \in 1 .. Len(Without(list, c))
    BY <1>3, <1>10, <2>1
  <2> QED
    BY <1>11, <2>1, <2>2
<1> QED
  BY <1>10, <1>13

-----------------------------------------------------------------------------
(***************************************************************************)
(* The callbacks the logger has passed were called with the message at     *)
(* hand, and those that still count as registered are in the list.         *)
(***************************************************************************)
Served(i) ==
    \/ logger.at = "delivers" /\ i < logger.next
    \/ logger.at \in {"calls", "game"} /\ i <= logger.next
    \/ logger.at = "relocks"

DeliveryInv ==
    /\ callbacks \in Seq(Callback)
    /\ logger.next \in Nat
    /\ standing \in [Message -> SUBSET Callback]
    /\ \A m \in Message : \A c \in standing[m] :
          \E i \in 1 .. Len(callbacks) : callbacks[i] = c
    /\ CallbacksHeldByLogger /\ logger.at # "pops" => logger.msg \in Message
    /\ \A i \in 1 .. Len(callbacks) : Served(i) => last[callbacks[i]] = logger.msg

(***************************************************************************)
(* The logger's own steps: each callback is called as the logger gets to   *)
(* it, and the messages to those before it were of the same number.        *)
(***************************************************************************)
LEMMA LoggerDelivers ==
  ASSUME IInv, DeliveryInv, LoggerStep \/ WakeSpuriously
  PROVE  DeliveryInv'
<1>1. callbacks' = callbacks /\ standing' = standing
  BY DEF LoggerStep, WakeSpuriously, LockPending, AcquireCallbacks, Pop, DeliverOrFinish,
         CallGame, CallbackReturns, RelockPending
<1>2. DOMAIN logger = {"at", "msg", "next"} /\ last \in [Callback -> Message \union {NoMessage}]
  BY DEF IInv, Typed
<1>3. /\ logger'.next \in Nat
      /\ (CallbacksHeldByLogger /\ logger.at # "pops" => logger.msg \in Message)'
      /\ \A i \in 1 .. Len(callbacks) : Served(i)' => last'[callbacks[i]] = logger'.msg
  <2>1. CASE LockPending \/ AcquireCallbacks \/ WakeSpuriously \/ RelockPending
    BY <1>2, <2>1 DEF LockPending, AcquireCallbacks, WakeSpuriously, RelockPending, SetLogger,
                      DeliveryInv, CallbacksHeldByLogger, Served
  <2>2. CASE Pop /\ pending = <<>>
    BY <1>2, <2>2 DEF Pop, SetLogger, DeliveryInv, CallbacksHeldByLogger, Served
  <2>3. CASE Pop /\ pending # <<>>
    <3>1. Head(pending) \in Message
      BY <2>3 DEF IInv, Typed
    <3>2. logger' = [at |-> "delivers", msg |-> Head(pending), next |-> 1]
      BY <2>3 DEF Pop
    <3> QED
      BY <3>1, <3>2 DEF CallbacksHeldByLogger, Served
  <2>4. CASE DeliverOrFinish /\ logger.next <= Len(callbacks)
    <3>1. /\ logger' = [logger EXCEPT !.at = "calls"] /\ logger.at = "delivers"
          /\ last' = [last EXCEPT ![Current] = logger.msg]
      BY <2>4 DEF DeliverOrFinish, SetLogger
    <3>2. \A i \in 1 .. Len(callbacks) : callbacks[i] \in Callback
      BY DEF DeliveryInv
    <3>3. \A i \in 1 .. Len(callbacks) : i <= logger.next => i < logger.next \/ i = logger.next
      BY DEF DeliveryInv
    <3>4. ASSUME NEW i \in 1 .. Len(callbacks), Served(i)'
          PROVE  last'[callbacks[i]] = logger'.msg
      <4>1. i <= logger.next
        BY <1>2, <3>1, <3>4 DEF Served
      <4>2. CASE i = logger.next
        BY <1>2, <3>1, <3>2, <4>2 DEF Current
      <4>3. CASE i < logger.next
        <5>1. last[callbacks[i]] = logger.msg
          BY <3>1, <4>3 DEF DeliveryInv, Served
        <5> QED
          BY <1>2, <3>1, <3>2, <5>1
      <4> QED
        BY <3>3, <4>1, <4>2, <4>3
    <3> QED
      BY <1>2, <3>1, <3>4 DEF DeliveryInv, CallbacksHeldByLogger
  <2>5. CASE DeliverOrFinish /\ ~(logger.next <= Len(callbacks))
    <3>1. /\ logger' = [logger EXCEPT !.at = "relocks"] /\ logger.at = "delivers"
          /\ last' = last
      BY <2>5 DEF DeliverOrFinish, SetLogger
    <3>2. Len(callbacks) \in Nat /\ logger.next \in Nat
      BY DEF DeliveryInv
    <3>3. \A i \in 1 .. Len(callbacks) : i < logger.next
      BY <2>5, <3>2
    <3> QED
      BY <1>2, <3>1, <3>3 DEF DeliveryInv, CallbacksHeldByLogger, Served
  <2>6. CASE CallGame
    BY <1>2, <2>6 DEF CallGame, SetLogger, DeliveryInv, CallbacksHeldByLogger, Served
  <2>7. CASE CallbackReturns
    <3>1. /\ logger' = [logger EXCEPT !.at = "delivers", !.next = logger.next + 1]
          /\ logger.at \in {"calls", "game"} /\ last' = last
      BY <2>7 DEF CallbackReturns, Calling
    <3>2. logger.next \in Nat
      BY DEF DeliveryInv
    <3>3. logger'.at = "delivers" /\ logger'.next = logger.next + 1 /\ logger'.msg = logger.msg
      BY <1>2, <3>1
    <3>4. \A i \in 1 .. Len(callbacks) : i < logger.next + 1 => i <= logger.next
      BY <3>2
    <3> QED
      BY <3>1, <3>2, <3>3, <3>4 DEF DeliveryInv, CallbacksHeldByLogger, Served
  <2> QED
    BY <2>1, <2>2, <2>3, <2>4, <2>5, <2>6, <2>7 DEF LoggerStep
<1> QED
  BY <1>1, <1>3 DEF DeliveryInv

(***************************************************************************)
(* A message counts the callbacks there are when it is pushed.             *)
(***************************************************************************)
LEMMA PushDelivers ==
  ASSUME IInv, DeliveryInv, Push, logger' = logger
  PROVE  DeliveryInv'
<1>1. /\ callbacks' = callbacks /\ last' = last
      /\ standing' = [standing EXCEPT ![logged + 1] = Registered]
  BY DEF Push
<1>2. Registered \subseteq Callback /\ Registered = {callbacks[i] : i \in 1 .. Len(callbacks)}
  BY DEF Registered, DeliveryInv
<1>3. standing' \in [Message -> SUBSET Callback]
  BY <1>1, <1>2 DEF DeliveryInv
<1>4. \A m \in Message : \A c \in standing'[m] :
         \E i \in 1 .. Len(callbacks) : callbacks[i] = c
  BY <1>1, <1>2 DEF DeliveryInv
<1> QED
  BY <1>1, <1>3, <1>4 DEF DeliveryInv, CallbacksHeldByLogger, Served

(***************************************************************************)
(* The list changes only while the logger is elsewhere; what is removed    *)
(* stops counting as registered, and nothing else is removed.              *)
(***************************************************************************)
LEMMA ThreadDelivers ==
  ASSUME IInv, DeliveryInv, NEW t \in Thread,
         \/ ThreadStep(t) \/ StartLogger(t)
         \/ \E op \in {"add", "remove"}, c \in Callback : WantCallbacks(t, op, c)
         \/ EnterGame(t) \/ LeaveGame(t)
  PROVE  DeliveryInv'
<1>1. CASE AddCallback(t) \/ RemoveCallback(t)
  <2>1. logger' = logger /\ last' = last /\ ~CallbacksHeldByLogger
    BY <1>1 DEF AddCallback, RemoveCallback, IInv, OneHolder
  <2>2. \A i : ~Served(i)'
    BY <2>1 DEF CallbacksHeldByLogger, Served
  <2>3. thread[t].callback \in Callback
    BY DEF IInv, Typed, ThreadState
  <2>4. /\ callbacks' \in Seq(Callback) /\ standing' \in [Message -> SUBSET Callback]
        /\ \A m \in Message : \A c \in standing'[m] :
              \E i \in 1 .. Len(callbacks') : callbacks'[i] = c
    <3>1. CASE AddCallback(t)
      <4>1. callbacks' = Append(callbacks, thread[t].callback) /\ standing' = standing
        BY <3>1 DEF AddCallback
      <4>2. \A i \in 1 .. Len(callbacks) :
               i \in 1 .. Len(callbacks') /\ callbacks'[i] = callbacks[i]
        BY <2>3, <4>1 DEF DeliveryInv
      <4> QED
        BY <2>3, <4>1, <4>2 DEF DeliveryInv
    <3>2. CASE RemoveCallback(t)
      <4> DEFINE gone == thread[t].callback
      <4>1. /\ callbacks' = Without(callbacks, gone)
            /\ standing' = [m \in Message |-> standing[m] \ {gone}]
        BY <3>2 DEF RemoveCallback
      <4> HIDE DEF gone
      <4>2. callbacks \in Seq(Callback) /\ standing \in [Message -> SUBSET Callback]
        BY DEF DeliveryInv
      <4>3. /\ callbacks' \in Seq(Callback)
            /\ \A i \in 1 .. Len(callbacks) : callbacks[i] # gone =>
                  \E j \in 1 .. Len(callbacks') : callbacks'[j] = callbacks[i]
        BY <4>1, <4>2, WithoutKeeps
      <4>4. ASSUME NEW m \in Message, NEW c \in standing'[m]
            PROVE  \E i \in 1 .. Len(callbacks') : callbacks'[i] = c
        <5>1. c \in standing[m] /\ c # gone
          BY <4>1, <4>4
        <5>2. PICK i \in 1 .. Len(callbacks) : callbacks[i] = c
          BY <5>1 DEF DeliveryInv
        <5> QED
          BY <4>3, <5>1, <5>2
      <4>5. standing' \in [Message -> SUBSET Callback]
        BY <4>1, <4>2
      <4> QED
        BY <4>3, <4>4, <4>5
    <3> QED
      BY <1>1, <3>1, <3>2
  <2> QED
    BY <2>1, <2>2, <2>4 DEF DeliveryInv, CallbacksHeldByLogger
<1>2. CASE \/ NotifyAll(t) \/ LockCallbacks(t) \/ StartLogger(t)
           \/ \E op \in {"add", "remove"}, c \in Callback : WantCallbacks(t, op, c)
           \/ EnterGame(t) \/ LeaveGame(t)
  <2>1. callbacks' = callbacks /\ standing' = standing /\ last' = last
    BY <1>2 DEF NotifyAll, LockCallbacks, StartLogger, WantCallbacks, EnterGame, LeaveGame
  <2>2. \/ logger' = logger
        \/ logger.at \in {"off", "waits"} /\ logger' = [logger EXCEPT !.at = "loop"]
    BY <1>2 DEF NotifyAll, LockCallbacks, StartLogger, WantCallbacks, EnterGame, LeaveGame,
                SetLogger
  <2>3. DOMAIN logger = {"at", "msg", "next"}
    BY DEF IInv, Typed
  <2> QED
    BY <2>1, <2>2, <2>3 DEF DeliveryInv, CallbacksHeldByLogger, Served
<1> QED
  BY <1>1, <1>2 DEF ThreadStep

(***************************************************************************)
(* No callback that stays registered misses a message, whatever is logged, *)
(* registered and removed meanwhile by any thread: when the logger is done *)
(* with a message, all those registered since it was pushed have had it.   *)
(***************************************************************************)
THEOREM NobodyMissesAMessage == Spec => []StandingCallbacksSeeAll
<1>1. Init => DeliveryInv
  <2> SUFFICES ASSUME Init PROVE DeliveryInv
    OBVIOUS
  <2>1. callbacks = <<>> /\ logger = [at |-> "off", msg |-> NoMessage, next |-> 1]
        /\ standing = [m \in Message |-> {}]
    BY DEF Init
  <2> QED
    BY <2>1 DEF DeliveryInv, CallbacksHeldByLogger, Served
<1>2. IInv /\ DeliveryInv /\ [Next]_vars => DeliveryInv'
  <2> SUFFICES ASSUME IInv, DeliveryInv, [Next]_vars PROVE DeliveryInv'
    OBVIOUS
  <2>1. CASE LoggerStep \/ WakeSpuriously
    BY <2>1, LoggerDelivers
  <2>2. CASE LogFromCallback \/ \E t \in Thread : Log(t)
    BY <2>2, PushDelivers DEF LogFromCallback, Log
  <2>3. CASE UNCHANGED vars
    BY <2>3 DEF vars, DeliveryInv, CallbacksHeldByLogger, Served
  <2> QED
    BY <2>1, <2>2, <2>3, ThreadDelivers DEF Next
<1>3. DeliveryInv => StandingCallbacksSeeAll
  <2> SUFFICES ASSUME DeliveryInv, logger.at = "relocks", NEW c \in standing[logger.msg]
               PROVE  last[c] = logger.msg
    BY DEF StandingCallbacksSeeAll
  <2>1. logger.msg \in Message
    BY DEF DeliveryInv, CallbacksHeldByLogger
  <2>2. PICK i \in 1 .. Len(callbacks) : callbacks[i] = c
    BY <2>1 DEF DeliveryInv
  <2> QED
    BY <2>2 DEF DeliveryInv, Served
<1> QED
  BY <1>1, <1>2, <1>3, LoggingInvariance, PTL DEF Spec

-----------------------------------------------------------------------------
\* A set of numbers that is not empty has a least one.
LEMMA NatMin ==
    ASSUME NEW S \in SUBSET Nat, S # {}
    PROVE  \E n \in S : \A m \in S : n <= m
<1> DEFINE R == OpToRel(<, Nat)
<1>1. \A m, n \in Nat : <<m, n>> \in R <=> m < n
    BY DEF OpToRel
<1>2. IsWellFoundedOn(R, Nat)
    BY NatLessThanWellFounded
<1> HIDE DEF R
<1>3. PICK n \in S : \A m \in S : ~(<<m, n>> \in R)
    BY <1>2, WFMin
<1>4. \A m \in S : ~(m < n)
    BY <1>1, <1>3
<1> QED
    BY <1>4

\* If it is bounded, it has a greatest one.
LEMMA NatMax ==
    ASSUME NEW S \in SUBSET Nat, S # {}, NEW bound \in Nat, \A m \in S : m <= bound
    PROVE  \E n \in S : \A m \in S : m <= n
<1> DEFINE T == {bound - m : m \in S}
<1>0. \A m \in S : m \in Nat /\ bound - m \in Nat
    OBVIOUS
<1>1. T \in SUBSET Nat /\ T # {}
    BY <1>0
<1>2. PICK d \in T : \A e \in T : d <= e
    <2> HIDE DEF T
    <2> QED BY <1>1, NatMin
<1>3. PICK n \in S : d = bound - n
    BY <1>2
<1>4. \A m \in S : bound - n <= bound - m
    BY <1>2, <1>3
<1>5. \A m \in S : m <= n
    BY <1>4
<1> QED
    BY <1>5

-----------------------------------------------------------------------------
(***************************************************************************)
(* The preparations                                                        *)
(***************************************************************************)
\* What the assumption says of the patterns.
LEMMA PatternFacts ==
    /\ Patterns = 1 .. Len(Pattern) /\ Len(Pattern) \in Nat \ {0}
    /\ \A p \in Patterns : Length(p) \in Nat \ {0} /\ Length(p) <= Reach
    /\ \A p \in Patterns : Offset[p] \in Nat
<1>1. Patterns = 1 .. Len(Pattern) /\ Len(Pattern) \in Nat \ {0}
    <2> DEFINE X == Seq((SUBSET Byte) \ {{}})
    <2>0. Pattern \in Seq(X)
        BY SigscanAssumption
    <2>1. Len(Pattern) \in 1 .. 255
        BY SigscanAssumption DEF MaxCount
    <2> HIDE DEF X
    <2>2. DOMAIN Pattern = 1 .. Len(Pattern)
        BY <2>0
    <2> QED
        BY <2>1, <2>2 DEF Patterns
<1>2. \A p \in Patterns : Length(p) \in Nat \ {0} /\ Length(p) <= Reach
    <2>1. Reach \in Nat /\ \A p \in Patterns : Length(p) \in 1 .. Reach
        BY SigscanAssumption
    <2> QED
        BY <2>1
<1>3. \A p \in Patterns : Offset[p] \in Nat
    BY SigscanAssumption
<1> QED
    BY <1>1, <1>2, <1>3

\* The uses of a byte can be counted.
LEMMA CountType == \A b : Count(b) \in Nat
<1> SUFFICES ASSUME NEW b PROVE Count(b) \in Nat
    OBVIOUS
<1> DEFINE All == Patterns \X (1 .. Reach)
           Those == {at \in All : at[2] <= Length(at[1]) /\ Requires(at[1], at[2], b)}
<1>1. IsFiniteSet(Patterns) /\ IsFiniteSet(1 .. Reach)
    BY PatternFacts, SigscanAssumption, FS_Interval
<1>2. IsFiniteSet(All)
    BY <1>1, FS_Product
<1>3. Those \in SUBSET All
    OBVIOUS
<1>4. Cardinality(Those) \in Nat
    <2> HIDE DEF All, Those
    <2> QED BY <1>2, <1>3, FS_Subset, FS_CardinalityType
<1>5. Uses(b) \in Nat
    BY <1>4 DEF Uses
<1>6. \E x \in {Uses(b), MaxCount} : \A y \in {Uses(b), MaxCount} : x <= y
    BY <1>5, NatMin DEF MaxCount
<1>7. Min({Uses(b), MaxCount}) \in {Uses(b), MaxCount}
    BY <1>6 DEF Min
<1> QED
    BY <1>5, <1>7 DEF Count, MaxCount

\* multi_sigscan_preprocess finds a byte of all patterns.
LEMMA AnchorInAll == Anchor \in Byte /\ InAll(Anchor)
<1> DEFINE S == {b \in Byte : InAll(b)}
           Counts == {Count(b) : b \in S}
<1>1. Counts \in SUBSET Nat /\ Counts # {}
    BY CountType, SigscanAssumption
<1>2. PICK n \in Counts : \A k \in Counts : n <= k
    <2> HIDE DEF Counts
    <2> QED BY <1>1, NatMin
<1> DEFINE Rarest == {b \in S : Count(b) = n}
<1>3. Rarest \in SUBSET Nat /\ Rarest # {}
    BY <1>2, SigscanAssumption
<1>4. PICK b \in Rarest : \A c \in Rarest : b <= c
    <2> HIDE DEF Rarest
    <2> QED BY <1>3, NatMin
<1>5. ASSUME NEW c \in Byte, InAll(c)
      PROVE  Count(b) < Count(c) \/ (Count(b) = Count(c) /\ b <= c)
    <2>1. n <= Count(c) /\ n \in Nat /\ Count(c) \in Nat
        BY <1>1, <1>2, <1>5
    <2>2. Count(b) = n
        BY <1>4
    <2>3. CASE Count(c) = n
        BY <2>2, <2>3, <1>4, <1>5
    <2>4. CASE n < Count(c)
        BY <2>2, <2>4
    <2> QED
        BY <2>1, <2>3, <2>4
<1>6. b \in Byte /\ InAll(b)
    BY <1>4
<1>7. \E x \in Byte : /\ InAll(x)
                      /\ \A c \in Byte : InAll(c) => Count(x) < Count(c) \/ (Count(x) = Count(c) /\ x <= c)
    BY <1>5, <1>6
<1> QED
    BY <1>7 DEF Anchor

\* The anchor lies at the start offset of every pattern.
LEMMA StartOffsetHolds ==
    ASSUME NEW p \in Patterns
    PROVE  /\ StartOffset(p) \in Nat /\ StartOffset(p) < Length(p)
           /\ Requires(p, StartOffset(p) + 1, Anchor)
<1> DEFINE S == {i \in 0 .. Length(p) - 1 : Requires(p, i + 1, Anchor)}
<1>1. PICK i \in 1 .. Length(p) : Requires(p, i, Anchor)
    BY AnchorInAll DEF InAll
<1>2. i - 1 \in 0 .. Length(p) - 1 /\ i - 1 + 1 = i
    BY <1>1, PatternFacts
<1>3. S \in SUBSET Nat /\ S # {}
    BY <1>1, <1>2
<1>4. PICK k \in S : \A j \in S : k <= j
    <2> HIDE DEF S
    <2> QED BY <1>3, NatMin
<1>5. \A j \in 0 .. k - 1 : ~Requires(p, j + 1, Anchor)
    <2> SUFFICES ASSUME NEW j \in 0 .. k - 1, Requires(p, j + 1, Anchor) PROVE FALSE
        OBVIOUS
    <2>1. j \in 0 .. Length(p) - 1 /\ j < k
        BY <1>4, PatternFacts
    <2> QED
        BY <2>1, <1>4
<1>6. StartOffset(p) \in 0 .. Length(p) - 1 /\ Requires(p, StartOffset(p) + 1, Anchor)
    BY <1>4, <1>5 DEF StartOffset
<1> QED
    BY <1>6, PatternFacts

\* Chunks are not empty, and never end before they should.
LEMMA ChunkFacts ==
    /\ Chunk \in Nat \ {0}
    /\ Overscan \in Nat
<1>1. Chunk \in Nat \ {0}
    <2>1. NumThreads \in Nat \ {0}
        BY SigscanAssumption DEF NumThreads
    <2>2. Size \div NumThreads \in Nat
        <3>1. \A a \in Nat, b \in Nat \ {0} : a \div b \in Nat
            OBVIOUS
        <3>2. Size \in Nat
            BY SigscanAssumption
        <3> QED
            BY <2>1, <3>1, <3>2
    <2> DEFINE S == {Size \div NumThreads, MinChunk}
    <2>3. \E x \in S : \A y \in S : x >= y
        BY <2>2, SigscanAssumption
    <2>4. Max(S) \in S /\ \A y \in S : Max(S) >= y
        <3> HIDE DEF S
        <3> QED BY <2>3 DEF Max
    <2> QED
        BY <2>2, <2>4, SigscanAssumption DEF Chunk
<1>2. Overscan \in Nat
    <2> DEFINE S == {Length(p) - StartOffset(p) - 1 : p \in Patterns}
    <2>1. ASSUME NEW p \in Patterns
          PROVE  /\ Length(p) - StartOffset(p) - 1 \in Nat
                 /\ Length(p) - StartOffset(p) - 1 <= Reach
        <3>1. Length(p) \in Nat \ {0} /\ Length(p) <= Reach
            BY PatternFacts
        <3>2. StartOffset(p) \in Nat /\ StartOffset(p) < Length(p)
            BY StartOffsetHolds
        <3>3. Reach \in Nat
            BY SigscanAssumption
        <3> QED
            BY <3>1, <3>2, <3>3
    <2>2. S \in SUBSET Nat
        BY <2>1
    <2>3. S # {} /\ \A m \in S : m <= Reach
        BY <2>1, PatternFacts
    <2>4. \E x \in S : \A y \in S : y <= x
        <3> HIDE DEF S
        <3> QED BY <2>2, <2>3, NatMax, SigscanAssumption
    <2>5. \E x \in S : \A y \in S : x >= y
        BY <2>2, <2>4
    <2>6. Max(S) \in S
        <3> HIDE DEF S
        <3> QED BY <2>5 DEF Max
    <2> QED
        BY <2>2, <2>6 DEF Overscan
<1> QED
    BY <1>1, <1>2

\* Threads stay within the image and look at all of their chunk.
LEMMA BoundsFacts ==
    ASSUME NEW t \in Searcher
    PROVE  /\ ChunkBegin(t) \in Nat /\ ChunkEnd(t) \in Nat
           /\ Reach + 1 <= ChunkBegin(t) /\ ChunkBegin(t) <= ChunkEnd(t) /\ ChunkEnd(t) <= Reach + Size + 1
           /\ \A a \in Image : a < ChunkBegin(t) + Chunk => a < ChunkEnd(t)
<1>1. t \in Nat /\ t * Chunk \in Nat /\ t * Chunk < Size
    BY ChunkFacts, SigscanAssumption DEF Searcher
<1>2. ChunkBegin(t) \in Nat /\ Reach + 1 <= ChunkBegin(t) /\ ChunkBegin(t) < Reach + Size + 1
    BY <1>1, SigscanAssumption DEF ChunkBegin
<1> DEFINE S == {ChunkBegin(t) + Chunk + Overscan, Reach + Size + 1}
<1>3. ChunkBegin(t) + Chunk + Overscan \in Nat /\ ChunkBegin(t) + Chunk <= ChunkBegin(t) + Chunk + Overscan
      /\ ChunkBegin(t) < ChunkBegin(t) + Chunk + Overscan
    BY <1>2, ChunkFacts
<1>4. Reach + Size + 1 \in Nat
    BY SigscanAssumption
<1>5. \E x \in S : \A y \in S : x <= y
    BY <1>3, <1>4
<1>6. Min(S) \in S /\ \A y \in S : Min(S) <= y
    <2> HIDE DEF S
    <2> QED BY <1>5 DEF Min
<1>7. ChunkEnd(t) \in S /\ ChunkEnd(t) <= Reach + Size + 1
    BY <1>6 DEF ChunkEnd
<1>8. \A a \in Image : a < ChunkBegin(t) + Chunk => a < ChunkEnd(t)
    <2> SUFFICES ASSUME NEW a \in Image, a < ChunkBegin(t) + Chunk PROVE a < ChunkEnd(t)
        OBVIOUS
    <2>1. a \in Nat /\ a < Reach + Size + 1
        BY SigscanAssumption DEF Image
    <2> QED
        BY <1>2, <1>3, <1>7, <2>1, ChunkFacts
<1> QED
    BY <1>2, <1>3, <1>4, <1>7, <1>8

\* Every address of the image is some searcher's to look at.
LEMMA ChunksCover ==
    ASSUME NEW a \in Image
    PROVE  \E t \in Searcher : ChunkBegin(t) <= a /\ a < ChunkEnd(t)
<1> DEFINE x == a - (Reach + 1)
           S == {k \in Nat : x < (k + 1) * Chunk}
<1>1. a \in Nat /\ x \in Nat /\ x < Size /\ a = x + (Reach + 1)
    BY SigscanAssumption DEF Image
<1> HIDE DEF x
<1>2. x < (x + 1) * Chunk
    <2>1. (x + 1) * Chunk = (x + 1) * (Chunk - 1) + (x + 1)
        BY <1>1, ChunkFacts
    <2>2. (x + 1) * (Chunk - 1) \in Nat
        BY <1>1, ChunkFacts
    <2> QED
        BY <1>1, <2>1, <2>2
<1>3. S \in SUBSET Nat /\ S # {}
    BY <1>1, <1>2
<1>4. PICK t \in S : \A k \in S : t <= k
    <2> HIDE DEF S
    <2> QED BY <1>3, NatMin
<1>5. t \in Nat /\ x < (t + 1) * Chunk
    BY <1>4
<1>6. t * Chunk \in Nat /\ t * Chunk <= x
    <2>1. t * Chunk \in Nat
        BY <1>5, ChunkFacts
    <2>2. CASE t = 0
        BY <2>2, <1>1, ChunkFacts
    <2>3. CASE t # 0
        <3>1. t - 1 \in Nat /\ t - 1 + 1 = t /\ ~(t <= t - 1)
            BY <1>5, <2>3
        <3>2. ~(x < (t - 1 + 1) * Chunk)
            BY <3>1, <1>4
        <3> QED
            BY <3>1, <3>2, <2>1, <1>1
    <2> QED
        BY <2>1, <2>2, <2>3
<1>7. t <= t * Chunk
    <2>1. t * Chunk = t * (Chunk - 1) + t /\ t * (Chunk - 1) \in Nat
        BY <1>5, ChunkFacts
    <2> QED
        BY <2>1, <1>5
<1>8. t \in Searcher
    BY <1>1, <1>5, <1>6, <1>7, SigscanAssumption DEF Searcher
<1>9. (t + 1) * Chunk = t * Chunk + Chunk
    BY <1>5, ChunkFacts
<1>10. ChunkBegin(t) <= a /\ a < ChunkBegin(t) + Chunk
    BY <1>1, <1>5, <1>6, <1>9, ChunkFacts, SigscanAssumption DEF ChunkBegin
<1> QED
    BY <1>8, <1>10, BoundsFacts

-----------------------------------------------------------------------------
(***************************************************************************)
(* The search                                                              *)
(***************************************************************************)

\* A match has the anchor where its start offset says.
LEMMA MatchHasAnchor ==
    ASSUME NEW p \in Patterns, NEW s \in Nat, MatchesAt(p, s)
    PROVE  memory[s + StartOffset(p)] = Anchor
<1>1. StartOffset(p) + 1 \in 1 .. Length(p) /\ s + (StartOffset(p) + 1) - 1 = s + StartOffset(p)
    BY StartOffsetHolds, PatternFacts
<1>2. memory[s + (StartOffset(p) + 1) - 1] \in Pattern[p][StartOffset(p) + 1]
    BY <1>1 DEF MatchesAt
<1> QED
    BY <1>1, <1>2, StartOffsetHolds DEF Requires

(***************************************************************************)
(* What holds of a thread: between pos and the anchor it found, or, in the *)
(* end, the end of its chunk, there is no other anchor, and what it is     *)
(* about to swap in is a match.                                            *)
(***************************************************************************)
AtAnchor(t) == searcher[t].at \in {"compare", "swap"}

NoAnchor(from, to) == \A a \in Nat : from <= a /\ a < to => memory[a] # Anchor

ThreadInv(t) ==
    /\ ChunkBegin(t) <= searcher[t].pos /\ searcher[t].pos <= ChunkEnd(t)
    /\ AtAnchor(t) =>
          /\ searcher[t].pos <= searcher[t].anchor /\ searcher[t].anchor < ChunkEnd(t)
          /\ NoAnchor(searcher[t].pos, searcher[t].anchor)
          /\ searcher[t].p \in 1 .. Len(Pattern) + 1
    /\ searcher[t].at = "swap" => searcher[t].p \in Patterns /\ MatchesAt(searcher[t].p, SigStart(t))
    /\ searcher[t].at = "done" => NoAnchor(searcher[t].pos, ChunkEnd(t))

\* Searcher t has compared pattern p around the anchor at a.
Passed(t, p, a) ==
    /\ ChunkBegin(t) <= a
    /\ \/ a < searcher[t].pos
       \/ AtAnchor(t) /\ a = searcher[t].anchor /\ p < searcher[t].p

\* The result of p is no worse than that of the match at s.
Accounted(p, s) == result[p] # 0 /\ result[p] <= s + Offset[p]

Genuine(p) == result[p] # 0 => \E s \in MatchesOf(p) : result[p] = s + Offset[p]

PassedAccounted(t, p) ==
    \A s \in MatchesOf(p) : Passed(t, p, s + StartOffset(p)) => Accounted(p, s)

Inv ==
    /\ SearchTypeOK
    /\ \A t \in Searcher : ThreadInv(t)
    /\ \A p \in Patterns : Genuine(p)
    /\ \A t \in Searcher, p \in Patterns : PassedAccounted(t, p)

\* A match at a searcher's anchor is one of those the search is for.
LEMMA SigStartFacts ==
    ASSUME SearchTypeOK, NEW t \in Searcher, ThreadInv(t), AtAnchor(t), searcher[t].p \in Patterns
    PROVE  /\ SigStart(t) \in Readable /\ SigStart(t) \in Nat \ {0}
           /\ SigStart(t) + StartOffset(searcher[t].p) = searcher[t].anchor
           /\ searcher[t].anchor \in Image
<1> DEFINE k == StartOffset(searcher[t].p)
<1>1. searcher[t].anchor \in Nat /\ searcher[t].pos \in Nat
    BY DEF SearchTypeOK, SearcherState
<1>2. ChunkBegin(t) <= searcher[t].anchor /\ searcher[t].anchor < ChunkEnd(t)
    BY <1>1, BoundsFacts DEF ThreadInv
<1>3. Reach + 1 <= searcher[t].anchor /\ searcher[t].anchor <= Reach + Size
    <2>1. /\ Reach + 1 <= ChunkBegin(t) /\ ChunkEnd(t) <= Reach + Size + 1
          /\ ChunkBegin(t) \in Nat /\ ChunkEnd(t) \in Nat
        BY BoundsFacts
    <2>2. Reach \in Nat /\ Size \in Nat
        BY SigscanAssumption
    <2> QED
        BY <1>1, <1>2, <2>1, <2>2
<1>4. k \in Nat /\ k < Reach
    <2>1. ASSUME NEW p \in Patterns
          PROVE  StartOffset(p) \in Nat /\ StartOffset(p) < Reach
        BY StartOffsetHolds, PatternFacts, SigscanAssumption
    <2> QED
        BY <2>1
<1>5. SigStart(t) = searcher[t].anchor - k
    BY DEF SigStart
<1> HIDE DEF k
<1>6. SigStart(t) + k = searcher[t].anchor /\ SigStart(t) \in 1 .. Size + 2 * Reach
    <2> DEFINE a == searcher[t].anchor
    <2>1. a \in Nat /\ Reach + 1 <= a /\ a <= Reach + Size /\ SigStart(t) = a - k
        BY <1>1, <1>3, <1>5
    <2> HIDE DEF a
    <2>2. Reach \in Nat /\ Size \in Nat
        BY SigscanAssumption
    <2>3. a - k + k = a /\ a - k \in 1 .. Size + 2 * Reach
        BY <2>1, <2>2, <1>4
    <2> QED
        BY <2>1, <2>3 DEF a
<1>7. searcher[t].anchor \in Image
    BY <1>1, <1>3, SigscanAssumption DEF Image
<1> QED
    BY <1>6, <1>7 DEF k, Readable

\* Before the first step no address has been passed.
LEMMA InvInit == SearchInit => Inv
<1> SUFFICES ASSUME SearchInit PROVE Inv
    OBVIOUS
<1>1. SearchTypeOK
    <2>1. result \in [Patterns -> Nat]
        BY DEF SearchInit
    <2>2. ASSUME NEW t \in Searcher
          PROVE  [at |-> "find", pos |-> ChunkBegin(t), anchor |-> ChunkBegin(t), p |-> 1, old |-> 0] \in SearcherState
        BY BoundsFacts DEF SearcherState
    <2>3. searcher \in [Searcher -> SearcherState]
        BY <2>2 DEF SearchInit
    <2> QED
        BY <2>1, <2>3 DEF SearchInit, SearchTypeOK
<1>2. \A t \in Searcher : searcher[t].at = "find" /\ searcher[t].pos = ChunkBegin(t)
    BY DEF SearchInit
<1>3. \A t \in Searcher : ThreadInv(t)
    BY <1>2, BoundsFacts DEF ThreadInv, AtAnchor
<1>4. \A p \in Patterns : Genuine(p)
    BY DEF SearchInit, Genuine
<1>5. ASSUME NEW t \in Searcher, NEW p \in Patterns
      PROVE  PassedAccounted(t, p)
    <2> SUFFICES ASSUME NEW s \in MatchesOf(p), Passed(t, p, s + StartOffset(p)) PROVE FALSE
        BY DEF PassedAccounted
    <2>1. s + StartOffset(p) \in Nat
        BY StartOffsetHolds, SigscanAssumption DEF MatchesOf, Readable
    <2> QED
        BY <1>2, <2>1, BoundsFacts DEF Passed, AtAnchor
<1> QED
    BY <1>1, <1>3, <1>4, <1>5 DEF Inv

-----------------------------------------------------------------------------
\* As the image does not change, neither does what matches.
LEMMA MatchesStay ==
    ASSUME UNCHANGED memory
    PROVE  /\ \A p \in Patterns : MatchesOf(p)' = MatchesOf(p)
           /\ \A p, s : MatchesAt(p, s)' <=> MatchesAt(p, s)
           /\ \A from, to : NoAnchor(from, to)' <=> NoAnchor(from, to)
    BY DEF MatchesOf, MatchesAt, NoAnchor

\* A step of t keeps the invariant if it does so for t and does not worsen a result.
LEMMA StepOfOne ==
    ASSUME Inv, SearchTypeOK', UNCHANGED memory, NEW t \in Searcher,
           \A u \in Searcher : u # t => searcher'[u] = searcher[u],
           \A p \in Patterns : \A s \in MatchesOf(p) : Accounted(p, s) => Accounted(p, s)',
           ThreadInv(t)',
           \A p \in Patterns : Genuine(p)',
           \A p \in Patterns : PassedAccounted(t, p)'
    PROVE  Inv'
<1>1. ASSUME NEW u \in Searcher, u # t
      PROVE  ThreadInv(u)' /\ \A p \in Patterns : PassedAccounted(u, p)'
    <2>1. searcher'[u] = searcher[u] /\ ThreadInv(u) /\ \A p \in Patterns : PassedAccounted(u, p)
        BY <1>1 DEF Inv
    <2>2. ThreadInv(u)'
        BY <2>1, MatchesStay DEF ThreadInv, AtAnchor, SigStart
    <2>3. ASSUME NEW p \in Patterns
          PROVE  PassedAccounted(u, p)'
        <3>1. \A a : Passed(u, p, a)' <=> Passed(u, p, a)
            BY <2>1 DEF Passed, AtAnchor
        <3> QED
            BY <2>1, <3>1, MatchesStay DEF PassedAccounted
    <2> QED
        BY <2>2, <2>3
<1>2. \A u \in Searcher : ThreadInv(u)' /\ \A p \in Patterns : PassedAccounted(u, p)'
    BY <1>1
<1> QED
    BY <1>2 DEF Inv

\* What a step that leaves the results alone does not change.
LEMMA ResultsStay ==
    ASSUME Inv, UNCHANGED <<memory, result>>
    PROVE  /\ \A p \in Patterns : \A s \in MatchesOf(p) : Accounted(p, s) <=> Accounted(p, s)'
           /\ \A p \in Patterns : Genuine(p)'
    BY MatchesStay DEF Inv, Genuine, Accounted

\* One lemma per step of multi_sigscan_thread.  std::find passes no anchor.
LEMMA FindKeepsInv ==
    ASSUME Inv, NEW t \in Searcher, Find(t)
    PROVE  Inv'
<1> DEFINE found == {a \in searcher[t].pos .. ChunkEnd(t) - 1 : memory[a] = Anchor}
<1>1. /\ SearchTypeOK /\ ThreadInv(t) /\ searcher[t] \in SearcherState /\ searcher[t].pos \in Nat
      /\ searcher[t].at = "find" /\ UNCHANGED <<memory, result>> /\ ChunkEnd(t) \in Nat
    BY BoundsFacts DEF Inv, SearchTypeOK, SearcherState, Find
<1>2. found \in SUBSET Nat
    BY <1>1
<1>3. CASE found = {}
    <2>1. searcher' = [searcher EXCEPT ![t] = [searcher[t] EXCEPT !.at = "done"]]
        BY <1>3 DEF Find
    <2>2. [searcher[t] EXCEPT !.at = "done"] \in SearcherState
        BY <1>1 DEF SearcherState
    <2>3. SearchTypeOK'
        BY <1>1, <2>1, <2>2 DEF SearchTypeOK
    <2>4. \A u \in Searcher : u # t => searcher'[u] = searcher[u]
        BY <1>1, <2>1 DEF SearchTypeOK
    <2>5. searcher'[t].at = "done" /\ searcher'[t].pos = searcher[t].pos
        BY <1>1, <2>1, <2>2 DEF SearchTypeOK, SearcherState
    <2>6. NoAnchor(searcher[t].pos, ChunkEnd(t))
        BY <1>1, <1>3 DEF NoAnchor
    <2>7. ThreadInv(t)'
        BY <1>1, <2>5, <2>6, MatchesStay DEF ThreadInv, AtAnchor
    <2>8. ASSUME NEW p \in Patterns PROVE PassedAccounted(t, p)'
        <3>1. \A a : Passed(t, p, a)' => Passed(t, p, a)
            BY <2>5 DEF Passed, AtAnchor
        <3> QED
            BY <1>1, <3>1, MatchesStay, ResultsStay DEF PassedAccounted, Inv
    <2> QED
        BY <1>1, <2>3, <2>4, <2>7, <2>8, ResultsStay, StepOfOne
<1>4. CASE found # {}
    <2>1. PICK a \in found : \A b \in found : a <= b
        <3> HIDE DEF found
        <3> QED BY <1>2, <1>4, NatMin
    <2>2. Min(found) \in found /\ \A b \in found : Min(found) <= b
        <3> HIDE DEF found
        <3> QED BY <2>1 DEF Min
    <2> DEFINE m == Min(found)
    <2>3. searcher' = [searcher EXCEPT ![t] = [searcher[t] EXCEPT !.at = "compare", !.anchor = m, !.p = 1]]
        BY <1>4 DEF Find
    <2>4. m \in Nat /\ searcher[t].pos <= m /\ m < ChunkEnd(t)
        BY <1>1, <2>2
    <2>5. NoAnchor(searcher[t].pos, m)
        <3> SUFFICES ASSUME NEW b \in Nat, searcher[t].pos <= b, b < m, memory[b] = Anchor PROVE FALSE
            BY DEF NoAnchor
        <3>1. b \in found
            BY <1>1, <2>4
        <3>2. m <= b
            <4> HIDE DEF found
            <4> QED BY <2>2, <3>1
        <3> HIDE DEF m
        <3> QED
            BY <2>4, <3>2
    <2> HIDE DEF m, found
    <2>6. [searcher[t] EXCEPT !.at = "compare", !.anchor = m, !.p = 1] \in SearcherState
        BY <1>1, <2>4 DEF SearcherState
    <2>7. SearchTypeOK'
        BY <1>1, <2>3, <2>6 DEF SearchTypeOK
    <2>8. \A u \in Searcher : u # t => searcher'[u] = searcher[u]
        BY <1>1, <2>3 DEF SearchTypeOK
    <2>9. /\ searcher'[t].at = "compare" /\ searcher'[t].pos = searcher[t].pos
          /\ searcher'[t].anchor = m /\ searcher'[t].p = 1
        BY <1>1, <2>3, <2>6 DEF SearchTypeOK, SearcherState
    <2>10. ThreadInv(t)'
        BY <1>1, <2>4, <2>5, <2>9, MatchesStay, PatternFacts DEF ThreadInv, AtAnchor
    <2>11. ASSUME NEW p \in Patterns PROVE PassedAccounted(t, p)'
        <3>1. p \in Nat /\ ~(p < 1)
            BY PatternFacts
        <3>2. \A b : Passed(t, p, b)' => Passed(t, p, b)
            BY <2>9, <3>1 DEF Passed, AtAnchor
        <3> QED
            BY <1>1, <3>2, MatchesStay, ResultsStay DEF PassedAccounted, Inv
    <2> QED
        BY <1>1, <2>7, <2>8, <2>10, <2>11, ResultsStay, StepOfOne
<1> QED
    BY <1>3, <1>4

\* A pattern that does not match here has no match with this anchor.
LEMMA CompareKeepsInv ==
    ASSUME Inv, NEW t \in Searcher, Compare(t)
    PROVE  Inv'
<1> DEFINE q == searcher[t].p
<1>1. /\ SearchTypeOK /\ ThreadInv(t) /\ searcher[t] \in SearcherState /\ q \in Nat
      /\ searcher[t].at = "compare" /\ q \in Patterns /\ UNCHANGED <<memory, result>>
    BY DEF Inv, SearchTypeOK, SearcherState, Compare
<1>2. CASE MatchesAt(q, SigStart(t))
    <2>1. searcher' = [searcher EXCEPT ![t] = [searcher[t] EXCEPT !.at = "swap", !.old = result[q]]]
        BY <1>2 DEF Compare
    <2>2. result[q] \in Nat
        BY <1>1 DEF SearchTypeOK
    <2>3. [searcher[t] EXCEPT !.at = "swap", !.old = result[q]] \in SearcherState
        BY <1>1, <2>2 DEF SearcherState
    <2>4. SearchTypeOK'
        BY <1>1, <2>1, <2>3 DEF SearchTypeOK
    <2>5. \A u \in Searcher : u # t => searcher'[u] = searcher[u]
        BY <1>1, <2>1 DEF SearchTypeOK
    <2>6. /\ searcher'[t].at = "swap" /\ searcher'[t].pos = searcher[t].pos
          /\ searcher'[t].anchor = searcher[t].anchor /\ searcher'[t].p = searcher[t].p
        BY <1>1, <2>1, <2>3 DEF SearchTypeOK, SearcherState
    <2>7. ThreadInv(t)'
        BY <1>1, <1>2, <2>6, MatchesStay DEF ThreadInv, AtAnchor, SigStart
    <2>8. ASSUME NEW p \in Patterns PROVE PassedAccounted(t, p)'
        <3>1. \A a : Passed(t, p, a)' => Passed(t, p, a)
            BY <1>1, <2>6 DEF Passed, AtAnchor
        <3> QED
            BY <1>1, <3>1, MatchesStay, ResultsStay DEF PassedAccounted, Inv
    <2> QED
        BY <1>1, <2>4, <2>5, <2>7, <2>8, ResultsStay, StepOfOne
<1>3. CASE ~MatchesAt(q, SigStart(t))
    <2>1. searcher' = [searcher EXCEPT ![t] = [searcher[t] EXCEPT !.p = q + 1]]
        BY <1>3 DEF Compare
    <2>2. q + 1 \in Nat /\ q + 1 \in 1 .. Len(Pattern) + 1
        BY <1>1, PatternFacts
    <2>3. [searcher[t] EXCEPT !.p = q + 1] \in SearcherState
        BY <1>1, <2>2 DEF SearcherState
    <2>4. SearchTypeOK'
        BY <1>1, <2>1, <2>3 DEF SearchTypeOK
    <2>5. \A u \in Searcher : u # t => searcher'[u] = searcher[u]
        BY <1>1, <2>1 DEF SearchTypeOK
    <2>6. /\ searcher'[t].at = "compare" /\ searcher'[t].pos = searcher[t].pos
          /\ searcher'[t].anchor = searcher[t].anchor /\ searcher'[t].p = q + 1
        BY <1>1, <2>1, <2>3 DEF SearchTypeOK, SearcherState
    <2>7. ThreadInv(t)'
        BY <1>1, <2>2, <2>6, MatchesStay DEF ThreadInv, AtAnchor
    <2>8. ASSUME NEW p \in Patterns PROVE PassedAccounted(t, p)'
        <3> SUFFICES ASSUME NEW s \in MatchesOf(p), Passed(t, p, s + StartOffset(p))'
                     PROVE  Passed(t, p, s + StartOffset(p))
            BY <1>1, MatchesStay, ResultsStay DEF PassedAccounted, Inv
        <3>1. p \in Nat /\ (p < q + 1 => p < q \/ p = q)
            BY <1>1, PatternFacts
        <3>2. ASSUME s + StartOffset(p) = searcher[t].anchor, p = q
              PROVE  FALSE
            <4>1. s \in Nat /\ StartOffset(p) \in Nat /\ MatchesAt(p, s)
                BY StartOffsetHolds, SigscanAssumption DEF MatchesOf, Readable
            <4>2. s = SigStart(t)
                BY <3>2, <4>1 DEF SigStart
            <4> QED
                BY <1>3, <3>2, <4>1, <4>2
        <3> QED
            BY <1>1, <2>6, <3>1, <3>2 DEF Passed, AtAnchor
    <2> QED
        BY <1>1, <2>4, <2>5, <2>7, <2>8, ResultsStay, StepOfOne
<1> QED
    BY <1>2, <1>3

\* All patterns have been compared around the anchor left behind.
LEMMA NextPosKeepsInv ==
    ASSUME Inv, NEW t \in Searcher, NextPos(t)
    PROVE  Inv'
<1> DEFINE a == searcher[t].anchor
<1>1. /\ SearchTypeOK /\ ThreadInv(t) /\ searcher[t] \in SearcherState
      /\ a \in Nat /\ searcher[t].pos \in Nat /\ searcher[t].p \in Nat
      /\ searcher[t].at = "compare" /\ searcher[t].p \notin Patterns /\ UNCHANGED <<memory, result>>
    BY DEF Inv, SearchTypeOK, SearcherState, NextPos
<1>2. a + 1 \in Nat
    BY <1>1
<1>3. searcher' = [searcher EXCEPT ![t] = [searcher[t] EXCEPT !.at = "find", !.pos = a + 1]]
    BY DEF NextPos
<1>4. [searcher[t] EXCEPT !.at = "find", !.pos = a + 1] \in SearcherState
    BY <1>1, <1>2 DEF SearcherState
<1>5. SearchTypeOK'
    BY <1>1, <1>3, <1>4 DEF SearchTypeOK
<1>6. \A u \in Searcher : u # t => searcher'[u] = searcher[u]
    BY <1>1, <1>3 DEF SearchTypeOK
<1>7. searcher'[t].at = "find" /\ searcher'[t].pos = a + 1
    BY <1>1, <1>3, <1>4 DEF SearchTypeOK, SearcherState
<1>8. /\ ChunkBegin(t) <= a + 1 /\ a + 1 <= ChunkEnd(t)
      /\ NoAnchor(searcher[t].pos, a) /\ searcher[t].p \in 1 .. Len(Pattern) + 1
    BY <1>1, BoundsFacts DEF ThreadInv, AtAnchor
<1>9. ThreadInv(t)'
    BY <1>7, <1>8 DEF ThreadInv, AtAnchor
<1>10. ASSUME NEW p \in Patterns PROVE PassedAccounted(t, p)'
    <2> SUFFICES ASSUME NEW s \in MatchesOf(p), Passed(t, p, s + StartOffset(p))'
                 PROVE  Passed(t, p, s + StartOffset(p))
        BY <1>1, MatchesStay, ResultsStay DEF PassedAccounted, Inv
    <2> DEFINE b == s + StartOffset(p)
    <2>1. s \in Nat /\ MatchesAt(p, s) /\ b \in Nat
        BY StartOffsetHolds, SigscanAssumption DEF MatchesOf, Readable
    <2>2. memory[b] = Anchor
        BY <2>1, MatchHasAnchor
    <2>3. p < searcher[t].p
        BY <1>1, <1>8, PatternFacts
    <2> HIDE DEF b
    <2>4. ChunkBegin(t) <= b /\ b < a + 1
        BY <1>7 DEF Passed, AtAnchor, b
    <2>5. b < a => b < searcher[t].pos
        BY <1>1, <1>8, <2>1, <2>2 DEF NoAnchor
    <2>6. b < a \/ b = a
        BY <1>1, <2>1, <2>4
    <2> QED
        BY <1>1, <2>3, <2>4, <2>5, <2>6 DEF Passed, AtAnchor, b
<1> QED
    BY <1>1, <1>5, <1>6, <1>9, <1>10, ResultsStay, StepOfOne

\* The exchange keeps the better one of the result and the match.
LEMMA SwapKeepsInv ==
    ASSUME Inv, NEW t \in Searcher, Swap(t)
    PROVE  Inv'
<1> DEFINE q == searcher[t].p
           new == SigStart(t) + Offset[q]
<1>1. /\ SearchTypeOK /\ ThreadInv(t) /\ searcher[t] \in SearcherState /\ q \in Nat
      /\ searcher[t].at = "swap" /\ q \in Patterns /\ MatchesAt(q, SigStart(t))
      /\ UNCHANGED memory /\ AtAnchor(t)
    BY DEF Inv, SearchTypeOK, SearcherState, Swap, ThreadInv, AtAnchor
<1>2. /\ SigStart(t) \in MatchesOf(q) /\ SigStart(t) \in Nat \ {0}
      /\ SigStart(t) + StartOffset(q) = searcher[t].anchor
    BY <1>1, SigStartFacts DEF MatchesOf
<1>3. Offset[q] \in Nat /\ new \in Nat \ {0}
    BY <1>1, <1>2, PatternFacts
<1>4. CASE result[q] = searcher[t].old
    <2> DEFINE best == Better(result[q], new)
    <2>1. result' = [result EXCEPT ![q] = best]
        BY <1>4 DEF Swap
    <2>2. searcher' = [searcher EXCEPT ![t] = [searcher[t] EXCEPT !.at = "compare", !.p = q + 1]]
        BY <1>4 DEF Swap
    <2>3. /\ result[q] \in Nat /\ best \in Nat \ {0} /\ best <= new
          /\ (result[q] # 0 => best <= result[q]) /\ (best = new \/ best = result[q])
        BY <1>1, <1>3 DEF SearchTypeOK, Better
    <2> HIDE DEF best
    <2>4. q + 1 \in Nat /\ q + 1 \in 1 .. Len(Pattern) + 1
        BY <1>1, PatternFacts
    <2>5. [searcher[t] EXCEPT !.at = "compare", !.p = q + 1] \in SearcherState
        BY <1>1, <2>4 DEF SearcherState
    <2>6. SearchTypeOK'
        BY <1>1, <2>1, <2>2, <2>3, <2>5 DEF SearchTypeOK
    <2>7. \A u \in Searcher : u # t => searcher'[u] = searcher[u]
        BY <1>1, <2>2 DEF SearchTypeOK
    <2>8. /\ searcher'[t].at = "compare" /\ searcher'[t].pos = searcher[t].pos
          /\ searcher'[t].anchor = searcher[t].anchor /\ searcher'[t].p = q + 1
        BY <1>1, <2>2, <2>5 DEF SearchTypeOK, SearcherState
    <2>9. /\ result'[q] = best
          /\ \A p \in Patterns : result[p] \in Nat /\ (p # q => result'[p] = result[p])
        BY <1>1, <2>1 DEF SearchTypeOK
    <2>10. ThreadInv(t)'
        BY <1>1, <2>4, <2>8, MatchesStay DEF ThreadInv, AtAnchor
    <2>11. \A p \in Patterns : \A s \in MatchesOf(p) : s \in Nat /\ s + Offset[p] \in Nat
        BY PatternFacts, SigscanAssumption DEF MatchesOf, Readable
    <2>12. \A p \in Patterns : \A s \in MatchesOf(p) : Accounted(p, s) => Accounted(p, s)'
        <3> SUFFICES ASSUME NEW p \in Patterns, NEW s \in MatchesOf(p), Accounted(p, s)
                     PROVE  Accounted(p, s)'
            OBVIOUS
        <3>1. CASE p = q
            BY <2>3, <2>9, <2>11, <3>1 DEF Accounted
        <3>2. CASE p # q
            BY <2>9, <3>2 DEF Accounted
        <3> QED
            BY <3>1, <3>2
    <2>13. ASSUME NEW p \in Patterns PROVE Genuine(p)'
        <3>1. CASE p = q
            <4>1. best = new => Genuine(p)'
                BY <1>1, <1>2, <2>9, <3>1, MatchesStay DEF Genuine
            <4>2. best = result[p] => Genuine(p)'
                BY <1>1, <2>3, <2>9, <3>1, MatchesStay DEF Genuine, Inv
            <4> QED
                BY <2>3, <3>1, <4>1, <4>2
        <3>2. CASE p # q
            BY <1>1, <2>9, <3>2, MatchesStay DEF Genuine, Inv
        <3> QED
            BY <3>1, <3>2
    <2>14. ASSUME NEW p \in Patterns PROVE PassedAccounted(t, p)'
        <3> SUFFICES ASSUME NEW s \in MatchesOf(p), Passed(t, p, s + StartOffset(p))'
                     PROVE  Accounted(p, s)'
            BY <1>1, MatchesStay DEF PassedAccounted
        <3>1. p \in Nat /\ (p < q + 1 => p < q \/ p = q)
            BY <1>1, PatternFacts
        <3>2. CASE Passed(t, p, s + StartOffset(p))
            BY <3>2, <2>12 DEF Inv, PassedAccounted
        <3>3. CASE ~Passed(t, p, s + StartOffset(p))
            <4>1. s + StartOffset(p) = searcher[t].anchor /\ p = q
                BY <1>1, <2>8, <3>1, <3>3 DEF Passed, AtAnchor
            <4>2. s \in Nat /\ StartOffset(p) \in Nat
                BY StartOffsetHolds, <2>11
            <4>3. s = SigStart(t)
                BY <1>2, <4>1, <4>2
            <4> QED
                BY <2>3, <2>9, <4>1, <4>3 DEF Accounted
        <3> QED
            BY <3>2, <3>3
    <2> QED
        BY <1>1, <2>6, <2>7, <2>10, <2>12, <2>13, <2>14, StepOfOne
<1>5. CASE result[q] # searcher[t].old
    <2>1. searcher' = [searcher EXCEPT ![t] = [searcher[t] EXCEPT !.old = result[q]]] /\ UNCHANGED result
        BY <1>5 DEF Swap
    <2>2. result[q] \in Nat
        BY <1>1 DEF SearchTypeOK
    <2>3. [searcher[t] EXCEPT !.old = result[q]] \in SearcherState
        BY <1>1, <2>2 DEF SearcherState
    <2>4. SearchTypeOK'
        BY <1>1, <2>1, <2>3 DEF SearchTypeOK
    <2>5. \A u \in Searcher : u # t => searcher'[u] = searcher[u]
        BY <1>1, <2>1 DEF SearchTypeOK
    <2>6. /\ searcher'[t].at = "swap" /\ searcher'[t].pos = searcher[t].pos
          /\ searcher'[t].anchor = searcher[t].anchor /\ searcher'[t].p = searcher[t].p
        BY <1>1, <2>1, <2>3 DEF SearchTypeOK, SearcherState
    <2>7. ThreadInv(t)'
        BY <1>1, <2>6, MatchesStay DEF ThreadInv, AtAnchor, SigStart
    <2>8. ASSUME NEW p \in Patterns PROVE PassedAccounted(t, p)'
        <3>1. \A a : Passed(t, p, a)' => Passed(t, p, a)
            BY <1>1, <2>6 DEF Passed, AtAnchor
        <3> QED
            BY <1>1, <2>1, <3>1, MatchesStay, ResultsStay DEF PassedAccounted, Inv
    <2> QED
        BY <1>1, <2>1, <2>4, <2>5, <2>7, <2>8, ResultsStay, StepOfOne
<1> QED
    BY <1>4, <1>5

-----------------------------------------------------------------------------
(***************************************************************************)
(* What is known at any time of the search: the addresses that threads     *)
(* have passed are accounted for, and results are matches.                 *)
(***************************************************************************)
THEOREM SearchInvariance == SearchSpec => []Inv
<1>1. Inv /\ [SearchNext]_searchVars => Inv'
    <2> SUFFICES ASSUME Inv, [SearchNext]_searchVars PROVE Inv'
        OBVIOUS
    <2>1. ASSUME NEW t \in Searcher, Find(t) PROVE Inv'
        BY <2>1, FindKeepsInv
    <2>2. ASSUME NEW t \in Searcher, Compare(t) PROVE Inv'
        BY <2>2, CompareKeepsInv
    <2>3. ASSUME NEW t \in Searcher, NextPos(t) PROVE Inv'
        BY <2>3, NextPosKeepsInv
    <2>4. ASSUME NEW t \in Searcher, Swap(t) PROVE Inv'
        BY <2>4, SwapKeepsInv
    <2>5. CASE UNCHANGED searchVars
        <3>1. UNCHANGED <<memory, result, searcher>>
            BY <2>5 DEF searchVars
        <3>2. SearchTypeOK'
            BY <3>1 DEF Inv, SearchTypeOK
        <3>3. \A t \in Searcher : ThreadInv(t)'
            BY <3>1, MatchesStay DEF Inv, ThreadInv, AtAnchor, SigStart
        <3>4. \A p \in Patterns : Genuine(p)'
            BY <3>1, ResultsStay
        <3>5. \A t \in Searcher, p \in Patterns : \A a : Passed(t, p, a)' <=> Passed(t, p, a)
            BY <3>1 DEF Passed, AtAnchor
        <3>6. \A t \in Searcher, p \in Patterns : PassedAccounted(t, p)'
            BY <3>1, <3>5, MatchesStay, ResultsStay DEF Inv, PassedAccounted
        <3> QED
            BY <3>2, <3>3, <3>4, <3>6 DEF Inv
    <2> QED
        BY <2>1, <2>2, <2>3, <2>4, <2>5 DEF SearchNext, Step
<1> QED
    BY <1>1, InvInit, PTL DEF SearchSpec

(***************************************************************************)
(* For every image, all patterns with a byte in common and every number of *)
(* threads: once the threads joined by multi_sigscan have returned, each   *)
(* pattern has its first match, and none if it does not occur.             *)
(***************************************************************************)
THEOREM FindsFirstMatches == SearchSpec => []FirstMatchesFound
<1>1. Inv => FirstMatchesFound
    <2> SUFFICES ASSUME Inv, Done, NEW p \in Patterns PROVE IsFirstMatch(p, result[p])
        BY DEF FirstMatchesFound
    <2>1. ASSUME NEW s \in MatchesOf(p) PROVE Accounted(p, s)
        <3> DEFINE a == s + StartOffset(p)
        <3>1. s \in Nat /\ MatchesAt(p, s) /\ a \in Image /\ a \in Nat
            BY StartOffsetHolds, SigscanAssumption DEF MatchesOf, Readable
        <3>2. memory[a] = Anchor
            BY <3>1, MatchHasAnchor
        <3> HIDE DEF a
        <3>3. PICK t \in Searcher : ChunkBegin(t) <= a /\ a < ChunkEnd(t)
            BY <3>1, ChunksCover
        <3>4. searcher[t].pos \in Nat /\ NoAnchor(searcher[t].pos, ChunkEnd(t))
            BY DEF Inv, SearchTypeOK, SearcherState, ThreadInv, Done
        <3>5. a < searcher[t].pos
            BY <3>1, <3>2, <3>3, <3>4 DEF NoAnchor
        <3>6. Passed(t, p, a)
            BY <3>3, <3>5 DEF Passed
        <3> QED
            BY <3>6 DEF Inv, PassedAccounted, a
    <2>2. CASE MatchesOf(p) = {}
        BY <2>2 DEF Inv, Genuine, IsFirstMatch
    <2>3. CASE MatchesOf(p) # {}
        <3>1. PICK s \in MatchesOf(p) : result[p] = s + Offset[p]
            BY <2>1, <2>3 DEF Inv, Genuine, Accounted
        <3>2. \A r \in MatchesOf(p) : r \in Nat /\ s \in Nat /\ Offset[p] \in Nat
            BY PatternFacts, SigscanAssumption DEF MatchesOf, Readable
        <3>3. \A r \in MatchesOf(p) : s + Offset[p] <= r + Offset[p]
            BY <2>1, <3>1 DEF Accounted
        <3>4. \A r \in MatchesOf(p) : s <= r
            BY <3>2, <3>3
        <3> QED
            BY <2>3, <3>1, <3>4 DEF IsFirstMatch
    <2> QED
        BY <2>2, <2>3
<1> QED
    BY <1>1, SearchInvariance, PTL

(***************************************************************************)
(* Whatever the threads do to a result at the same time, it only ever      *)
(* moves to a smaller address.                                             *)
(***************************************************************************)
THEOREM ResultsOnlyImprove == SearchSpec => ResultsImprove
<1> DEFINE Improves == \A p \in Patterns :
              result'[p] # result[p] => result[p] = 0 \/ result'[p] < result[p]
<1>1. Inv /\ [SearchNext]_searchVars => [Improves]_searchVars
    <2> SUFFICES ASSUME Inv, SearchNext PROVE Improves
        OBVIOUS
    <2>1. CASE UNCHANGED result
        BY <2>1
    <2>2. ASSUME NEW t \in Searcher, Swap(t) PROVE Improves
        <3> DEFINE q == searcher[t].p
                   new == SigStart(t) + Offset[q]
        <3>1. q \in Patterns /\ result \in [Patterns -> Nat]
            BY <2>2 DEF Inv, SearchTypeOK, ThreadInv, Swap
        <3>2. SearchTypeOK /\ ThreadInv(t) /\ AtAnchor(t)
            BY <2>2 DEF Inv, Swap, AtAnchor
        <3>3. new \in Nat
            BY <3>1, <3>2, SigStartFacts, PatternFacts
        <3>4. UNCHANGED result \/ result' = [result EXCEPT ![q] = Better(result[q], new)]
            BY <2>2 DEF Swap
        <3> HIDE DEF new, q
        <3>5. Better(result[q], new) # result[q] => result[q] = 0 \/ Better(result[q], new) < result[q]
            BY <3>1, <3>3 DEF Better
        <3> QED
            BY <3>1, <3>4, <3>5
    <2> QED
        BY <2>1, <2>2 DEF SearchNext, Step, Find, Compare, NextPos
<1> QED
    BY <1>1, SearchInvariance, PTL DEF SearchSpec, ResultsImprove

-----------------------------------------------------------------------------
\* What the last frame of a stack is, and what remains without it.
LEMMA FrontLast ==
    ASSUME NEW S, NEW s \in Seq(S), s # <<>>
    PROVE  /\ Len(s) \in Nat \ {0} /\ Last(s) = s[Len(s)] /\ Last(s) \in S
           /\ Front(s) \in Seq(S) /\ Len(Front(s)) = Len(s) - 1
           /\ \A i \in 1 .. Len(s) - 1 : Front(s)[i] = s[i]
<1>1. Len(s) \in Nat \ {0}
    BY EmptySeq, LenProperties
<1>2. \A i \in 1 .. Len(s) : s[i] \in S
    BY ElementOfSeq
<1>3. Len(s) - 1 \in Int /\ 1 \in Int /\ \A i \in 1 .. Len(s) - 1 : s[i] \in S
    BY <1>1, <1>2
<1>4. /\ SubSeq(s, 1, Len(s) - 1) \in Seq(S)
      /\ Len(SubSeq(s, 1, Len(s) - 1)) = IF 1 <= Len(s) - 1 THEN Len(s) - 1 - 1 + 1 ELSE 0
      /\ \A i \in 1 .. Len(s) - 1 - 1 + 1 : SubSeq(s, 1, Len(s) - 1)[i] = s[1 + i - 1]
    BY <1>3, SubSeqProperties
<1>5. \A i \in 1 .. Len(s) - 1 : i \in 1 .. Len(s) - 1 - 1 + 1 /\ 1 + i - 1 = i
    BY <1>1
<1>6. \A i \in 1 .. Len(s) - 1 : Front(s)[i] = s[i]
    BY <1>4, <1>5 DEF Front
<1>7. Len(Front(s)) = Len(s) - 1
    <2>1. (IF 1 <= Len(s) - 1 THEN Len(s) - 1 - 1 + 1 ELSE 0) = Len(s) - 1
        <3>1. \A k \in Nat \ {0} : (IF 1 <= k - 1 THEN k - 1 - 1 + 1 ELSE 0) = k - 1
            OBVIOUS
        <3> HIDE DEF Front
        <3> QED
            BY <1>1, <3>1
    <2> QED
        BY <1>4, <2>1 DEF Front
<1> QED
    BY <1>1, <1>2, <1>4, <1>6, <1>7 DEF Front, Last

\* Replacing the last frame.
LEMMA FramesUpdated ==
    ASSUME NEW S, NEW s \in Seq(S), s # <<>>, NEW e \in S
    PROVE  /\ Update(s, e) \in Seq(S) /\ Len(Update(s, e)) = Len(s)
           /\ \A i \in 1 .. Len(s) : Update(s, e)[i] = IF i = Len(s) THEN e ELSE s[i]
<1>1. Len(s) \in 1 .. Len(s)
    BY FrontLast
<1> QED
    BY <1>1, ExceptSeq DEF Update

\* Adding a frame.
LEMMA FramesAppended ==
    ASSUME NEW S, NEW s \in Seq(S), NEW e \in S
    PROVE  /\ Append(s, e) \in Seq(S) /\ Len(Append(s, e)) = Len(s) + 1 /\ Len(s) \in Nat
           /\ Append(s, e)[Len(s) + 1] = e
           /\ \A i \in 1 .. Len(s) : Append(s, e)[i] = s[i]
    OBVIOUS

-----------------------------------------------------------------------------
Held(t) == Holding(stack[t], {"call", "event"})

Restores(frame, func) == frame.at = "restores" /\ frame.func = func

Shape(t) ==
    \A i \in 1 .. Len(stack[t]) :
        /\ stack[t][i].at \in {"reads", "sets"} => stack[t][i].kind = "call" /\ i = Len(stack[t])
        /\ stack[t][i].at = "restores" => stack[t][i].kind = "call"
        /\ stack[t][i].at = "runs" => stack[t][i].kind # "call"
        /\ stack[t][i].kind = "call" => stack[t][i].func \in Func

SavedRight(t) ==
    \A i \in 1 .. Len(stack[t]) :
        stack[t][i].at \in {"sets", "restores"} =>
            (stack[t][i].saved <=>
                \/ stack[t][i].func \in NativeFunc
                \/ \E j \in 1 .. i - 1 : Restores(stack[t][j], stack[t][i].func))

SetWhileRestoring(t) ==
    \A i \in 1 .. Len(stack[t]) : stack[t][i].at = "restores" => stack[t][i].func \in native

Untouched(func) ==
    \A t \in Caller : \A i \in 1 .. Len(stack[t]) : ~Restores(stack[t][i], func)

LocksInv ==
    /\ LocksTypeOK
    /\ \A t, u \in Caller : t # u => ~(Held(t) /\ Held(u))
    /\ \A t \in Caller : Shape(t) /\ SavedRight(t) /\ SetWhileRestoring(t)
    /\ \A func \in Func : Untouched(func) => (func \in native <=> func \in NativeFunc)

\* Frames of calls on the way hold the lock.
LEMMA RestoringHolds ==
    ASSUME NEW t \in Caller, stack[t] \in Seq(Frame), Shape(t), NEW i \in 1 .. Len(stack[t]),
           stack[t][i].at \in {"reads", "sets", "restores"}
    PROVE  Held(t)
<1>1. stack[t][i].kind = "call" /\ stack[t][i].at # "wants" /\ DOMAIN stack[t] = 1 .. Len(stack[t])
    BY DEF Shape
<1> QED
    BY <1>1 DEF Held, Holding

(***************************************************************************)
(* A step of t that leaves the flags alone keeps the invariant if the      *)
(* frames it changes keep their place in it.                               *)
(***************************************************************************)
LEMMA StepWithoutFlags ==
    ASSUME LocksInv, LocksTypeOK', NEW t \in Caller, UNCHANGED native,
           \A u \in Caller : u # t => stack'[u] = stack[u],
           Shape(t)', SavedRight(t)', SetWhileRestoring(t)',
           \A u \in Caller : u # t => ~(Held(t)' /\ Held(u)),
           \A func \in Func : (\E i \in 1 .. Len(stack[t]) : Restores(stack[t][i], func))
                              => \E i \in 1 .. Len(stack'[t]) : Restores(stack'[t][i], func)
    PROVE  LocksInv'
<1>1. \A u \in Caller : u # t => /\ Held(u)' <=> Held(u)
                                 /\ Shape(u)' /\ SavedRight(u)' /\ SetWhileRestoring(u)'
    BY DEF LocksInv, Held, Shape, SavedRight, SetWhileRestoring
<1>2. \A u, v \in Caller : u # v => ~(Held(u)' /\ Held(v)')
    BY <1>1 DEF LocksInv
<1>3. \A u \in Caller : Shape(u)' /\ SavedRight(u)' /\ SetWhileRestoring(u)'
    BY <1>1
<1>4. ASSUME NEW func \in Func, Untouched(func)'
      PROVE  Untouched(func)
    BY <1>4 DEF Untouched
<1>5. \A func \in Func : Untouched(func)' => (func \in native' <=> func \in NativeFunc)
    BY <1>4 DEF LocksInv
<1> QED
    BY <1>2, <1>3, <1>5 DEF LocksInv

\* The innermost call of a thread.
LEMMA TopFacts ==
    ASSUME LocksTypeOK, NEW t \in Caller, stack[t] # <<>>
    PROVE  /\ stack[t] \in Seq(Frame) /\ Len(stack[t]) \in Nat \ {0}
           /\ Len(stack[t]) \in 1 .. Len(stack[t])
           /\ Top(t) = stack[t][Len(stack[t])] /\ Top(t) \in Frame
           /\ DOMAIN stack[t] = 1 .. Len(stack[t])
    BY FrontLast, LenProperties DEF LocksTypeOK, Top

\* Being inside a call, by its frames.
LEMMA HeldByIndex ==
    ASSUME NEW t \in Caller, stack[t] \in Seq(Frame)
    PROVE  Held(t) <=> \E i \in 1 .. Len(stack[t]) :
                          stack[t][i].kind \in {"call", "event"} /\ stack[t][i].at # "wants"
    BY LenProperties DEF Held, Holding

\* Before the first call.
LEMMA LocksInvInit == LocksInit => LocksInv
<1> SUFFICES ASSUME LocksInit PROVE LocksInv
    OBVIOUS
<1>1. \A t \in Caller : stack[t] = <<>> /\ Len(stack[t]) = 0 /\ stack[t] \in Seq(Frame)
    BY DEF LocksInit
<1>2. LocksTypeOK
    BY <1>1, FunctionLocksAssumption DEF LocksInit, LocksTypeOK
<1>3. \A t \in Caller : ~Held(t)
    BY <1>1, HeldByIndex
<1>4. \A t \in Caller : Shape(t) /\ SavedRight(t) /\ SetWhileRestoring(t)
    BY <1>1 DEF Shape, SavedRight, SetWhileRestoring
<1> QED
    BY <1>2, <1>3, <1>4 DEF LocksInit, LocksInv

\* One lemma per step.  A frame that only wants its lock changes nothing.
LEMMA BeginKeepsInv ==
    ASSUME LocksInv, NEW t \in Caller, NEW kind \in {"call", "event", "load"},
           NEW func \in Func \union {NoFunc}, kind = "call" => func \in Func,
           Begin(t, kind, func)
    PROVE  LocksInv'
<1> DEFINE s == stack[t]
           e == NewFrame(kind, func)
           n == Len(s)
<1>1. /\ LocksTypeOK /\ Shape(t) /\ SavedRight(t) /\ SetWhileRestoring(t) /\ s \in Seq(Frame)
      /\ UNCHANGED native
    BY DEF LocksInv, LocksTypeOK, Begin, MayCall
<1>2. e \in Frame /\ e.at = "wants" /\ e.kind = kind /\ e.func = func
    BY DEF NewFrame, Frame
<1>3. stack' = [stack EXCEPT ![t] = Append(s, e)]
    BY DEF Begin
<1> HIDE DEF e
<1>4. /\ stack'[t] = Append(s, e) /\ stack'[t] \in Seq(Frame) /\ Len(stack'[t]) = n + 1 /\ n \in Nat
      /\ stack'[t][n + 1] = e /\ \A i \in 1 .. n : stack'[t][i] = s[i]
      /\ \A u \in Caller : u # t => stack'[u] = stack[u]
    BY <1>1, <1>2, <1>3, FramesAppended DEF LocksTypeOK
<1>5. \A i \in 1 .. Len(stack'[t]) : i \in 1 .. n \/ i = n + 1
    BY <1>4
<1>6. LocksTypeOK'
    BY <1>1, <1>3, <1>4 DEF LocksTypeOK
<1>7. s # <<>> => s[n].at = "runs"
    BY <1>1, TopFacts DEF Begin, MayCall, At
<1>8. \A i \in 1 .. n : s[i].at \notin {"reads", "sets"}
    BY <1>1, <1>4, <1>7, EmptySeq DEF Shape
<1>9. Shape(t)'
    BY <1>1, <1>2, <1>4, <1>5, <1>8 DEF Shape
<1>10. \A i \in 1 .. n : \A j \in 1 .. i - 1 : j \in 1 .. n
    BY <1>4
<1>11. SavedRight(t)'
    BY <1>1, <1>2, <1>4, <1>5, <1>10 DEF SavedRight
<1>12. SetWhileRestoring(t)'
    BY <1>1, <1>2, <1>4, <1>5 DEF SetWhileRestoring
<1>13. Held(t)' => Held(t)
    <2>1. Held(t)' => \E i \in 1 .. Len(stack'[t]) :
                        stack'[t][i].kind \in {"call", "event"} /\ stack'[t][i].at # "wants"
        BY <1>4, LenProperties DEF Held, Holding
    <2> QED
        BY <1>1, <1>2, <1>4, <1>5, <2>1, HeldByIndex
<1>14. \A i \in 1 .. n : i \in 1 .. Len(stack'[t])
    BY <1>4
<1> QED
    BY <1>1, <1>4, <1>6, <1>9, <1>11, <1>12, <1>13, <1>14, StepWithoutFlags DEF LocksInv

\* The mutex keeps all but one thread out.
LEMMA LockKeepsInv ==
    ASSUME LockCalls, LocksInv, NEW t \in Caller, Lock(t)
    PROVE  LocksInv'
<1> DEFINE s == stack[t]
           n == Len(s)
           top == s[n]
           e == [top EXCEPT !.at = IF top.kind = "call" THEN "reads" ELSE "runs"]
<1>1. /\ LocksTypeOK /\ Shape(t) /\ SavedRight(t) /\ SetWhileRestoring(t) /\ s \in Seq(Frame)
      /\ s # <<>> /\ n \in Nat \ {0} /\ n \in 1 .. n /\ Top(t) = top /\ top \in Frame
      /\ top.at = "wants" /\ UNCHANGED native
    BY TopFacts DEF LocksInv, LocksTypeOK, Lock
<1>2. /\ e \in Frame /\ e.kind = top.kind /\ e.func = top.func
      /\ e.at = IF top.kind = "call" THEN "reads" ELSE "runs"
    BY <1>1 DEF Frame
<1>3. stack' = [stack EXCEPT ![t] = Update(s, e)]
    BY <1>1 DEF Lock, WithTop
<1> HIDE DEF e
<1>4. /\ stack'[t] \in Seq(Frame) /\ Len(stack'[t]) = n
      /\ \A i \in 1 .. n : stack'[t][i] = IF i = n THEN e ELSE s[i]
      /\ \A u \in Caller : u # t => stack'[u] = stack[u]
    <2>1. stack'[t] = Update(s, e) /\ \A u \in Caller : u # t => stack'[u] = stack[u]
        BY <1>1, <1>3 DEF LocksTypeOK
    <2>2. /\ Update(s, e) \in Seq(Frame) /\ Len(Update(s, e)) = Len(s)
          /\ \A i \in 1 .. Len(s) : Update(s, e)[i] = IF i = Len(s) THEN e ELSE s[i]
        <3>1. s \in Seq(Frame) /\ s # <<>> /\ e \in Frame
            BY <1>1, <1>2
        <3> HIDE DEF s
        <3> QED
            BY <3>1, FramesUpdated
    <2> QED
        BY <2>1, <2>2
<1>5. LocksTypeOK'
    BY <1>1, <1>3, <1>4 DEF LocksTypeOK
<1>6. Shape(t)'
    BY <1>1, <1>2, <1>4 DEF Shape
<1>7. \A i \in 1 .. n : \A j \in 1 .. i - 1 : j \in 1 .. n /\ j # n
    BY <1>1
<1>8. SavedRight(t)'
    BY <1>1, <1>2, <1>4, <1>7 DEF SavedRight
<1>9. SetWhileRestoring(t)'
    BY <1>1, <1>2, <1>4 DEF SetWhileRestoring
<1>10. ASSUME Held(t)', NEW u \in Caller, u # t, Held(u)
       PROVE  FALSE
    <2>1. PICK i \in 1 .. n : stack'[t][i].kind \in {"call", "event"} /\ stack'[t][i].at # "wants"
        BY <1>4, <1>10, LenProperties DEF Held, Holding
    <2>2. CASE i = n
        <3>1. top.kind # "load"
            BY <1>2, <1>4, <2>1, <2>2
        <3>2. Holds(u, top.kind)
            BY <1>10, <3>1 DEF Holds, Held
        <3> QED
            BY <1>1, <1>10, <3>2 DEF Lock
    <2>3. CASE i # n
        <3>1. Held(t)
            BY <1>1, <1>4, <2>1, <2>3, HeldByIndex
        <3> QED
            BY <1>10, <3>1 DEF LocksInv
    <2> QED
        BY <2>2, <2>3
<1>11. \A func \in Func : \A i \in 1 .. n : Restores(s[i], func) => Restores(stack'[t][i], func)
    BY <1>1, <1>4 DEF Restores
<1> QED
    BY <1>1, <1>4, <1>5, <1>6, <1>8, <1>9, <1>10, <1>11, StepWithoutFlags

\* The flag read is that of the game, or an outer call's.
LEMMA ReadFlagsKeepsInv ==
    ASSUME LocksInv, NEW t \in Caller, ReadFlags(t)
    PROVE  LocksInv'
<1> DEFINE s == stack[t]
           n == Len(s)
           top == s[n]
           e == [top EXCEPT !.at = "sets", !.saved = top.func \in native]
<1>1. /\ LocksTypeOK /\ Shape(t) /\ SavedRight(t) /\ SetWhileRestoring(t) /\ s \in Seq(Frame)
      /\ s # <<>> /\ n \in Nat \ {0} /\ n \in 1 .. n /\ Top(t) = top /\ top \in Frame
      /\ top.at = "reads" /\ top.kind = "call" /\ UNCHANGED native
    BY TopFacts DEF LocksInv, LocksTypeOK, ReadFlags, At
<1>2. (top.func \in native) \in BOOLEAN
    OBVIOUS
<1>3. /\ e \in Frame /\ e.kind = "call" /\ e.func = top.func /\ e.at = "sets"
      /\ e.saved <=> top.func \in native
    BY <1>1, <1>2 DEF Frame
<1>4. stack' = [stack EXCEPT ![t] = Update(s, e)]
    BY <1>1 DEF ReadFlags, WithTop
<1> HIDE DEF e
<1>5. /\ stack'[t] \in Seq(Frame) /\ Len(stack'[t]) = n
      /\ \A i \in 1 .. n : stack'[t][i] = IF i = n THEN e ELSE s[i]
      /\ \A u \in Caller : u # t => stack'[u] = stack[u]
    <2>1. stack'[t] = Update(s, e) /\ \A u \in Caller : u # t => stack'[u] = stack[u]
        BY <1>1, <1>4 DEF LocksTypeOK
    <2>2. /\ Update(s, e) \in Seq(Frame) /\ Len(Update(s, e)) = Len(s)
          /\ \A i \in 1 .. Len(s) : Update(s, e)[i] = IF i = Len(s) THEN e ELSE s[i]
        <3>1. s \in Seq(Frame) /\ s # <<>> /\ e \in Frame
            BY <1>1, <1>3
        <3> HIDE DEF s
        <3> QED
            BY <3>1, FramesUpdated
    <2> QED
        BY <2>1, <2>2
<1>6. LocksTypeOK'
    BY <1>1, <1>4, <1>5 DEF LocksTypeOK
<1>7. Shape(t)'
    BY <1>1, <1>3, <1>5 DEF Shape
<1>8. Held(t)
    BY <1>1, RestoringHolds
<1>9. top.func \in native <=> top.func \in NativeFunc \/ \E j \in 1 .. n - 1 : Restores(s[j], top.func)
    <2>1. ASSUME NEW j \in 1 .. n - 1, Restores(s[j], top.func) PROVE top.func \in native
        <3>1. j \in 1 .. n
            BY <1>1
        <3> QED
            BY <1>1, <2>1, <3>1 DEF SetWhileRestoring, Restores
    <2>2. ASSUME \A j \in 1 .. n - 1 : ~Restores(s[j], top.func)
          PROVE  top.func \in native <=> top.func \in NativeFunc
        <3>1. \A i \in 1 .. n : i \in 1 .. n - 1 \/ i = n
            BY <1>1
        <3>2. \A i \in 1 .. n : ~Restores(s[i], top.func)
            BY <1>1, <2>2, <3>1 DEF Restores
        <3>3. ASSUME NEW u \in Caller, u # t, NEW i \in 1 .. Len(stack[u]), Restores(stack[u][i], top.func)
              PROVE  FALSE
            <4>1. stack[u] \in Seq(Frame) /\ Shape(u)
                BY DEF LocksInv, LocksTypeOK
            <4>2. Held(u)
                BY <3>3, <4>1, RestoringHolds DEF Restores
            <4> QED
                BY <1>8, <3>3, <4>2 DEF LocksInv
        <3>4. Untouched(top.func)
            BY <3>2, <3>3 DEF Untouched
        <3> QED
            BY <1>1, <3>4 DEF LocksInv, Shape
    <2>3. top.func \in NativeFunc /\ (\A j \in 1 .. n - 1 : ~Restores(s[j], top.func)) => top.func \in native
        BY <2>2
    <2> QED
        BY <2>1, <2>2
<1>10. \A i \in 1 .. n : \A j \in 1 .. i - 1 : j \in 1 .. n /\ j # n
    BY <1>1
<1>11. SavedRight(t)'
    <2> SUFFICES ASSUME NEW i \in 1 .. n, stack'[t][i].at \in {"sets", "restores"}
                 PROVE  stack'[t][i].saved <=>
                            \/ stack'[t][i].func \in NativeFunc
                            \/ \E j \in 1 .. i - 1 : Restores(stack'[t][j], stack'[t][i].func)
        BY <1>5 DEF SavedRight
    <2>1. \A j \in 1 .. i - 1 : stack'[t][j] = s[j]
        BY <1>5, <1>10
    <2>2. CASE i = n
        BY <1>3, <1>5, <1>9, <2>1, <2>2
    <2>3. CASE i # n
        BY <1>1, <1>5, <2>1, <2>3 DEF SavedRight
    <2> QED
        BY <2>2, <2>3
<1>12. SetWhileRestoring(t)'
    BY <1>1, <1>3, <1>5 DEF SetWhileRestoring
<1>13. \A func \in Func : \A i \in 1 .. n : Restores(s[i], func) => Restores(stack'[t][i], func)
    BY <1>1, <1>5 DEF Restores
<1>14. \A u \in Caller : u # t => ~(Held(t)' /\ Held(u))
    BY <1>8 DEF LocksInv
<1> QED
    BY <1>1, <1>5, <1>6, <1>7, <1>11, <1>12, <1>13, <1>14, StepWithoutFlags

\* Functions and loads return.
LEMMA ReturnKeepsInv ==
    ASSUME LocksInv, NEW t \in Caller, Return(t)
    PROVE  LocksInv'
<1> DEFINE s == stack[t]
           n == Len(s)
           top == s[n]
<1>1. /\ LocksTypeOK /\ Shape(t) /\ SavedRight(t) /\ SetWhileRestoring(t) /\ s \in Seq(Frame)
      /\ s # <<>> /\ n \in Nat \ {0} /\ n \in 1 .. n /\ Top(t) = top
      /\ top.at = "runs" /\ UNCHANGED native
    BY TopFacts DEF LocksInv, LocksTypeOK, Return, At
<1>2. /\ stack'[t] = Front(s) /\ stack'[t] \in Seq(Frame) /\ Len(stack'[t]) = n - 1
      /\ \A i \in 1 .. n - 1 : stack'[t][i] = s[i]
      /\ \A u \in Caller : u # t => stack'[u] = stack[u]
    BY <1>1, FrontLast DEF Return, Popped, LocksTypeOK
<1>3. LocksTypeOK'
    <2>1. stack' \in [Caller -> Seq(Frame)]
        BY <1>1, <1>2 DEF LocksTypeOK, Return, Popped
    <2> QED
        BY <1>1, <2>1 DEF LocksTypeOK
<1>4. \A i \in 1 .. n : i \in 1 .. n - 1 \/ i = n
    BY <1>1
<1>5. \A i \in 1 .. n - 1 : i \in 1 .. n /\ i # n /\ \A j \in 1 .. i - 1 : j \in 1 .. n - 1
    BY <1>1
<1>6. Shape(t)'
    BY <1>1, <1>2, <1>5 DEF Shape
<1>7. SavedRight(t)'
    BY <1>1, <1>2, <1>5 DEF SavedRight
<1>8. SetWhileRestoring(t)'
    BY <1>1, <1>2, <1>5 DEF SetWhileRestoring
<1>9. Held(t)' => Held(t)
    <2>1. Held(t)' => \E i \in 1 .. n - 1 :
                        stack'[t][i].kind \in {"call", "event"} /\ stack'[t][i].at # "wants"
        BY <1>2, LenProperties DEF Held, Holding
    <2> QED
        BY <1>1, <1>2, <1>5, <2>1, HeldByIndex
<1>10. \A func \in Func : \A i \in 1 .. n : Restores(s[i], func) =>
           i \in 1 .. n - 1 /\ Restores(stack'[t][i], func)
    BY <1>1, <1>2, <1>4 DEF Restores
<1> QED
    BY <1>1, <1>2, <1>3, <1>6, <1>7, <1>8, <1>9, <1>10, StepWithoutFlags DEF LocksInv

(***************************************************************************)
(* The steps that change flags.  The thread holds the lock, so the other   *)
(* threads have no call under way.                                         *)
(***************************************************************************)
LEMMA StepWithFlags ==
    ASSUME LocksInv, LocksTypeOK', NEW t \in Caller, Held(t),
           \A u \in Caller : u # t => stack'[u] = stack[u],
           Shape(t)', SavedRight(t)', SetWhileRestoring(t)',
           \A func \in Func :
              (\A i \in 1 .. Len(stack'[t]) : ~Restores(stack'[t][i], func)) =>
                  \/ func \in native' <=> func \in NativeFunc
                  \/ /\ func \in native' <=> func \in native
                     /\ \A i \in 1 .. Len(stack[t]) : ~Restores(stack[t][i], func)
    PROVE  LocksInv'
<1>1. ASSUME NEW u \in Caller, u # t, NEW i \in 1 .. Len(stack[u])
      PROVE  stack[u][i].at # "restores"
    <2>1. stack[u] \in Seq(Frame) /\ Shape(u) /\ ~Held(u)
        BY <1>1 DEF LocksInv, LocksTypeOK
    <2> QED
        BY <2>1, RestoringHolds
<1>2. \A u \in Caller : u # t => /\ Held(u)' <=> Held(u)
                                 /\ Shape(u)' /\ SavedRight(u)' /\ SetWhileRestoring(u)'
    BY <1>1 DEF LocksInv, Held, Shape, SavedRight, SetWhileRestoring
<1>3. \A u, v \in Caller : u # v => ~(Held(u)' /\ Held(v)')
    BY <1>2 DEF LocksInv
<1>4. ASSUME NEW func \in Func, Untouched(func)'
      PROVE  func \in native' <=> func \in NativeFunc
    <2>1. \A i \in 1 .. Len(stack'[t]) : ~Restores(stack'[t][i], func)
        BY <1>4 DEF Untouched
    <2>2. CASE \A i \in 1 .. Len(stack[t]) : ~Restores(stack[t][i], func)
        <3>1. Untouched(func)
            BY <1>1, <2>2 DEF Untouched, Restores
        <3> QED
            BY <2>1, <3>1 DEF LocksInv
    <2> QED
        BY <2>1, <2>2
<1> QED
    BY <1>2, <1>3, <1>4 DEF LocksInv

\* The flag is set for as long as the call restores it.
LEMMA SetNativeKeepsInv ==
    ASSUME LocksInv, NEW t \in Caller, SetNative(t)
    PROVE  LocksInv'
<1> DEFINE s == stack[t]
           n == Len(s)
           top == s[n]
           e == [top EXCEPT !.at = "restores"]
           new == NewFrame("event", NoFunc)
<1>1. /\ LocksTypeOK /\ Shape(t) /\ SavedRight(t) /\ SetWhileRestoring(t) /\ s \in Seq(Frame)
      /\ s # <<>> /\ n \in Nat \ {0} /\ n \in 1 .. n /\ Top(t) = top /\ top \in Frame
      /\ top.at = "sets" /\ top.kind = "call"
    BY TopFacts DEF LocksInv, LocksTypeOK, SetNative, At
<1>2. /\ e \in Frame /\ e.kind = "call" /\ e.func = top.func /\ e.at = "restores"
      /\ e.saved = top.saved
    BY <1>1 DEF Frame
<1>3. new \in Frame /\ new.at = "wants" /\ new.kind = "event"
    BY DEF NewFrame, Frame
<1>4. stack' = [stack EXCEPT ![t] = Append(Update(s, e), new)] /\ native' = native \union {top.func}
    BY <1>1 DEF SetNative
<1> HIDE DEF e, new
<1>5. /\ stack'[t] \in Seq(Frame) /\ Len(stack'[t]) = n + 1
      /\ \A i \in 1 .. n : stack'[t][i] = IF i = n THEN e ELSE s[i]
      /\ stack'[t][n + 1] = new
      /\ \A u \in Caller : u # t => stack'[u] = stack[u]
    <2>1. stack'[t] = Append(Update(s, e), new) /\ \A u \in Caller : u # t => stack'[u] = stack[u]
        BY <1>1, <1>4 DEF LocksTypeOK
    <2>2. /\ Update(s, e) \in Seq(Frame) /\ Len(Update(s, e)) = Len(s)
          /\ \A i \in 1 .. Len(s) : Update(s, e)[i] = IF i = Len(s) THEN e ELSE s[i]
        <3>1. s \in Seq(Frame) /\ s # <<>> /\ e \in Frame
            BY <1>1, <1>2
        <3> HIDE DEF s
        <3> QED
            BY <3>1, FramesUpdated
    <2> DEFINE w == Update(s, e)
    <2>3. w \in Seq(Frame) /\ Len(w) = n
        BY <2>2
    <2> HIDE DEF w
    <2>4. /\ Append(w, new) \in Seq(Frame) /\ Len(Append(w, new)) = Len(w) + 1
          /\ Append(w, new)[Len(w) + 1] = new
          /\ \A i \in 1 .. Len(w) : Append(w, new)[i] = w[i]
        BY <2>3, <1>3, FramesAppended
    <2> QED
        BY <2>1, <2>2, <2>3, <2>4 DEF w
<1>6. LocksTypeOK'
    <2>1. stack' \in [Caller -> Seq(Frame)]
        BY <1>1, <1>4, <1>5 DEF LocksTypeOK
    <2>2. native' \subseteq Func
        BY <1>1, <1>4 DEF LocksTypeOK, Shape
    <2> QED
        BY <2>1, <2>2 DEF LocksTypeOK
<1>7. Held(t)
    BY <1>1, RestoringHolds
<1>8. \A i \in 1 .. Len(stack'[t]) : (i \in 1 .. n /\ i # n) \/ i = n \/ i = n + 1
    BY <1>1, <1>5
<1>9. Shape(t)'
    <2>1. \A i \in 1 .. n : i # n => s[i].at \notin {"reads", "sets"}
        BY <1>1 DEF Shape
    <2> QED
        BY <1>1, <1>2, <1>3, <1>5, <1>8, <2>1 DEF Shape
<1>10. \A i \in 1 .. n : \A j \in 1 .. i - 1 : j \in 1 .. n /\ j # n
    BY <1>1
<1>11. SavedRight(t)'
    <2> SUFFICES ASSUME NEW i \in 1 .. n, stack'[t][i].at \in {"sets", "restores"}
                 PROVE  stack'[t][i].saved <=>
                            \/ stack'[t][i].func \in NativeFunc
                            \/ \E j \in 1 .. i - 1 : Restores(stack'[t][j], stack'[t][i].func)
        BY <1>1, <1>3, <1>5, <1>8 DEF SavedRight
    <2>1. \A j \in 1 .. i - 1 : stack'[t][j] = s[j]
        BY <1>5, <1>10
    <2>2. CASE i = n
        BY <1>1, <1>2, <1>5, <2>1, <2>2 DEF SavedRight
    <2>3. CASE i # n
        BY <1>1, <1>5, <2>1, <2>3 DEF SavedRight
    <2> QED
        BY <2>2, <2>3
<1>12. SetWhileRestoring(t)'
    BY <1>1, <1>2, <1>3, <1>4, <1>5, <1>8 DEF SetWhileRestoring
<1>13. ASSUME NEW func \in Func, \A i \in 1 .. Len(stack'[t]) : ~Restores(stack'[t][i], func)
       PROVE  /\ func \in native' <=> func \in native
              /\ \A i \in 1 .. Len(stack[t]) : ~Restores(stack[t][i], func)
    <2>1. \A i \in 1 .. n : i \in 1 .. Len(stack'[t])
        BY <1>1, <1>5
    <2>2. func # top.func
        BY <1>1, <1>2, <1>5, <1>13, <2>1 DEF Restores
    <2>3. \A i \in 1 .. n : ~Restores(s[i], func)
        BY <1>1, <1>5, <1>13, <2>1 DEF Restores
    <2> QED
        BY <1>4, <2>2, <2>3
<1> QED
    BY <1>5, <1>6, <1>7, <1>9, <1>11, <1>12, <1>13, StepWithFlags

\* It is put back to what the next outer call has set, or the game.
LEMMA RestoreFlagsKeepsInv ==
    ASSUME LocksInv, NEW t \in Caller, RestoreFlags(t)
    PROVE  LocksInv'
<1> DEFINE s == stack[t]
           n == Len(s)
           top == s[n]
<1>1. /\ LocksTypeOK /\ Shape(t) /\ SavedRight(t) /\ SetWhileRestoring(t) /\ s \in Seq(Frame)
      /\ s # <<>> /\ n \in Nat \ {0} /\ n \in 1 .. n /\ Top(t) = top
      /\ top.at = "restores" /\ top.kind = "call"
    BY TopFacts DEF LocksInv, LocksTypeOK, RestoreFlags, At
<1>2. /\ stack'[t] \in Seq(Frame) /\ Len(stack'[t]) = n - 1
      /\ \A i \in 1 .. n - 1 : stack'[t][i] = s[i]
      /\ \A u \in Caller : u # t => stack'[u] = stack[u]
    BY <1>1, FrontLast DEF RestoreFlags, Popped, LocksTypeOK
<1>3. native' = IF top.saved THEN native \union {top.func} ELSE native \ {top.func}
    BY <1>1 DEF RestoreFlags
<1>4. top.func \in native /\ top.func \in Func
    BY <1>1 DEF SetWhileRestoring, Shape
<1>5. LocksTypeOK'
    <2>1. stack' \in [Caller -> Seq(Frame)]
        BY <1>1, <1>2 DEF LocksTypeOK, RestoreFlags, Popped
    <2>2. native' \subseteq Func
        BY <1>1, <1>3, <1>4 DEF LocksTypeOK
    <2> QED
        BY <2>1, <2>2 DEF LocksTypeOK
<1>6. Held(t)
    BY <1>1, RestoringHolds
<1>7. \A i \in 1 .. n : i \in 1 .. n - 1 \/ i = n
    BY <1>1
<1>8. \A i \in 1 .. n - 1 : i \in 1 .. n /\ i # n /\ \A j \in 1 .. i - 1 : j \in 1 .. n - 1
    BY <1>1
<1>9. Shape(t)'
    BY <1>1, <1>2, <1>8 DEF Shape
<1>10. SavedRight(t)'
    BY <1>1, <1>2, <1>8 DEF SavedRight
<1>11. top.saved <=> top.func \in NativeFunc \/ \E j \in 1 .. n - 1 : Restores(s[j], top.func)
    BY <1>1 DEF SavedRight
<1>12. SetWhileRestoring(t)'
    <2> SUFFICES ASSUME NEW i \in 1 .. n - 1, s[i].at = "restores" PROVE s[i].func \in native'
        BY <1>2 DEF SetWhileRestoring
    <2>1. s[i].func \in native
        BY <1>1, <1>8 DEF SetWhileRestoring
    <2>2. ~top.saved => s[i].func # top.func
        BY <1>11 DEF Restores
    <2> QED
        BY <1>3, <2>1, <2>2
<1>13. ASSUME NEW func \in Func, \A i \in 1 .. n - 1 : ~Restores(stack'[t][i], func)
       PROVE  \/ func \in native' <=> func \in NativeFunc
              \/ /\ func \in native' <=> func \in native
                 /\ \A i \in 1 .. n : ~Restores(s[i], func)
    <2>1. \A i \in 1 .. n - 1 : ~Restores(s[i], func)
        BY <1>2, <1>13
    <2>2. CASE func = top.func
        BY <1>3, <1>11, <2>1, <2>2
    <2>3. CASE func # top.func
        BY <1>3, <1>7, <2>1, <2>3 DEF Restores
    <2> QED
        BY <2>2, <2>3
<1> QED
    BY <1>2, <1>5, <1>6, <1>9, <1>10, <1>12, <1>13, StepWithFlags

-----------------------------------------------------------------------------
(***************************************************************************)
(* With the lock enabled: at most one thread is in calls, and what each of *)
(* them saved is what it has to put back.                                  *)
(***************************************************************************)
THEOREM LocksInvariance ==
    ASSUME LockCalls
    PROVE  LocksSpec => []LocksInv
<1>1. LocksInv /\ [LocksNext]_lockVars => LocksInv'
    <2> SUFFICES ASSUME LocksInv, [LocksNext]_lockVars PROVE LocksInv'
        OBVIOUS
    <2>1. ASSUME NEW t \in Caller, NEW func \in Func, Call(t, func) PROVE LocksInv'
        BY <2>1, BeginKeepsInv DEF Call
    <2>2. ASSUME NEW t \in Caller, GameCall(t) PROVE LocksInv'
        BY <2>2, BeginKeepsInv DEF GameCall
    <2>3. ASSUME NEW t \in Caller, LoadPackage(t) PROVE LocksInv'
        BY <2>3, BeginKeepsInv DEF LoadPackage
    <2>4. ASSUME NEW t \in Caller, Lock(t) PROVE LocksInv'
        BY <2>4, LockKeepsInv
    <2>5. ASSUME NEW t \in Caller, Proceed(t) PROVE LocksInv'
        BY <2>5, ReadFlagsKeepsInv, SetNativeKeepsInv, RestoreFlagsKeepsInv DEF Proceed
    <2>6. ASSUME NEW t \in Caller, Return(t) PROVE LocksInv'
        BY <2>6, ReturnKeepsInv
    <2>7. CASE UNCHANGED lockVars
        BY <2>7 DEF lockVars, LocksInv, LocksTypeOK, Held, Shape, SavedRight, SetWhileRestoring, Untouched
    <2> QED
        BY <2>1, <2>2, <2>3, <2>4, <2>5, <2>6, <2>7 DEF LocksNext
<1> QED
    BY <1>1, LocksInvInit, PTL DEF LocksSpec

(***************************************************************************)
(* However calls nest and whichever threads make them, a function has the  *)
(* flags the game gave it whenever no BoundFunction call on it is under    *)
(* way, if unrealsdk.locking_function_calls is set.                        *)
(***************************************************************************)
THEOREM FlagsAreRestored ==
    ASSUME LockCalls
    PROVE  LocksSpec => []FlagsRestored
<1>1. LocksInv => FlagsRestored
    <2> SUFFICES ASSUME LocksInv, NEW func \in Func, ~UnderWay(func)
                 PROVE  func \in native <=> func \in NativeFunc
        BY DEF FlagsRestored
    <2>1. ASSUME NEW t \in Caller, NEW i \in 1 .. Len(stack[t]), Restores(stack[t][i], func)
          PROVE  FALSE
        <3>1. stack[t] \in Seq(Frame) /\ Shape(t)
            BY DEF LocksInv, LocksTypeOK
        <3>2. /\ i \in DOMAIN stack[t] /\ stack[t][i].kind = "call" /\ stack[t][i].func = func
              /\ stack[t][i].at # "wants"
            BY <2>1, <3>1, LenProperties DEF Shape, Restores
        <3> QED
            BY <3>2 DEF UnderWay
    <2>2. Untouched(func)
        BY <2>1 DEF Untouched
    <2> QED
        BY <2>2 DEF LocksInv
<1> QED
    BY <1>1, LocksInvariance, PTL

(***************************************************************************)
(* No nested call takes FUNC_NATIVE away from a function being processed.  *)
(***************************************************************************)
THEOREM NativeThroughout ==
    ASSUME LockCalls
    PROVE  LocksSpec => []NativeWhileProcessed
<1>1. LocksInv => NativeWhileProcessed
    <2> SUFFICES ASSUME LocksInv, NEW t \in Caller, NEW i \in DOMAIN stack[t],
                        stack[t][i].at = "restores"
                 PROVE  stack[t][i].func \in native
        BY DEF NativeWhileProcessed
    <2>1. i \in 1 .. Len(stack[t])
        BY LenProperties DEF LocksInv, LocksTypeOK
    <2> QED
        BY <2>1 DEF LocksInv, SetWhileRestoring
<1> QED
    BY <1>1, LocksInvariance, PTL

(***************************************************************************)
(* The setting does what it says: calls of different threads exclude each  *)
(* other.                                                                  *)
(***************************************************************************)
THEOREM CallsAreLocked ==
    ASSUME LockCalls
    PROVE  LocksSpec => []CallsExclude
<1>1. LocksInv => CallsExclude
    BY DEF LocksInv, CallsExclude, Held
<1> QED
    BY <1>1, LocksInvariance, PTL
=============================================================================

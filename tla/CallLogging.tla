----------------------------- MODULE CallLogging -----------------------------
(***************************************************************************)
(* log_all_calls and the part of preprocess_hook that depends on it: the   *)
(* name of a called function is taken early if calls are logged and late   *)
(* otherwise, and the flag that decides is read both times.  The function  *)
(* called is a hooked one, found by its name; threads call it and turn     *)
(* logging on and off.                                                     *)
(***************************************************************************)
EXTENDS Naturals

CONSTANTS
    Thread,
    OpenSucceeds,   \* how opening the file may turn out, a set of BOOLEANs
    OneAtATime      \* whether no two threads are in log_all_calls at once

VARIABLES
    should_log_all_calls,
    stream,     \* log_all_calls_stream
    thread      \* thread[t]: what t is doing

loggingVars == <<should_log_all_calls, stream, thread>>

(***************************************************************************)
(* want is the argument of log_all_calls; named, whether func_name is the  *)
(* full name; found, whether its hooks are.  History: calm, that no        *)
(* log_all_calls has run since the call began.                             *)
(***************************************************************************)
ThreadState == [at : {"idle", "opens", "sets", "closes",
                      "reads", "checks", "writes", "looks", "done"},
                want : BOOLEAN, named : BOOLEAN, found : BOOLEAN, calm : BOOLEAN]

Outside == [at |-> "idle", want |-> FALSE, named |-> FALSE, found |-> FALSE, calm |-> FALSE]

Toggling(t) == thread[t].at \in {"opens", "sets", "closes"}

LoggingInit ==
    /\ should_log_all_calls = FALSE
    /\ stream = [open |-> FALSE, failed |-> FALSE]
    /\ thread = [t \in Thread |-> Outside]

-----------------------------------------------------------------------------
(***************************************************************************)
(* log_all_calls                                                           *)
(***************************************************************************)
Toggle(t, on) ==
    /\ thread[t] = Outside
    /\ OneAtATime => \A u \in Thread : ~Toggling(u)
    /\ thread' = [u \in Thread |->
                    IF u = t THEN [Outside EXCEPT !.at = IF on THEN "opens" ELSE "sets", !.want = on]
                    ELSE [thread[u] EXCEPT !.calm = FALSE]]
    /\ UNCHANGED <<should_log_all_calls, stream>>

\* Opening a stream that is open fails, and writing to one that failed does nothing.
Open(t) ==
    /\ thread[t].at = "opens"
    /\ \E ok \in OpenSucceeds :
          stream' = IF stream.open THEN [stream EXCEPT !.failed = TRUE]
                    ELSE [open |-> ok, failed |-> ~ok]
    /\ thread' = [thread EXCEPT ![t].at = "sets"]
    /\ UNCHANGED should_log_all_calls

SetFlag(t) ==
    /\ thread[t].at = "sets"
    /\ should_log_all_calls' = thread[t].want
    /\ thread' = [thread EXCEPT ![t] = IF @.want THEN Outside ELSE [@ EXCEPT !.at = "closes"]]
    /\ UNCHANGED stream

Close(t) ==
    /\ thread[t].at = "closes"
    /\ stream' = IF stream.open THEN [stream EXCEPT !.open = FALSE] ELSE [stream EXCEPT !.failed = TRUE]
    /\ thread' = [thread EXCEPT ![t] = Outside]
    /\ UNCHANGED should_log_all_calls

-----------------------------------------------------------------------------
(***************************************************************************)
(* preprocess_hook, for a hooked function                                  *)
(***************************************************************************)
SetCall(t, call) ==
    /\ thread' = [thread EXCEPT ![t] = call]
    /\ UNCHANGED should_log_all_calls

CallFunction(t) ==
    /\ thread[t] = Outside
    /\ SetCall(t, [Outside EXCEPT !.at = "reads", !.calm = \A u \in Thread : ~Toggling(u)])
    /\ UNCHANGED stream

ReadFlag(t) ==
    /\ thread[t].at = "reads"
    /\ SetCall(t, [thread[t] EXCEPT !.at = IF should_log_all_calls THEN "checks" ELSE "looks"])
    /\ UNCHANGED stream

CheckOpen(t) ==
    /\ thread[t].at = "checks"
    /\ SetCall(t, IF stream.open THEN [thread[t] EXCEPT !.at = "writes", !.named = TRUE]
                  ELSE [thread[t] EXCEPT !.at = "looks"])
    /\ UNCHANGED stream

Write(t) ==
    /\ thread[t].at = "writes"
    /\ stream' = IF stream.open THEN stream ELSE [stream EXCEPT !.failed = TRUE]
    /\ SetCall(t, [thread[t] EXCEPT !.at = "looks"])

\* Slip: take the name early only.
LookUpUnnamed(t) ==
    /\ thread[t].at = "looks"
    /\ SetCall(t, [thread[t] EXCEPT !.at = "done", !.found = thread[t].named])
    /\ UNCHANGED stream

\* The name is taken now if calls are not logged; without one nothing is found.
LookUp(t) ==
    /\ thread[t].at = "looks"
    /\ SetCall(t, [thread[t] EXCEPT !.at = "done", !.found = thread[t].named \/ ~should_log_all_calls])
    /\ UNCHANGED stream

Finish(t) ==
    /\ thread[t].at = "done"
    /\ SetCall(t, Outside)
    /\ UNCHANGED stream

LoggingNext ==
    \E t \in Thread :
        \/ \E on \in BOOLEAN : Toggle(t, on)
        \/ Open(t) \/ SetFlag(t) \/ Close(t)
        \/ CallFunction(t) \/ ReadFlag(t) \/ CheckOpen(t) \/ Write(t) \/ LookUp(t) \/ Finish(t)

LoggingSpec == LoggingInit /\ [][LoggingNext]_loggingVars

-----------------------------------------------------------------------------

LoggingTypeOK ==
    /\ should_log_all_calls \in BOOLEAN
    /\ stream \in [open : BOOLEAN, failed : BOOLEAN]
    /\ thread \in [Thread -> ThreadState]

(***************************************************************************)
(* Hooks are found whether calls are logged or not, as long as that does   *)
(* not change during the call (hook_manager.cpp, preprocess_hook).  It     *)
(* depends on the file: if that could not be opened, the flag is set with  *)
(* the stream closed, the name is taken at neither place, and no hook of   *)
(* any function is found any more.                                         *)
(***************************************************************************)
UndisturbedCallsFindHooks == \A t \in Thread : thread[t].at = "done" /\ thread[t].calm => thread[t].found
=============================================================================

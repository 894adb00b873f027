------------------------------ MODULE MCThreads ------------------------------
(***************************************************************************)
(* Three parts of the sdk that several threads are in: the logger, the     *)
(* search of the executable, and the locks around functions, nested deep   *)
(* enough for a function to be called within itself.  A behaviour of this  *)
(* instance is one of any of them, with the others at rest.                *)
(***************************************************************************)
EXTENDS Logging, MultiSigscan, FunctionLocks

CONSTANTS t1, t2, builtin, client, f, g

VARIABLE part

\* Patterns that overlap with themselves, start with a wildcard or repeat the anchor.
MCPattern == << <<{1}, {1}>>, <<Byte, {1}, {0}>> >>

MCOffset == <<0, 1>>

\* A search that has ended without a match.
Searched ==
    /\ memory = [a \in Readable |-> 0]
    /\ result = [p \in Patterns |-> 0]
    /\ searcher = [t \in Searcher |->
          [at |-> "done", pos |-> ChunkEnd(t), anchor |-> ChunkEnd(t), p |-> 1, old |-> 0]]

MCInit ==
    /\ Init /\ LocksInit
    /\ \/ part = "search" /\ SearchInit
       \/ part \in {"logging", "locks"} /\ Searched

MCNext ==
    \/ part = "logging" /\ Next /\ UNCHANGED <<part, searchVars, lockVars>>
    \/ part = "search" /\ SearchNext /\ UNCHANGED <<part, vars, lockVars>>
    \/ part = "locks" /\ LocksNext /\ UNCHANGED <<part, vars, searchVars>>

\* At rest none of a part's steps is enabled, so that its fairness asks for nothing.
MCSpec ==
    /\ MCInit /\ [][MCNext]_<<part, vars, searchVars, lockVars>>
    /\ Fairness /\ SearchFairness /\ LocksFairness
=============================================================================

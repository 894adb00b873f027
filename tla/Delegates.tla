------------------------------ MODULE Delegates ------------------------------
(***************************************************************************)
(* A multicast delegate: an array of functions bound to objects, called    *)
(* one after the other.  The functions run arbitrary code, hooks included, *)
(* that may call the delegate again, bind more functions to it, clear it,  *)
(* set it from another one, or have the game collect a bound object.       *)
(***************************************************************************)
EXTENDS Naturals, Sequences

CONSTANTS
    Bound,      \* functions with the objects they are called on
    Gone,       \* an entry whose object has been collected
    Params,     \* Params[b]: the types of the parameters of b's function
    Finds,      \* Finds[b]: what looking b's function up by its name gives
    Signature,  \* the types of the delegate's parameters
    MaxBound,   \* bound on the size of the array
    MaxCalls    \* bound on calls nested in each other

ASSUME DelegatesAssumption ==
    /\ Gone \notin Bound
    /\ DOMAIN Params = Bound /\ Finds \in [Bound -> Bound \union {Gone}]
    /\ MaxBound \in Nat /\ MaxCalls \in Nat

VARIABLES
    bound,      \* the array
    calling,    \* the calls in progress, the innermost one last
    wild        \* an entry outside of the array, or a function that is not there, was used

delegateVars == <<bound, calling, wild>>

(***************************************************************************)
(* "next" is the top of the loop, "runs" a call with a copy of the         *)
(* parameters, "last" the one with the caller's own.  The rest is history: *)
(* what was called, how many were bound at first, whether the array was    *)
(* cleared, set or lost an object since, and whether the function that     *)
(* runs was given parameters that an earlier one has changed.              *)
(***************************************************************************)
MulticastCall ==
    [at : {"next", "runs", "last"}, i : Nat, edited : BOOLEAN,
     called : Seq(Nat), begun : Nat, disturbed : BOOLEAN, sawEdits : BOOLEAN]

NewCall ==
    [at |-> "next", i |-> 0, edited |-> FALSE,
     called |-> <<>>, begun |-> Len(bound), disturbed |-> FALSE, sawEdits |-> FALSE]

Innermost == calling[Len(calling)]

Calling(at) == calling # <<>> /\ Innermost.at \in at

SetInnermost(call) == calling' = [calling EXCEPT ![Len(calling)] = call]

\* Code outside of the delegate runs: nothing is being called, or one of its functions is.
MayUse == ~wild /\ (calling = <<>> \/ Calling({"runs", "last"}))

DelegatesInit ==
    /\ bound = <<>>
    /\ calling = <<>>
    /\ wild = FALSE

\* WrappedMulticastDelegate::call, with parameters of the right type.
CallDelegate ==
    /\ MayUse /\ Len(calling) < MaxCalls /\ bound # <<>>
    /\ calling' = Append(calling, NewCall)
    /\ UNCHANGED <<bound, wild>>

(***************************************************************************)
(* The size is read anew each time, and an empty array has the size minus  *)
(* one of 2^64 - 1.                                                        *)
(***************************************************************************)
\* Slip: the number of calls is settled at the start, which entry is last is not.
MoreBefore(call) == call.i + 1 < call.begun

MoreToCopyFor(call) == bound = <<>> \/ call.i + 1 < Len(bound)

\* The function called is that of the entry, which must be there and have an object.
RunEntry(i, at) ==
    IF i \in DOMAIN bound /\ bound[i] # Gone
    THEN /\ SetInnermost([Innermost EXCEPT !.at = at, !.called = Append(@, i),
                                           !.sawEdits = Innermost.edited])
         /\ UNCHANGED wild
    ELSE wild' = TRUE /\ UNCHANGED calling

CallNext ==
    /\ ~wild /\ Calling({"next"}) /\ MoreToCopyFor(Innermost)
    /\ RunEntry(Innermost.i + 1, "runs")
    /\ UNCHANGED bound

CallLast ==
    /\ ~wild /\ Calling({"next"}) /\ ~MoreToCopyFor(Innermost)
    /\ RunEntry(Len(bound), "last")
    /\ UNCHANGED bound

\* The function changes its parameters, which the caller sees if they are its own.
EditParams ==
    /\ ~wild /\ Calling({"runs", "last"})
    /\ SetInnermost([Innermost EXCEPT !.edited = @ \/ Innermost.at = "last"])
    /\ UNCHANGED <<bound, wild>>

FunctionReturns ==
    /\ ~wild /\ Calling({"runs"})
    /\ SetInnermost([Innermost EXCEPT !.at = "next", !.i = @ + 1])
    /\ UNCHANGED <<bound, wild>>

\* Also how the call ends when an exception leaves a function or looking one up.
CallEnds ==
    /\ ~wild /\ calling # <<>>
    /\ calling' = SubSeq(calling, 1, Len(calling) - 1)
    /\ UNCHANGED <<bound, wild>>

(***************************************************************************)
(* validate_signature: the function can be found again by its name, which  *)
(* is all that is stored, and its parameters have the delegate's types.    *)
(***************************************************************************)
IsValid(b) == Finds[b] = b /\ Params[b] = Signature

\* push_back.
BindAnother(b) ==
    /\ MayUse /\ Len(bound) < MaxBound /\ IsValid(b)
    /\ bound' = Append(bound, b)
    /\ UNCHANGED <<calling, wild>>

Disturbed == calling' = [c \in DOMAIN calling |-> [calling[c] EXCEPT !.disturbed = TRUE]]

Clear ==
    /\ MayUse /\ bound # <<>>
    /\ bound' = <<>>
    /\ Disturbed
    /\ UNCHANGED wild

\* PropTraits<ZMulticastDelegateProperty>::set from another delegate of the same signature.
SetFrom(entries) ==
    /\ MayUse
    /\ bound' = entries
    /\ Disturbed
    /\ UNCHANGED wild

\* The game collects the object that b is bound to.
Collect(b) ==
    /\ MayUse /\ \E i \in DOMAIN bound : bound[i] = b
    /\ bound' = [i \in DOMAIN bound |-> IF bound[i] = b THEN Gone ELSE bound[i]]
    /\ Disturbed
    /\ UNCHANGED wild

DelegatesNext ==
    \/ CallDelegate \/ CallNext \/ CallLast \/ EditParams \/ FunctionReturns \/ CallEnds \/ Clear
    \/ \E b \in Bound : BindAnother(b) \/ Collect(b)
    \/ \E b \in Bound : IsValid(b) /\ SetFrom(<<b>>)

DelegatesSpec == DelegatesInit /\ [][DelegatesNext]_delegateVars

-----------------------------------------------------------------------------

DelegatesTypeOK ==
    /\ bound \in Seq(Bound \union {Gone})
    /\ \A c \in DOMAIN calling : calling[c] \in MulticastCall
    /\ wild \in BOOLEAN

(***************************************************************************)
(* If all that happens to the array during a call is that more functions   *)
(* are bound, also by nested calls, then the call runs every function that *)
(* was bound at first, once and in order, up to the last one there is when *)
(* it comes to the last; each gets the parameters as they were passed; and *)
(* nothing is used that is not there.                                      *)
(***************************************************************************)
UndisturbedCallsAreWhole ==
    /\ \A c \in DOMAIN calling :
        ~calling[c].disturbed =>
            /\ \A k \in DOMAIN calling[c].called : calling[c].called[k] = k
            /\ calling[c].at = "last" => Len(calling[c].called) >= calling[c].begun
            /\ ~calling[c].sawEdits
    /\ wild => Innermost.disturbed \/ \E i \in DOMAIN bound : bound[i] = Gone
=============================================================================

------------------------------ MODULE MCObjects ------------------------------
(***************************************************************************)
(* The wrappers of the game's objects and values: owning pointers, arrays, *)
(* weak pointers, multicast delegates and the members of structs.  They    *)
(* share no state: a behaviour of this instance is one of any of them,     *)
(* with the others at rest.                                                *)
(***************************************************************************)
EXTENDS UnrealPointer, UnrealArray, WeakPointers, Delegates, StructFields, TLC

CONSTANTS
    t1, t2, p1, p2, p3, m1, m2, a1, a2, h1, h2, x1, x2, w1, w2,
    onClick, onHover, onType, onHidden

VARIABLE part

\* onType takes other parameters, and looking for onHidden by its name finds nothing.
MCParams == [b \in Bound |-> IF b = onType THEN <<"text">> ELSE <<"object">>]

MCSignature == <<"object">>

MCFinds == [b \in Bound |-> IF b = onHidden THEN Gone ELSE b]

\* Which of these it is makes no difference.
MCSymmetry == UNION {Permutations(S) : S \in {{a1, a2}, {h1, h2}, {w1, w2}, {onClick, onHover}}}

ArraysRest ==
    /\ inner = "str"
    /\ size = [a \in Array |-> 0]
    /\ cells = [a \in Array |-> <<>>]

StructsRest ==
    /\ ffield = FALSE /\ linked = TRUE
    /\ members = <<>>
    /\ via = "find_prop" /\ list = FirstList
    /\ iterator = Begin(list)
    /\ outcome = NotFound

MCInit ==
    /\ part \in {"pointers", "arrays", "weak", "delegates", "structs"}
    /\ PointersInit /\ ArraysInit /\ WeakInit /\ DelegatesInit
    /\ IF part = "structs" THEN StructsInit ELSE StructsRest
    /\ part # "arrays" => ArraysRest
    /\ part # "weak" => native

MCNext ==
    \/ part = "pointers" /\ PointersNext /\ UNCHANGED <<part, arrayVars, weakVars, delegateVars, structVars>>
    \/ part = "arrays" /\ ArraysNext /\ UNCHANGED <<part, ptrVars, weakVars, delegateVars, structVars>>
    \/ part = "weak" /\ WeakNext /\ UNCHANGED <<part, ptrVars, arrayVars, delegateVars, structVars>>
    \/ part = "delegates" /\ DelegatesNext /\ UNCHANGED <<part, ptrVars, arrayVars, weakVars, structVars>>
    \/ part = "structs" /\ StructsNext /\ UNCHANGED <<part, ptrVars, arrayVars, weakVars, delegateVars>>

MCSpec == MCInit /\ [][MCNext]_<<part, ptrVars, arrayVars, weakVars, delegateVars, structVars>>
=============================================================================

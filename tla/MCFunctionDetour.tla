-------------------------- MODULE MCFunctionDetour --------------------------
(***************************************************************************)
(* Instances of FunctionDetour.  f is an ordinary function with hooks of   *)
(* every type; g returns a struct the sdk knows in part, u a value of an   *)
(* unknown type.                                                           *)
(***************************************************************************)
EXTENDS FunctionDetour

CONSTANTS f, g, u, pre, post, always, gpre, gpost, upre, ualways

MCTypeOf == [h \in Hook |-> CASE h \in {pre, gpre, upre} -> "PRE"
                              [] h \in {post, gpost} -> "POST"
                              [] h \in {always, ualways} -> "POST_UNCONDITIONAL"]

MCFuncOf == [h \in Hook |-> CASE h \in {gpre, gpost} -> g
                              [] h \in {upre, ualways} -> u
                              [] OTHER -> f]
=============================================================================

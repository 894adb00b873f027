----------------------------- MODULE MCStartup ------------------------------
(***************************************************************************)
(* Instances of Startup.                                                   *)
(***************************************************************************)
EXTENDS Startup

CONSTANTS l1, l2, main, other
=============================================================================

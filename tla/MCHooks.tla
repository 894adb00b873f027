------------------------------- MODULE MCHooks -------------------------------
(***************************************************************************)
(* Instances of the hook manager, and of what else preprocess_hook relies  *)
(* on, whether calls are logged.  A behaviour is one of:                   *)
(*   table     every table that TableHooks can make, nothing being called; *)
(*   walk      a call among WalkHooks, whose removed nodes stay unique;    *)
(*   readding  a call among ReaddedHooks, added again and again;           *)
(*   log       calls of a hooked function while logging is turned on and   *)
(*             off (CallLogging, which has no state in common).            *)
(***************************************************************************)
EXTENDS MCHookManager, CallLogging

VARIABLE part

MCvars == <<vars, part, loggingVars>>

MCHooks == TableHooks \union WalkHooks

Clients ==
    CASE part = "table" -> TableHooks
      [] part = "walk" -> WalkHooks
      [] part = "readding" -> ReaddedHooks

MCInit ==
    /\ part \in {"table", "walk", "readding", "log"}
    /\ Init /\ LoggingInit
    /\ part = "readding" => witness \in ReaddedHooks
    /\ part \in {"table", "log"} => witness = HookOn(f, "PRE", a)

MCNext ==
    \/ /\ part # "log"
       /\ Client(Clients) \/ (part # "table" /\ Call(w))
       /\ part = "walk" => \A n \in DOMAIN table'.heap : n[2] = 1
       /\ UNCHANGED <<part, loggingVars>>
    \/ part = "log" /\ LoggingNext /\ UNCHANGED <<vars, part>>

MCSpec == MCInit /\ [][MCNext]_MCvars /\ Fairness
=============================================================================

----------------------------- MODULE MCCommands -----------------------------
(***************************************************************************)
(* The console: how the sdk takes it over, the commands entered in it - a  *)
(* line for each of two names and a blank line - and the history it keeps  *)
(* of them.  The commands do not look at the other two: a behaviour of     *)
(* this instance is one of any of the three, with the others at rest.      *)
(***************************************************************************)
EXTENDS Commands, ConsoleHistory, ConsoleSetup

CONSTANTS foo, bar, fooLine, barLine, otherLine, blankLine, b1, b2, b3, s1, F10

VARIABLE part

MCNameOf == [line \in Line |-> CASE line = fooLine -> foo
                                 [] line = barLine -> bar
                                 [] line = blankLine -> NEXT_LINE]

HistoryRests == kind = "ring" /\ NoRing /\ NoArray /\ cur = 0 /\ purged = <<>>

SetupRests ==
    /\ game = "BL2" /\ configured = NotConfigured
    /\ key = [s \in Settings |-> NoneKey]

MCInit ==
    /\ part \in {"commands", "history", "setup"}
    /\ Init
    /\ part # "setup" => SetupRests
    /\ SetupInit
    /\ IF part = "history" THEN HistoryInit ELSE HistoryRests

MCNext ==
    \/ part = "commands" /\ Next /\ UNCHANGED <<part, historyVars, setupVars>>
    \/ part = "history" /\ HistoryNext /\ UNCHANGED <<part, vars, setupVars>>
    \/ part = "setup" /\ SetupNext /\ UNCHANGED <<part, vars, historyVars>>

MCSpec == MCInit /\ [][MCNext]_<<part, vars, historyVars, setupVars>>
=============================================================================

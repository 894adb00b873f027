------------------------------ MODULE Commands ------------------------------
(***************************************************************************)
(* The registry of console commands, and the hooks that give it the lines  *)
(* submitted to the console (direct user input) and to the player          *)
(* controller (automated, and what the console itself passes on).  Hooks   *)
(* on the functions the console calls, callbacks and the game's own        *)
(* commands may submit further lines and add or remove commands, so the    *)
(* lines being handled form a stack.  This is the BL2 family's console;    *)
(* that of BL3 and BL4 is the part of it that treats all lines as direct.  *)
(***************************************************************************)
EXTENDS Naturals, Sequences

CONSTANTS
    Name,           \* the names commands are registered under, lower case
    NEXT_LINE,      \* the empty name
    Line,           \* the lines submitted
    NameOf,         \* NameOf[line]: its first word in lower case, NEXT_LINE if it is blank
    MaxDepth,       \* bound on the lines handled at once
    MaxAdds         \* bound on the number of registrations

Key == Name \union {NEXT_LINE}

None == 0           \* the registration of a key that has none

ASSUME CommandsAssumption ==
    /\ NEXT_LINE \notin Name
    /\ NameOf \in [Line -> Key]
    /\ MaxDepth \in Nat \ {0} /\ MaxAdds \in Nat

VARIABLES
    commands,       \* commands[key]: the registration of key, a serial number
    adds,           \* the number of registrations so far
    stack           \* the lines being handled, the innermost last

vars == <<commands, adds, stack>>

(***************************************************************************)
(* via: the function hooked, "console" or "controller".  at: the line was  *)
(* found valid ("valid"), its callback runs ("running"), the game's own    *)
(* Console:ConsoleCommand or PlayerController:ConsoleCommand runs          *)
(* ("console", "game"), or it is done.  key and id: the registration run.  *)
(* answers: who ran something for the line.  standing: its command was     *)
(* registered ever since it was submitted.                                 *)
(***************************************************************************)
Handling == [line : Line, via : {"console", "controller"},
             at : {"valid", "running", "console", "game", "done"},
             key : Key, id : 0 .. MaxAdds, answers : SUBSET {"sdk", "game"},
             standing : BOOLEAN]

Handled == stack # <<>>

Top == stack[Len(stack)]

SetTop(handling) == stack' = [stack EXCEPT ![Len(stack)] = handling]

Registered(key) == commands[key] # None

(***************************************************************************)
(* Code that is not the sdk's runs at any point of handling a line, except *)
(* between the two halves of the controller's hook and on the way out.     *)
(***************************************************************************)
ClientRuns ==
    Handled => Top.at # "done" /\ ~(Top.at = "valid" /\ Top.via = "controller")

-----------------------------------------------------------------------------

IsCommandValid(line, direct) ==
    \/ direct /\ Registered(NEXT_LINE)
    \/ NameOf[line] # NEXT_LINE /\ Registered(NameOf[line])

\* Slip: forget to erase the callback that is moved out.
KeptNextLine(registry) == registry

WithoutNextLine(registry) == [registry EXCEPT ![NEXT_LINE] = None]

Init ==
    /\ commands = [key \in Key |-> None]
    /\ adds = 0
    /\ stack = <<>>

AddCommand(key) ==
    /\ ClientRuns
    /\ adds < MaxAdds
    /\ ~Registered(key)
    /\ adds' = adds + 1
    /\ commands' = [commands EXCEPT ![key] = adds']
    /\ UNCHANGED stack

RemoveCommand(key) ==
    /\ ClientRuns
    /\ Registered(key)
    /\ commands' = [commands EXCEPT ![key] = None]
    /\ stack' = [i \in DOMAIN stack |->
                   IF NameOf[stack[i].line] = key /\ stack[i].at \in {"valid", "console"}
                   THEN [stack[i] EXCEPT !.standing = FALSE] ELSE stack[i]]
    /\ UNCHANGED adds

(***************************************************************************)
(* The hooks' check, which decides between the sdk and the game.  The      *)
(* console's also leads to its history and to printing the line, both of   *)
(* which call functions that may be hooked.                                *)
(***************************************************************************)
Checked(handling) ==
    IF IsCommandValid(handling.line, handling.via = "console")
    THEN [handling EXCEPT !.at = "valid"]
    ELSE IF handling.via = "console" THEN [handling EXCEPT !.at = "console"]
    ELSE [handling EXCEPT !.at = "game", !.answers = @ \union {"game"}]

Submit(line, via) ==
    /\ ClientRuns
    /\ Len(stack) < MaxDepth
    /\ stack' = Append(stack, Checked(
          [line |-> line, via |-> via, at |-> "valid", key |-> NEXT_LINE, id |-> None,
           answers |-> {}, standing |-> NameOf[line] # NEXT_LINE /\ Registered(NameOf[line])]))
    /\ UNCHANGED <<commands, adds>>

(***************************************************************************)
(* run_command prefers NEXT_LINE, takes it out of the registry and calls   *)
(* it.  Else it calls the line's command; if that has been removed since   *)
(* the check, at() throws, and a blank line just returns.                  *)
(***************************************************************************)
Running(key) == [Top EXCEPT !.at = "running", !.key = key, !.id = commands[key],
                            !.answers = @ \union {"sdk"}]

RunCommand ==
    /\ Handled
    /\ Top.at = "valid"
    /\ LET key == IF Registered(NEXT_LINE) THEN NEXT_LINE ELSE NameOf[Top.line]
       IN  /\ SetTop(IF Registered(key) THEN Running(key) ELSE [Top EXCEPT !.at = "done"])
           /\ commands' = IF key = NEXT_LINE THEN WithoutNextLine(commands) ELSE commands
    /\ UNCHANGED adds

\* Slip: let a line run on to the game after its callback.
CallbackPassesOn ==
    /\ Handled
    /\ Top.at = "running"
    /\ SetTop([Top EXCEPT !.at = IF Top.via = "console" THEN "console" ELSE "done"])
    /\ UNCHANGED <<commands, adds>>

\* Slip: erase the next line command when its callback returns.
CallbackErases ==
    /\ Handled
    /\ Top.at = "running"
    /\ SetTop([Top EXCEPT !.at = "done"])
    /\ commands' = IF Top.key = NEXT_LINE THEN WithoutNextLine(commands) ELSE commands
    /\ UNCHANGED adds

\* A callback returns or throws: either way the line does not reach the game.
CallbackReturns ==
    /\ Handled
    /\ Top.at = "running"
    /\ SetTop([Top EXCEPT !.at = "done"])
    /\ UNCHANGED <<commands, adds>>

\* The game's console hands the line to the player controller.
PassOn ==
    /\ Handled
    /\ Top.at = "console"
    /\ SetTop(Checked([Top EXCEPT !.via = "controller"]))
    /\ UNCHANGED <<commands, adds>>

GameReturns ==
    /\ Handled
    /\ Top.at = "game"
    /\ SetTop([Top EXCEPT !.at = "done"])
    /\ UNCHANGED <<commands, adds>>

Return ==
    /\ Handled
    /\ Top.at = "done"
    /\ stack' = SubSeq(stack, 1, Len(stack) - 1)
    /\ UNCHANGED <<commands, adds>>

Next ==
    \/ \E key \in Key : AddCommand(key) \/ RemoveCommand(key)
    \/ \E line \in Line, via \in {"console", "controller"} : Submit(line, via)
    \/ RunCommand \/ CallbackReturns
    \/ PassOn \/ GameReturns
    \/ Return

Spec == Init /\ [][Next]_vars

-----------------------------------------------------------------------------

TypeOK ==
    /\ commands \in [Key -> 0 .. MaxAdds]
    /\ adds \in 0 .. MaxAdds
    /\ stack \in Seq(Handling) /\ Len(stack) <= MaxDepth

(***************************************************************************)
(* A NEXT_LINE registration answers a single line, however lines nest in   *)
(* its callback: no two lines run the same one, nor does a line run one    *)
(* that is still there for the next.                                       *)
(***************************************************************************)
NextLineRunsOnce ==
    \A i \in DOMAIN stack :
        stack[i].id # None /\ stack[i].key = NEXT_LINE =>
            /\ commands[NEXT_LINE] # stack[i].id
            /\ \A j \in DOMAIN stack : stack[j].id = stack[i].id => i = j

(***************************************************************************)
(* A registration is never replaced by another, and ends only by a call of *)
(* remove_command or, a NEXT_LINE one, by the line it answers: one added   *)
(* from a NEXT_LINE callback outlives that callback, as menus need.        *)
(***************************************************************************)
RegistrationsEndWhenDue ==
    [][\A name \in Key :
          Registered(name) /\ commands'[name] # commands[name] =>
              \/ RemoveCommand(name)
              \/ /\ name = NEXT_LINE
                 /\ \E i \in DOMAIN stack : stack'[i].at = "running" /\ stack[i].at = "valid"
                                               /\ stack'[i].id = commands[NEXT_LINE]]_vars

(***************************************************************************)
(* A line whose command stays registered is answered by a callback, its    *)
(* own or a NEXT_LINE one, whatever the hooks on the way did, and one      *)
(* answered by a callback does not reach the game.                         *)
(***************************************************************************)
StandingCommandAnswers ==
    \A i \in DOMAIN stack :
        /\ stack[i].at = "done" /\ stack[i].standing => "sdk" \in stack[i].answers
        /\ stack[i].answers # {"sdk", "game"}

(***************************************************************************)
(* commands.h on NEXT_LINE: it should not be matched by automated commands.*)
(***************************************************************************)
NextLineIgnoresAutomated ==
    \A i \in DOMAIN stack :
        stack[i].at = "running" /\ stack[i].key = NEXT_LINE => stack[i].via = "console"
=============================================================================

----------------------------- MODULE ConsoleProofs -----------------------------
(***************************************************************************)
(* Proofs about the console.  Commands, for any names and lines, nested to *)
(* any depth, and any number of registrations: a NEXT_LINE command answers *)
(* one line, registrations end when they should, and a line reaches its    *)
(* command or the game but never both.  ConsoleSetup, for any settings     *)
(* objects and keys: a console that is ready has a key that opens it.      *)
(***************************************************************************)
EXTENDS Commands, ConsoleSetup, TLAPS

\* Each registration has a number of its own, one of those given out.
RegistrationsDiffer ==
    /\ \A name \in Key : commands[name] <= adds
    /\ \A name, other \in Key :
          Registered(name) /\ commands[other] = commands[name] => other = name

(***************************************************************************)
(* A registration that a line runs or ran may still be there only under    *)
(* the name it ran under: NEXT_LINE is taken out before it runs.           *)
(***************************************************************************)
RunsItsOwn(handling) ==
    /\ handling.id <= adds
    /\ \A name \in Key : Registered(name) /\ commands[name] = handling.id =>
          handling.key = name /\ name # NEXT_LINE

(***************************************************************************)
(* Nothing has run for a line that waits; while its command is standing,   *)
(* it is registered, and such a line never gets to the game.               *)
(***************************************************************************)
AnswersOnce(handling) ==
    /\ handling.at \in {"valid", "console"} =>
          /\ handling.answers = {}
          /\ handling.standing => NameOf[handling.line] # NEXT_LINE
                                  /\ Registered(NameOf[handling.line])
    /\ handling.at = "running" => handling.answers = {"sdk"}
    /\ handling.at = "game" => handling.answers = {"game"} /\ ~handling.standing
    /\ handling.at = "done" =>
          /\ handling.answers \in {{}, {"sdk"}, {"game"}}
          /\ handling.standing => handling.answers = {"sdk"}

LinesOK == \A i \in DOMAIN stack : RunsItsOwn(stack[i]) /\ AnswersOnce(stack[i])

IInv == TypeOK /\ RegistrationsDiffer /\ LinesOK /\ NextLineRunsOnce

-----------------------------------------------------------------------------

LEMMA TopIsHandling ==
    ASSUME TypeOK, Handled
    PROVE  Len(stack) \in DOMAIN stack /\ Top \in Handling
<1>1. Len(stack) \in Nat /\ Len(stack) # 0 /\ DOMAIN stack = 1 .. Len(stack)
    BY DEF TypeOK, Handled
<1> QED
    BY <1>1 DEF TypeOK, Top

LEMMA LinesAreHandlings ==
    ASSUME TypeOK
    PROVE  \A i \in DOMAIN stack :
              /\ stack[i] \in Handling /\ stack[i].id \in Nat /\ stack[i].key \in Key
              /\ NameOf[stack[i].line] \in Key
<1> SUFFICES ASSUME NEW i \in DOMAIN stack
             PROVE  /\ stack[i] \in Handling /\ stack[i].id \in Nat /\ stack[i].key \in Key
                    /\ NameOf[stack[i].line] \in Key
    OBVIOUS
<1>1. stack[i] \in Handling
    BY DEF TypeOK
<1>2. stack[i].line \in Line /\ stack[i].id \in 0 .. MaxAdds /\ stack[i].key \in Key
    BY <1>1 DEF Handling
<1> QED
    BY <1>1, <1>2, CommandsAssumption

(***************************************************************************)
(* A new top that has run what the old one had, and is consistent.         *)
(***************************************************************************)
LEMMA TopChangesInv ==
    ASSUME IInv, Handled, NEW handling \in Handling, SetTop(handling),
           UNCHANGED <<commands, adds>>,
           handling.key = Top.key, handling.id = Top.id, AnswersOnce(handling)
    PROVE  IInv'
<1>1. Len(stack) \in DOMAIN stack /\ Top \in Handling /\ stack \in Seq(Handling)
    BY TopIsHandling DEF IInv, TypeOK
<1>2. /\ stack' \in Seq(Handling) /\ Len(stack') = Len(stack) /\ DOMAIN stack' = DOMAIN stack
      /\ \A i \in DOMAIN stack : stack'[i] = IF i = Len(stack) THEN handling ELSE stack[i]
    BY <1>1 DEF SetTop
<1>3. TypeOK'
    BY <1>2 DEF IInv, TypeOK
<1>4. RegistrationsDiffer'
    BY DEF IInv, RegistrationsDiffer, Registered
<1>5. \A i \in DOMAIN stack : stack'[i].key = stack[i].key /\ stack'[i].id = stack[i].id
    BY <1>2 DEF Top
<1>6. NextLineRunsOnce'
    BY <1>2, <1>5 DEF IInv, NextLineRunsOnce
<1>7. ASSUME NEW i \in DOMAIN stack' PROVE RunsItsOwn(stack[i])' /\ AnswersOnce(stack[i])'
    <2>1. RunsItsOwn(stack[i])'
        BY <1>2, <1>5 DEF IInv, LinesOK, RunsItsOwn, Registered
    <2>2. AnswersOnce(stack[i])'
        BY <1>2 DEF IInv, LinesOK, AnswersOnce, Registered
    <2> QED
        BY <2>1, <2>2
<1> QED
    BY <1>3, <1>4, <1>6, <1>7 DEF IInv, LinesOK

LEMMA AddCommandInv ==
    ASSUME IInv, NEW name \in Key, AddCommand(name)
    PROVE  IInv'
<1> USE CommandsAssumption DEF None
<1>1. /\ stack' = stack /\ adds' = adds + 1 /\ adds \in Nat /\ adds < MaxAdds
      /\ commands' = [commands EXCEPT ![name] = adds + 1] /\ commands[name] = 0
      /\ commands \in [Key -> 0 .. MaxAdds]
    BY DEF AddCommand, IInv, TypeOK, Registered
<1>2. TypeOK'
    BY <1>1 DEF IInv, TypeOK
<1>3. \A other \in Key : /\ commands[other] \in Nat /\ commands[other] <= adds
                         /\ commands'[other] = IF other = name THEN adds + 1 ELSE commands[other]
    BY <1>1 DEF IInv, RegistrationsDiffer
<1>4. RegistrationsDiffer'
    BY <1>1, <1>3 DEF IInv, RegistrationsDiffer, Registered
<1>5. ASSUME NEW i \in DOMAIN stack PROVE RunsItsOwn(stack[i])' /\ AnswersOnce(stack[i])'
    <2>1. stack[i] \in Handling /\ stack[i].id \in Nat /\ stack[i].id <= adds
        BY LinesAreHandlings DEF IInv, LinesOK, RunsItsOwn
    <2>2. RunsItsOwn(stack[i])'
        BY <1>1, <1>3, <2>1 DEF IInv, LinesOK, RunsItsOwn, Registered
    <2>3. AnswersOnce(stack[i])'
        <3>1. \A other \in Key : Registered(other) => Registered(other)'
            BY <1>1, <1>3 DEF Registered
        <3>2. NameOf[stack[i].line] \in Key
            BY LinesAreHandlings DEF IInv
        <3> QED
            BY <1>1, <3>1, <3>2 DEF IInv, LinesOK, AnswersOnce
    <2> QED
        BY <2>2, <2>3
<1>6. NextLineRunsOnce'
    <2>1. NEXT_LINE \in Key
        BY DEF Key
    <2>2. \A i \in DOMAIN stack : stack[i].id \in Nat /\ stack[i].id <= adds
        BY LinesAreHandlings DEF IInv, LinesOK, RunsItsOwn
    <2> QED
        BY <1>1, <1>3, <2>1, <2>2 DEF IInv, NextLineRunsOnce
<1> QED
    BY <1>1, <1>2, <1>4, <1>5, <1>6 DEF IInv, LinesOK

LEMMA RemoveCommandInv ==
    ASSUME IInv, NEW name \in Key, RemoveCommand(name)
    PROVE  IInv'
<1> USE CommandsAssumption DEF None
<1> DEFINE Unsettled(i) == NameOf[stack[i].line] = name /\ stack[i].at \in {"valid", "console"}
<1>1. /\ adds' = adds /\ commands' = [commands EXCEPT ![name] = 0]
      /\ commands \in [Key -> 0 .. MaxAdds]
    BY DEF RemoveCommand, IInv, TypeOK
<1>2. \A other \in Key : commands'[other] = IF other = name THEN 0 ELSE commands[other]
    BY <1>1
<1>3. \A i \in DOMAIN stack : stack[i] \in Handling
    BY LinesAreHandlings DEF IInv
<1>4. /\ DOMAIN stack' = DOMAIN stack
      /\ \A i \in DOMAIN stack :
            /\ stack'[i] \in Handling
            /\ stack'[i] = IF Unsettled(i) THEN [stack[i] EXCEPT !.standing = FALSE] ELSE stack[i]
    BY <1>3 DEF RemoveCommand, Handling
<1>5. DOMAIN stack = 1 .. Len(stack) /\ Len(stack) \in Nat
    BY DEF IInv, TypeOK
<1>6. stack' \in Seq(Handling) /\ Len(stack') = Len(stack)
    <2>1. stack' = [i \in 1 .. Len(stack) |-> stack'[i]]
        BY <1>5 DEF RemoveCommand
    <2> QED
        BY <1>4, <1>5, <2>1
<1>7. TypeOK'
    BY <1>1, <1>6 DEF IInv, TypeOK
<1>8. RegistrationsDiffer'
    BY <1>1, <1>2 DEF IInv, TypeOK, RegistrationsDiffer, Registered
<1>9. \A i \in DOMAIN stack :
        /\ stack'[i].key = stack[i].key /\ stack'[i].id = stack[i].id /\ stack'[i].at = stack[i].at
        /\ stack'[i].answers = stack[i].answers /\ stack'[i].line = stack[i].line
        /\ stack'[i].standing => stack[i].standing /\ ~Unsettled(i)
    BY <1>3, <1>4 DEF Handling
<1>10. ASSUME NEW i \in DOMAIN stack' PROVE RunsItsOwn(stack[i])' /\ AnswersOnce(stack[i])'
    <2>1. i \in DOMAIN stack /\ NameOf[stack[i].line] \in Key
        BY <1>4, LinesAreHandlings DEF IInv
    <2>2. RunsItsOwn(stack[i])'
        BY <1>1, <1>2, <1>9, <2>1 DEF IInv, LinesOK, RunsItsOwn, Registered
    <2>3. stack[i].at \in {"valid", "console"} /\ stack'[i].standing
             => NameOf[stack[i].line] # NEXT_LINE /\ commands'[NameOf[stack[i].line]] # 0
        BY <1>2, <1>9, <2>1 DEF IInv, LinesOK, AnswersOnce, Registered
    <2>4. AnswersOnce(stack[i])'
        BY <1>9, <2>1, <2>3 DEF IInv, LinesOK, AnswersOnce, Registered
    <2> QED
        BY <2>2, <2>4
<1>11. NextLineRunsOnce'
    <2>1. NEXT_LINE \in Key
        BY DEF Key
    <2> QED
        BY <1>2, <1>4, <1>9, <2>1 DEF IInv, NextLineRunsOnce
<1> QED
    BY <1>7, <1>8, <1>10, <1>11 DEF IInv, LinesOK

(***************************************************************************)
(* A line that is submitted, or passed on, is either valid, because its    *)
(* name or NEXT_LINE is registered, or for the game.                       *)
(***************************************************************************)
LEMMA CheckedOK ==
    ASSUME IInv, NEW handling \in Handling, handling.answers = {},
           handling.standing => NameOf[handling.line] # NEXT_LINE /\ Registered(NameOf[handling.line])
    PROVE  /\ Checked(handling) \in Handling /\ AnswersOnce(Checked(handling))
           /\ Checked(handling).key = handling.key /\ Checked(handling).id = handling.id
<1> DEFINE waits(at) == [handling EXCEPT !.at = at]
           gives == [handling EXCEPT !.at = "game", !.answers = @ \union {"game"}]
<1>1. ASSUME NEW at \in {"valid", "console"}
      PROVE  /\ waits(at) \in Handling /\ AnswersOnce(waits(at))
             /\ waits(at).key = handling.key /\ waits(at).id = handling.id
    <2>1. /\ waits(at) \in Handling /\ waits(at).key = handling.key /\ waits(at).id = handling.id
          /\ waits(at).at = at /\ waits(at).answers = {} /\ waits(at).line = handling.line
          /\ waits(at).standing = handling.standing
        BY DEF Handling
    <2> HIDE DEF waits
    <2> QED
        BY <2>1 DEF AnswersOnce
<1>2. ASSUME ~IsCommandValid(handling.line, FALSE)
      PROVE  /\ gives \in Handling /\ AnswersOnce(gives)
             /\ gives.key = handling.key /\ gives.id = handling.id
    <2>1. /\ gives \in Handling /\ gives.key = handling.key /\ gives.id = handling.id
          /\ gives.at = "game" /\ gives.answers = {"game"} /\ gives.standing = handling.standing
        BY DEF Handling
    <2>2. ~handling.standing
        BY <1>2 DEF IsCommandValid
    <2> HIDE DEF gives
    <2> QED
        BY <2>1, <2>2 DEF AnswersOnce
<1>3. \/ Checked(handling) = waits("valid")
      \/ Checked(handling) = waits("console")
      \/ Checked(handling) = gives /\ ~IsCommandValid(handling.line, FALSE)
    BY DEF Checked, IsCommandValid
<1> HIDE DEF waits, gives
<1> QED
    BY <1>1, <1>2, <1>3

LEMMA SubmitInv ==
    ASSUME IInv, NEW line \in Line, NEW via \in {"console", "controller"}, Submit(line, via)
    PROVE  IInv'
<1> DEFINE stands == NameOf[line] # NEXT_LINE /\ Registered(NameOf[line])
           new == [line |-> line, via |-> via, at |-> "valid", key |-> NEXT_LINE, id |-> None,
                   answers |-> {}, standing |-> stands]
           checked == Checked(new)
<1>1. /\ new \in Handling /\ new.answers = {} /\ new.id = 0
      /\ new.standing => NameOf[new.line] # NEXT_LINE /\ Registered(NameOf[new.line])
    <2>1. stands \in BOOLEAN
        OBVIOUS
    <2>2. new.line = line /\ new.answers = {} /\ new.id = 0 /\ new.standing = stands
        BY DEF None
    <2> HIDE DEF stands
    <2>3. new \in Handling
        BY <2>1, CommandsAssumption DEF Handling, Key, None
    <2> HIDE DEF new
    <2> QED
        BY <2>2, <2>3 DEF stands
<1> HIDE DEF new
<1>2. checked \in Handling /\ AnswersOnce(checked) /\ checked.id = 0
    BY <1>1, CheckedOK
<1>3. stack' = Append(stack, checked) /\ UNCHANGED <<commands, adds>> /\ Len(stack) < MaxDepth
    BY DEF Submit, new
<1> HIDE DEF checked
<1>4. stack \in Seq(Handling) /\ Len(stack) \in Nat /\ DOMAIN stack = 1 .. Len(stack)
    BY DEF IInv, TypeOK
<1>5. /\ stack' \in Seq(Handling) /\ Len(stack') = Len(stack) + 1
      /\ DOMAIN stack' = 1 .. Len(stack) + 1
      /\ \A i \in DOMAIN stack' : stack'[i] = IF i = Len(stack) + 1 THEN checked ELSE stack[i]
    BY <1>2, <1>3, <1>4
<1>6. TypeOK'
    BY <1>3, <1>4, <1>5, CommandsAssumption DEF IInv, TypeOK
<1>7. RegistrationsDiffer'
    BY <1>3 DEF IInv, RegistrationsDiffer, Registered
<1>8. ASSUME NEW i \in DOMAIN stack' PROVE RunsItsOwn(stack[i])' /\ AnswersOnce(stack[i])'
    <2>1. CASE i = Len(stack) + 1
        <3>1. AnswersOnce(stack[i])'
            BY <1>2, <1>3, <1>5, <2>1 DEF AnswersOnce, Registered
        <3>2. RunsItsOwn(stack[i])'
            BY <1>2, <1>3, <1>5, <2>1 DEF RunsItsOwn, Registered, None, IInv, TypeOK
        <3> QED
            BY <3>1, <3>2
    <2>2. CASE i # Len(stack) + 1
        <3>1. i \in DOMAIN stack /\ stack'[i] = stack[i]
            BY <1>4, <1>5, <2>2
        <3>2. RunsItsOwn(stack[i]) /\ AnswersOnce(stack[i])
            BY <3>1 DEF IInv, LinesOK
        <3> QED
            BY <1>3, <3>1, <3>2 DEF RunsItsOwn, AnswersOnce, Registered
    <2> QED
        BY <2>1, <2>2
<1>9. NextLineRunsOnce'
    <2>1. \A i \in DOMAIN stack' : stack'[i].id # None => i \in DOMAIN stack /\ stack'[i] = stack[i]
        BY <1>2, <1>4, <1>5 DEF None
    <2> QED
        BY <1>3, <2>1 DEF IInv, NextLineRunsOnce
<1> QED
    BY <1>6, <1>7, <1>8, <1>9 DEF IInv, LinesOK

(***************************************************************************)
(* A line whose command was removed since the check ends without an answer *)
(* or error; one whose command stands has it, or NEXT_LINE, to run.        *)
(***************************************************************************)
LEMMA RunCommandInv ==
    ASSUME IInv, RunCommand
    PROVE  IInv'
<1> USE DEF None
<1> DEFINE name == IF Registered(NEXT_LINE) THEN NEXT_LINE ELSE NameOf[Top.line]
           runs == Running(name)
           ends == [Top EXCEPT !.at = "done"]
<1>1. Len(stack) \in DOMAIN stack /\ Top \in Handling /\ Top = stack[Len(stack)] /\ stack \in Seq(Handling)
    BY TopIsHandling DEF RunCommand, IInv, TypeOK, Top
<1>2. /\ Top.at = "valid" /\ Top.answers = {} /\ RunsItsOwn(Top)
      /\ Top.standing => NameOf[Top.line] # NEXT_LINE /\ Registered(NameOf[Top.line])
    BY <1>1 DEF RunCommand, IInv, LinesOK, AnswersOnce
<1>3. name \in Key /\ NEXT_LINE \in Key /\ commands \in [Key -> 0 .. MaxAdds] /\ adds' = adds
    BY <1>1, LinesAreHandlings DEF IInv, TypeOK, Key, RunCommand
<1>4. CASE ~Registered(name)
    <2>1. /\ ends \in Handling /\ ends.at = "done" /\ ends.answers = {}
          /\ ends.key = Top.key /\ ends.id = Top.id /\ ends.standing = Top.standing
        BY <1>1, <1>2 DEF Handling
    <2>2. ~Top.standing
        BY <1>2, <1>4
    <2>3. AnswersOnce(ends)
        <3> HIDE DEF ends
        <3> QED
            BY <2>1, <2>2 DEF AnswersOnce
    <2>4. SetTop(ends) /\ (name = NEXT_LINE => commands' = WithoutNextLine(commands))
          /\ (name # NEXT_LINE => commands' = commands)
        BY <1>4 DEF RunCommand
    <2>5. commands' = commands
        BY <1>3, <1>4, <2>4 DEF WithoutNextLine, Registered
    <2> HIDE DEF ends
    <2> QED
        BY <1>3, <2>1, <2>3, <2>4, <2>5, TopChangesInv DEF RunCommand
<1>5. CASE Registered(name)
    <2> DEFINE n == commands[name]
    <2>1. n \in 1 .. MaxAdds /\ n <= adds
        BY <1>3, <1>5 DEF IInv, RegistrationsDiffer, Registered
    <2>2. /\ runs \in Handling /\ runs.at = "running" /\ runs.answers = {"sdk"}
          /\ runs.key = name /\ runs.id = n
        BY <1>1, <1>2, <1>3, <2>1 DEF Handling, Running
    <2>3. /\ SetTop(runs)
          /\ commands' = IF name = NEXT_LINE THEN WithoutNextLine(commands) ELSE commands
        BY <1>5 DEF RunCommand
    <2>4. \A other \in Key : commands'[other] = IF other = NEXT_LINE /\ name = NEXT_LINE
                                                THEN 0 ELSE commands[other]
        BY <1>3, <2>3 DEF WithoutNextLine
    <2> HIDE DEF runs
    <2>5. /\ stack' \in Seq(Handling) /\ Len(stack') = Len(stack) /\ DOMAIN stack' = DOMAIN stack
          /\ \A i \in DOMAIN stack : stack'[i] = IF i = Len(stack) THEN runs ELSE stack[i]
        BY <1>1, <2>2, <2>3 DEF SetTop
    <2>6. TypeOK'
        <3>1. commands' \in [Key -> 0 .. MaxAdds]
            BY <1>3, <2>3, CommandsAssumption DEF WithoutNextLine
        <3> QED
            BY <1>3, <2>5, <3>1 DEF IInv, TypeOK
    <2>7. RegistrationsDiffer'
        BY <1>3, <2>4 DEF IInv, TypeOK, RegistrationsDiffer, Registered
    \* Nobody has run this registration before, unless it is under its own name.
    <2>8. \A other \in Key : Registered(other) /\ commands[other] = n => other = name
        BY <1>3, <1>5 DEF IInv, RegistrationsDiffer
    <2>9. name = NEXT_LINE => \A other \in Key : commands'[other] # n
        BY <2>1, <2>4, <2>8 DEF Registered
    <2>10. name # NEXT_LINE => ~Registered(NEXT_LINE)
        OBVIOUS
    <2>11. \A i \in DOMAIN stack : stack[i].id = n => stack[i].key = name /\ name # NEXT_LINE
        BY <1>3, <1>5 DEF IInv, LinesOK, RunsItsOwn
    <2> HIDE DEF n, name
    <2>12. ASSUME NEW i \in DOMAIN stack' PROVE RunsItsOwn(stack[i])' /\ AnswersOnce(stack[i])'
        <3>1. CASE i = Len(stack)
            <4>1. AnswersOnce(stack[i])'
                BY <2>2, <2>5, <3>1 DEF AnswersOnce
            <4>2. RunsItsOwn(stack[i])'
                <5>1. stack'[i].id = n /\ stack'[i].key = name
                    BY <2>2, <2>5, <3>1
                <5>2. ASSUME NEW other \in Key, commands'[other] # 0, commands'[other] = n
                      PROVE  name = other /\ other # NEXT_LINE
                    BY <2>4, <2>8, <2>9, <2>10, <5>2 DEF Registered
                <5> QED
                    BY <1>3, <2>1, <5>1, <5>2 DEF RunsItsOwn, Registered
            <4> QED
                BY <4>1, <4>2
        <3>2. CASE i # Len(stack)
            <4>1. i \in DOMAIN stack /\ stack'[i] = stack[i] /\ NameOf[stack[i].line] \in Key
                BY <2>5, <3>2, LinesAreHandlings DEF IInv
            <4>2. RunsItsOwn(stack[i]) /\ AnswersOnce(stack[i])
                BY <4>1 DEF IInv, LinesOK
            <4>3. \A other \in Key : commands'[other] # 0 => commands'[other] = commands[other]
                BY <2>4
            <4>4. \A other \in Key : other # NEXT_LINE => commands'[other] = commands[other]
                BY <2>4
            <4>5. RunsItsOwn(stack[i])'
                BY <1>3, <4>1, <4>2, <4>3 DEF RunsItsOwn, Registered
            <4>6. AnswersOnce(stack[i])'
                BY <4>1, <4>2, <4>4 DEF AnswersOnce, Registered
            <4> QED
                BY <4>5, <4>6
        <3> QED
            BY <3>1, <3>2
    <2>13. NextLineRunsOnce'
        <3> SUFFICES ASSUME NEW i \in DOMAIN stack', stack'[i].id # 0, stack'[i].key = NEXT_LINE
                     PROVE  /\ commands'[NEXT_LINE] # stack'[i].id
                            /\ \A j \in DOMAIN stack' : stack'[j].id = stack'[i].id => i = j
            BY DEF NextLineRunsOnce
        <3>1. CASE i = Len(stack)
            <4>1. stack'[i].id = n /\ name = NEXT_LINE
                BY <2>2, <2>5, <3>1
            <4>2. \A j \in DOMAIN stack' : j # Len(stack) => stack'[j].id # n
                BY <2>5, <2>11, <4>1
            <4> QED
                BY <1>3, <2>9, <3>1, <4>1, <4>2
        <3>2. CASE i # Len(stack)
            <4>1. i \in DOMAIN stack /\ stack'[i] = stack[i]
                BY <2>5, <3>2
            <4>2. /\ commands[NEXT_LINE] # stack[i].id
                  /\ \A j \in DOMAIN stack : stack[j].id = stack[i].id => i = j
                BY <4>1 DEF IInv, NextLineRunsOnce
            <4>3. stack[i].id # n
                BY <2>11, <4>1
            <4>4. commands'[NEXT_LINE] # stack'[i].id
                BY <1>3, <2>4, <4>1, <4>2
            <4> QED
                BY <2>2, <2>5, <4>1, <4>2, <4>3, <4>4
        <3> QED
            BY <3>1, <3>2
    <2> QED
        BY <2>6, <2>7, <2>12, <2>13 DEF IInv, LinesOK
<1> QED
    BY <1>4, <1>5

LEMMA ReturnInv ==
    ASSUME IInv, Return
    PROVE  IInv'
<1>1. stack \in Seq(Handling) /\ Len(stack) \in Nat /\ Len(stack) # 0 /\ DOMAIN stack = 1 .. Len(stack)
    BY DEF IInv, TypeOK, Return, Handled
<1>2. stack' = SubSeq(stack, 1, Len(stack) - 1) /\ UNCHANGED <<commands, adds>>
    BY DEF Return
<1>3. /\ stack' \in Seq(Handling) /\ Len(stack') = Len(stack) - 1
      /\ DOMAIN stack' = 1 .. Len(stack) - 1
      /\ \A i \in DOMAIN stack' : i \in DOMAIN stack /\ stack'[i] = stack[i]
    BY <1>1, <1>2
<1>4. TypeOK'
    BY <1>1, <1>2, <1>3, CommandsAssumption DEF IInv, TypeOK
<1>5. RegistrationsDiffer'
    BY <1>2 DEF IInv, RegistrationsDiffer, Registered
<1>6. LinesOK'
    <2> SUFFICES ASSUME NEW i \in DOMAIN stack' PROVE RunsItsOwn(stack[i])' /\ AnswersOnce(stack[i])'
        BY DEF LinesOK
    <2>1. stack'[i] = stack[i] /\ RunsItsOwn(stack[i]) /\ AnswersOnce(stack[i])
        BY <1>3 DEF IInv, LinesOK
    <2> QED
        BY <1>2, <2>1 DEF RunsItsOwn, AnswersOnce, Registered
<1>7. NextLineRunsOnce'
    BY <1>2, <1>3 DEF IInv, NextLineRunsOnce
<1> QED
    BY <1>4, <1>5, <1>6, <1>7 DEF IInv

(***************************************************************************)
(* The steps that change the top line alone: a callback or the game's own  *)
(* command returns, the console passes the line on.                        *)
(***************************************************************************)
LEMMA TopStepsInv ==
    ASSUME IInv, CallbackReturns \/ GameReturns \/ PassOn
    PROVE  IInv'
<1>1. Handled /\ UNCHANGED <<commands, adds>>
    BY DEF CallbackReturns, GameReturns, PassOn
<1>2. Top \in Handling /\ AnswersOnce(Top)
    BY <1>1, TopIsHandling DEF IInv, LinesOK, Top
<1>3. CASE CallbackReturns \/ GameReturns
    <2> DEFINE handling == [Top EXCEPT !.at = "done"]
    <2>1. /\ handling \in Handling /\ handling.key = Top.key /\ handling.id = Top.id
          /\ handling.at = "done" /\ handling.answers = Top.answers /\ handling.standing = Top.standing
        BY <1>2 DEF Handling
    <2>2. SetTop(handling) /\ Top.at \in {"running", "game"}
        BY <1>3 DEF CallbackReturns, GameReturns
    <2> HIDE DEF handling
    <2>3. AnswersOnce(handling)
        BY <1>2, <2>1, <2>2 DEF AnswersOnce
    <2> QED
        BY <1>1, <2>1, <2>2, <2>3, TopChangesInv
<1>4. CASE PassOn
    <2> DEFINE passed == [Top EXCEPT !.via = "controller"]
    <2>1. /\ passed \in Handling /\ passed.key = Top.key /\ passed.id = Top.id
          /\ passed.answers = Top.answers /\ passed.standing = Top.standing /\ passed.line = Top.line
        BY <1>2 DEF Handling
    <2>2. SetTop(Checked(passed)) /\ Top.at = "console"
        BY <1>4 DEF PassOn
    <2> HIDE DEF passed
    <2>3. /\ passed.answers = {}
          /\ passed.standing => NameOf[passed.line] # NEXT_LINE /\ Registered(NameOf[passed.line])
        BY <1>2, <2>1, <2>2 DEF AnswersOnce
    <2> QED
        BY <1>1, <2>1, <2>2, <2>3, CheckedOK, TopChangesInv
<1> QED
    BY <1>3, <1>4

-----------------------------------------------------------------------------
(***************************************************************************)
(* The invariant: registrations are numbered apart, and each line's state  *)
(* agrees with what was run for it.                                        *)
(***************************************************************************)
THEOREM Invariance == Spec => []IInv
<1>1. Init => IInv
    <2> SUFFICES ASSUME Init PROVE IInv
        OBVIOUS
    <2>1. TypeOK
        BY CommandsAssumption DEF Init, TypeOK, None
    <2>2. RegistrationsDiffer /\ LinesOK /\ NextLineRunsOnce
        BY CommandsAssumption DEF Init, RegistrationsDiffer, Registered, None, LinesOK, NextLineRunsOnce
    <2> QED
        BY <2>1, <2>2 DEF IInv
<1>2. IInv /\ [Next]_vars => IInv'
    <2> SUFFICES ASSUME IInv, [Next]_vars PROVE IInv'
        OBVIOUS
    <2>1. CASE UNCHANGED vars
        BY <2>1 DEF vars, IInv, TypeOK, RegistrationsDiffer, LinesOK, RunsItsOwn, AnswersOnce,
                    Registered, NextLineRunsOnce
    <2> QED
        BY <2>1, AddCommandInv, RemoveCommandInv, SubmitInv, RunCommandInv, ReturnInv, TopStepsInv
           DEF Next
<1> QED
    BY <1>1, <1>2, PTL DEF Spec

(***************************************************************************)
(* A NEXT_LINE registration answers one line, however lines nest.          *)
(***************************************************************************)
THEOREM NextLineOnce == Spec => []NextLineRunsOnce
<1>1. IInv => NextLineRunsOnce
    BY DEF IInv
<1> QED
    BY <1>1, Invariance, PTL

(***************************************************************************)
(* A line whose command stays registered is answered by a callback, and no *)
(* line is answered by both a callback and the game.                       *)
(***************************************************************************)
THEOREM CommandsAnswer == Spec => []StandingCommandAnswers
<1>1. IInv => StandingCommandAnswers
    <2> SUFFICES ASSUME IInv, NEW i \in DOMAIN stack
                 PROVE  /\ stack[i].at = "done" /\ stack[i].standing => "sdk" \in stack[i].answers
                        /\ stack[i].answers # {"sdk", "game"}
        BY DEF StandingCommandAnswers
    <2>1. AnswersOnce(stack[i]) /\ stack[i] \in Handling
        BY LinesAreHandlings DEF IInv, LinesOK
    <2>2. stack[i].at \in {"valid", "running", "console", "game", "done"}
        BY <2>1 DEF Handling
    <2>3. stack[i].answers \in {{}, {"sdk"}, {"game"}}
        BY <2>1, <2>2 DEF AnswersOnce
    <2>4. stack[i].at = "done" /\ stack[i].standing => stack[i].answers = {"sdk"}
        BY <2>1 DEF AnswersOnce
    <2> QED
        BY <2>3, <2>4
<1> QED
    BY <1>1, Invariance, PTL

(***************************************************************************)
(* Registrations are never replaced, and end by remove_command or, under   *)
(* NEXT_LINE, with the line they answer.                                   *)
(***************************************************************************)
THEOREM RegistrationsEnd == Spec => RegistrationsEndWhenDue
<1> DEFINE EndsWhenDue ==
              \A name \in Key :
                  Registered(name) /\ commands'[name] # commands[name] =>
                      \/ RemoveCommand(name)
                      \/ /\ name = NEXT_LINE
                         /\ \E i \in DOMAIN stack : stack'[i].at = "running" /\ stack[i].at = "valid"
                                                       /\ stack'[i].id = commands[NEXT_LINE]
           TakenToRun(name) ==
              /\ name = NEXT_LINE
              /\ \E i \in DOMAIN stack : stack'[i].at = "running" /\ stack[i].at = "valid"
                                            /\ stack'[i].id = commands[NEXT_LINE]
<1>1. IInv /\ [Next]_vars => [EndsWhenDue]_vars
    <2> SUFFICES ASSUME IInv, Next, NEW name \in Key, Registered(name), commands'[name] # commands[name]
                 PROVE  RemoveCommand(name) \/ TakenToRun(name)
        OBVIOUS
    <2>1. commands \in [Key -> 0 .. MaxAdds]
        BY DEF IInv, TypeOK
    <2>2. ASSUME NEW other \in Key, AddCommand(other) PROVE FALSE
        BY <2>1, <2>2 DEF AddCommand
    <2>3. ASSUME NEW other \in Key, RemoveCommand(other) PROVE RemoveCommand(name)
        BY <2>1, <2>3 DEF RemoveCommand
    <2>4. CASE RunCommand
        <3>1. Len(stack) \in DOMAIN stack /\ Top \in Handling /\ Top = stack[Len(stack)]
            BY <2>4, TopIsHandling DEF RunCommand, IInv, Top
        <3>2. name = NEXT_LINE /\ Registered(NEXT_LINE)
            BY <2>1, <2>4 DEF RunCommand, WithoutNextLine
        <3>3. SetTop(Running(NEXT_LINE)) /\ Top.at = "valid"
            BY <2>4, <3>2 DEF RunCommand
        <3>4. stack' = [stack EXCEPT ![Len(stack)] = Running(NEXT_LINE)]
            BY <3>3 DEF SetTop
        <3>5. stack'[Len(stack)] = Running(NEXT_LINE)
            BY <3>1, <3>4 DEF IInv, TypeOK
        <3>6. Running(NEXT_LINE).at = "running" /\ Running(NEXT_LINE).id = commands[NEXT_LINE]
            BY <3>1 DEF Running, Handling
        <3> QED
            BY <3>1, <3>2, <3>3, <3>5, <3>6
    <2>5. CASE \/ CallbackReturns \/ PassOn \/ GameReturns \/ Return
               \/ \E line \in Line, via \in {"console", "controller"} : Submit(line, via)
        BY <2>5 DEF CallbackReturns, PassOn, GameReturns, Return, Submit
    <2> QED
        BY <2>2, <2>3, <2>4, <2>5 DEF Next
<1> QED
    BY <1>1, Invariance, PTL DEF Spec, RegistrationsEndWhenDue

-----------------------------------------------------------------------------
(***************************************************************************)
(* ConsoleSetup.  What ReadyConsolesOpen says of the keys of s: true from  *)
(* the injection on, which alone changes keys.                             *)
(***************************************************************************)
Opens(s) ==
    LET before == {name \in found[s] : Real(name)}
        now == {name \in InEffect(s) : Real(name)}
    IN
    /\ before = {} /\ ~LeftUnset(s) => now = {Wanted}
    /\ IF game = "BL4" /\ configured # NotConfigured
       THEN configured \in now
       ELSE before \subseteq now
    /\ game = "BL3" => InEffect(s) = ToSet(keys[s])

SetupTyped ==
    /\ SetupTypeOK
    /\ configured \in {name \in KeyName : Real(name)} \union {NotConfigured}

SetupIInv ==
    /\ SetupTyped
    /\ waiting \in BOOLEAN
    /\ waiting => console # "sdk" /\ \A s \in Settings : found[s] = InEffect(s)
    /\ ~waiting => \A s \in Settings : Opens(s)

LEMMA SetupInitInv ==
    ASSUME SetupInit
    PROVE  SetupIInv
<1>1. keys \in [Settings -> Seq(KeyName)]
    <2>1. ASSUME NEW list \in SeqOf(KeyName, 2) PROVE list \in Seq(KeyName)
        <3>1. PICK m \in 0 .. 2 : list \in [1 .. m -> KeyName]
            BY DEF SeqOf
        <3> QED
            BY <3>1
    <2> QED
        BY <2>1 DEF SetupInit
<1>2. SetupTyped
    BY <1>1, SetupAssumption DEF SetupInit, SetupTyped, SetupTypeOK
<1>3. console # "sdk"
    BY DEF SetupInit
<1>4. waiting = TRUE /\ \A s \in Settings : found[s] = InEffect(s)
    BY DEF SetupInit
<1> QED
    BY <1>2, <1>3, <1>4 DEF SetupIInv

\* Only the injection touches keys; what follows it may only detour a function.
LEMMA LaterStepsInv ==
    ASSUME SetupIInv, Unpack \/ Poll \/ UNCHANGED setupVars
    PROVE  SetupIInv'
<1>1. UNCHANGED <<game, configured, waiting, console, key, keys, found>>
    BY DEF Unpack, Poll, setupVars
<1>2. polls' \in 0 .. MaxPolls /\ detour' \in {"none", "created", "enabled"}
    BY SetupAssumption DEF SetupIInv, SetupTyped, SetupTypeOK, Unpack, Poll, Detoured, setupVars
<1>3. SetupTyped'
    BY <1>1, <1>2 DEF SetupIInv, SetupTyped, SetupTypeOK, Real
<1>4. ASSUME NEW s \in Settings
      PROVE  /\ InEffect(s)' = InEffect(s)
             /\ Opens(s) => Opens(s)'
    <2>1. InEffect(s)' = InEffect(s)
        BY <1>1 DEF InEffect
    <2> QED
        BY <1>1, <2>1 DEF Opens, LeftUnset, Wanted, Real
<1> QED
    BY <1>1, <1>3, <1>4 DEF SetupIInv

\* A key to open the console is one that is real.
LEMMA WantedIsKey ==
    ASSUME SetupTyped
    PROVE  Wanted \in KeyName /\ Real(Wanted) /\ (configured # NotConfigured => Wanted = configured)
    BY SetupAssumption DEF SetupTyped, Wanted, Real

LEMMA InjectInv ==
    ASSUME SetupIInv, Inject
    PROVE  SetupIInv'
<1>1. /\ waiting /\ waiting' = FALSE
      /\ UNCHANGED <<game, configured, found, polls>>
    BY DEF Inject
<1>2. /\ SetupTyped /\ Wanted \in KeyName /\ Real(Wanted)
      /\ configured # NotConfigured => Wanted = configured
      /\ Wanted' = Wanted
      /\ \A s \in Settings : found[s] = InEffect(s)
      /\ key \in [Settings -> KeyName] /\ keys \in [Settings -> Seq(KeyName)]
    BY <1>1, WantedIsKey DEF SetupIInv, SetupTyped, SetupTypeOK, Wanted
<1>3. CASE InjectWillow \/ InjectBL3
    <2>1. /\ game # "BL4" /\ key' = [s \in Settings |-> KeyFor(key[s])]
          /\ detour' \in {"none", "created", "enabled"}
          /\ \/ game # "BL3" /\ keys' = keys
             \/ keys' = [s \in Settings |-> <<key'[s]>>]
        BY <1>2, <1>3 DEF InjectWillow, InjectBL3, Willow, SetupTyped, SetupTypeOK
    <2>2. \A s \in Settings : KeyFor(key[s]) \in KeyName
        BY <1>2 DEF KeyFor
    <2>3. key' \in [Settings -> KeyName] /\ keys' \in [Settings -> Seq(KeyName)]
        <3>1. key' \in [Settings -> KeyName]
            BY <2>1, <2>2
        <3>2. \A s \in Settings : <<key'[s]>> \in Seq(KeyName)
            BY <3>1
        <3> QED
            BY <1>2, <2>1, <3>1, <3>2
    <2>4. SetupTyped'
        BY <1>1, <1>2, <2>1, <2>3 DEF SetupTyped, SetupTypeOK, Real
    <2>5. ASSUME NEW s \in Settings PROVE Opens(s)'
        <3>1. /\ found'[s] = {key[s]} /\ InEffect(s)' = {KeyFor(key[s])} /\ key[s] \in KeyName
            BY <1>1, <1>2, <2>1 DEF InEffect
        <3>2. game = "BL3" => ToSet(keys'[s]) = {key'[s]}
            BY <2>1 DEF ToSet
        <3>3. Real(key[s]) => KeyFor(key[s]) = key[s]
            BY DEF KeyFor, Replaced, Real
        <3>4. ~Real(key[s]) => KeyFor(key[s]) = Wanted \/ LeftUnset(s)'
            BY <1>1, <3>1 DEF KeyFor, Replaced, Real, LeftUnset
        <3>5. game = "BL3" => InEffect(s)' = ToSet(keys'[s])
            BY <2>1, <3>1, <3>2
        <3> QED
            BY <1>1, <1>2, <2>1, <3>1, <3>3, <3>4, <3>5 DEF Opens, Real
    <2> QED
        BY <1>1, <2>4, <2>5 DEF SetupIInv
<1>4. CASE InjectBL4
    <2>1. /\ game = "BL4" /\ keys' = [s \in Settings |-> KeysFor(keys[s])]
          /\ key' = key /\ detour' = detour
        BY <1>4 DEF InjectBL4
    <2>2. \A s \in Settings : KeysFor(keys[s]) \in Seq(KeyName)
        BY <1>2 DEF KeysFor, SetupTyped
    <2>3. SetupTyped'
        BY <1>1, <1>2, <2>1, <2>2 DEF SetupTyped, SetupTypeOK, Real
    <2>4. ASSUME NEW s \in Settings PROVE Opens(s)'
        <3> DEFINE list == keys[s]
        <3>1. /\ found'[s] = ToSet(list) /\ InEffect(s)' = ToSet(KeysFor(list))
              /\ list \in Seq(KeyName)
            BY <1>1, <1>2, <2>1 DEF InEffect
        <3> HIDE DEF list
        <3>2. CASE list = <<>>
            <4>1. ToSet(list) = {} /\ ToSet(KeysFor(list)) = {Wanted}
                BY <3>2 DEF ToSet, KeysFor
            <4> QED
                BY <1>1, <1>2, <2>1, <3>1, <4>1 DEF Opens, Real
        <3>3. CASE list # <<>> /\ configured \in {NotConfigured, list[1]}
            <4>1. KeysFor(list) = list /\ list[1] \in ToSet(list)
                BY <3>1, <3>3 DEF ToSet, KeysFor
            <4>2. configured # NotConfigured => configured \in ToSet(list) /\ Real(configured)
                BY <1>2, <3>3, <4>1 DEF SetupTyped
            <4>3. configured = NotConfigured => LeftUnset(s)'
                BY <1>1, <2>1, <3>1, <4>1 DEF LeftUnset
            <4> QED
                BY <1>1, <2>1, <3>1, <4>1, <4>2, <4>3 DEF Opens, Real
        <3>4. CASE list # <<>> /\ configured \notin {NotConfigured, list[1]}
            <4>1. ToSet(KeysFor(list)) = {configured} /\ Real(configured) /\ Wanted = configured
                BY <1>2, <3>4 DEF ToSet, KeysFor
            <4> QED
                BY <1>1, <1>2, <2>1, <3>1, <3>4, <4>1 DEF Opens, Real
        <3> QED
            BY <3>2, <3>3, <3>4
    <2> QED
        BY <1>1, <2>3, <2>4 DEF SetupIInv
<1> QED
    BY <1>3, <1>4 DEF Inject

(***************************************************************************)
(* The keys in effect are the ones found until the console is injected,    *)
(* and open it from then on.                                               *)
(***************************************************************************)
THEOREM SetupInvariance == SetupSpec => []SetupIInv
<1>1. SetupIInv /\ [SetupNext]_setupVars => SetupIInv'
    BY InjectInv, LaterStepsInv DEF SetupNext
<1> QED
    BY <1>1, SetupInitInv, PTL DEF SetupSpec

(***************************************************************************)
(* Whatever keys were set and wanted, in every game: a console that is     *)
(* ready has a key that opens it, except where the code leaves it unset.   *)
(***************************************************************************)
THEOREM ConsolesOpen == SetupSpec => []ReadyConsolesOpen
<1>1. SetupIInv => ReadyConsolesOpen
    BY DEF SetupIInv, ReadyConsolesOpen, is_console_ready, Opens
<1> QED
    BY <1>1, SetupInvariance, PTL
=============================================================================

----------------------------- MODULE RecentLines -----------------------------
(***************************************************************************)
(* What a console's history is to the player who scrolls through it: the   *)
(* most recent lines, oldest first.  Entering a line takes an older copy   *)
(* of it out and puts it at the end, at once or, with lines of others      *)
(* entered in between, in two steps.  Lines that do not fit are forgotten. *)
(***************************************************************************)
EXTENDS Naturals, Sequences, SequencesExt

CONSTANTS
    HistoryLine,
    Most            \* the number of lines it holds

VARIABLES
    lines,
    pending         \* the lines taken out that are not at the end yet, the innermost last

recentVars == <<lines, pending>>

RecentInit ==
    /\ lines \in SeqOf(HistoryLine, Most)
    /\ IsInjective(lines)
    /\ pending = <<>>

Trimmed(entered) ==
    SubSeq(entered, IF Len(entered) > Most THEN Len(entered) - Most + 1 ELSE 1, Len(entered))

TakeOut(line) ==
    /\ lines' = RemoveFirst(lines, line)
    /\ pending' = Append(pending, line)

PutAtEnd ==
    /\ pending # <<>>
    /\ lines' = Trimmed(Append(lines, Last(pending)))
    /\ pending' = Front(pending)

Enter(line) ==
    /\ lines' = Trimmed(Append(RemoveFirst(lines, line), line))
    /\ UNCHANGED pending

RecentNext ==
    \/ \E line \in HistoryLine : TakeOut(line) \/ Enter(line)
    \/ PutAtEnd

RecentSpec == RecentInit /\ [][RecentNext]_recentVars
=============================================================================

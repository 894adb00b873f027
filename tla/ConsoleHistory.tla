---------------------------- MODULE ConsoleHistory ----------------------------
(***************************************************************************)
(* The lines a console shows when the player scrolls back, which the sdk   *)
(* has to keep itself for the lines it takes from the game.  In the        *)
(* Borderlands 2 family they are in a ring of fixed dimension, in BL3 and  *)
(* BL4 in an array of strings that is edited where it is.  Allocation does *)
(* not fail.                                                               *)
(***************************************************************************)
EXTENDS Integers, Sequences, SequencesExt, FiniteSetsExt

CONSTANTS
    HistoryLine,    \* the lines entered
    Blank,          \* the empty one, whose string has no buffer
    Most,           \* MAX_HISTORY_ENTRIES, or one fewer than the ring's dimension
    Buffer,         \* addresses of string buffers
    NoBuffer,
    Unused,         \* what a freed buffer holds
    MaxSpare,       \* bound on an allocation's entries past the array's size
    MaxNested       \* bound on lines entered in hooks on each other

Dim == Most + 1     \* the ring's ArrayDim

ASSUME HistoryAssumption ==
    /\ Blank \in HistoryLine /\ NoBuffer \notin Buffer /\ Unused \notin HistoryLine
    /\ Most \in Nat \ {0} /\ MaxSpare \in Nat \ {0} /\ MaxNested \in Nat

VARIABLES
    kind,           \* "ring" or "array"
    history,        \* history[i]: History[i] of the ring
    top, bot, cur,  \* HistoryTop, HistoryBot, HistoryCur
    purged,         \* the lines purged and not inserted yet, the innermost last
    buffers,        \* the array's whole allocation
    shown,          \* the array's size
    text            \* text[b]: what is in buffer b

historyVars == <<kind, history, top, bot, cur, purged, buffers, shown, text>>

ringVars == <<history, top, bot, cur, purged>>

listVars == <<buffers, shown, text>>

\* What a player has seen scrolls through: from bot up to, and without, top.
RingLines ==
    IF bot = -1 THEN <<>>
    ELSE [i \in 1 .. (top - bot + Dim) % Dim |-> history[(bot + i - 1) % Dim]]

TextOf(buffer) == IF buffer = NoBuffer THEN Blank ELSE text[buffer]

ArrayLines == [i \in 1 .. shown |-> TextOf(buffers[i])]

Lines == IF kind = "ring" THEN RingLines ELSE ArrayLines

(***************************************************************************)
(* Both hold what the game loaded and edited: any ring, with stale lines   *)
(* in its free entries, and an array with a stale copy past the last entry *)
(* after the game removed one.                                             *)
(***************************************************************************)
NoRing == history = [i \in 0 .. Dim - 1 |-> Blank] /\ top = 0 /\ bot = -1

AnyRing ==
    /\ bot \in -1 .. Dim - 1 /\ top \in IF bot = -1 THEN {0} ELSE 0 .. Dim - 1
    /\ history \in [0 .. Dim - 1 -> HistoryLine]
    /\ IsInjective(RingLines)

NoArray == buffers = <<>> /\ shown = 0 /\ text = [b \in Buffer |-> Unused]

AnyArray ==
    /\ buffers \in SeqOf(Buffer \union {NoBuffer}, Most + MaxSpare)
    /\ shown \in 0 .. Most /\ shown <= Len(buffers)
    /\ text \in [Buffer -> (HistoryLine \ {Blank}) \union {Unused}]
    /\ \A b \in Buffer : text[b] # Unused <=> \E i \in 1 .. shown : buffers[i] = b
    /\ IsInjective(ArrayLines)

HistoryInit ==
    /\ \/ kind = "ring" /\ AnyRing /\ NoArray
       \/ kind = "array" /\ NoRing /\ AnyArray
    /\ cur = top /\ purged = <<>>

-----------------------------------------------------------------------------
(***************************************************************************)
(* The ring.  The game's PurgeCommandFromHistory takes a line out of it    *)
(* and moves top back; hooks on it may enter further lines before the sdk  *)
(* inserts this one.                                                       *)
(***************************************************************************)
Keep(kept) ==
    history' = [i \in 0 .. Dim - 1 |->
                  LET at == 1 + ((i - bot + Dim) % Dim)
                  IN  IF at <= Len(kept) THEN kept[at] ELSE history[i]]

PurgeCommandFromHistory(line) ==
    IF Contains(RingLines, line)
    THEN Keep(RemoveFirst(RingLines, line)) /\ top' = (top + Dim - 1) % Dim
    ELSE UNCHANGED <<history, top>>

Purge(line) ==
    /\ kind = "ring" /\ Len(purged) <= MaxNested
    /\ PurgeCommandFromHistory(line)
    /\ purged' = Append(purged, line)
    /\ UNCHANGED <<kind, bot, cur, listVars>>

\* Slip: never give up the oldest line.
BottomKept(next) == IF bot = -1 THEN 0 ELSE bot

Bottom(next) == IF bot = -1 \/ bot = next THEN (bot + 1) % Dim ELSE bot

Insert ==
    /\ purged # <<>>
    /\ history' = [history EXCEPT ![top] = Last(purged)]
    /\ top' = (top + 1) % Dim
    /\ cur' = top'
    /\ bot' = Bottom(top')
    /\ purged' = Front(purged)
    /\ UNCHANGED <<kind, listVars>>

-----------------------------------------------------------------------------
(***************************************************************************)
(* The array.  An entry goes: the last that matches, or the oldest if the  *)
(* array is full and none does.  Its string is freed, and those after it   *)
(* are moved over it, together with what is past the last: part of the     *)
(* allocation, or anything at all.                                         *)
(***************************************************************************)
Matching(line) == {i \in 1 .. shown : ArrayLines[i] = line}

Dropped(line) ==
    IF Matching(line) # {} THEN {Max(Matching(line))}
    ELSE IF shown >= Most THEN {1} ELSE {}

\* ZStrProperty's destroy.
Destroyed(i) == [buffers EXCEPT ![i] = NoBuffer]

Moved(entries, i, beyond) ==
    IF i = shown THEN entries
    ELSE [j \in DOMAIN entries |->
            IF j \notin i .. shown THEN entries[j]
            ELSE IF j < Len(entries) THEN entries[j + 1] ELSE beyond]

\* TArray::resize: the allocation grows if it has to, and the entry gained is zeroed.
Gained(spare) ==
    [j \in 1 .. Max({Len(buffers), IF shown < Len(buffers) THEN 0 ELSE shown + 1 + spare}) |->
        IF j \in DOMAIN buffers /\ j # shown + 1 THEN buffers[j] ELSE NoBuffer]

(***************************************************************************)
(* set_at gives the last entry a new buffer, none for a blank line, and    *)
(* does not look at what was in the entry.                                 *)
(***************************************************************************)
SetLast(entries, line, freed) ==
    \E new \in IF line = Blank THEN {NoBuffer}
               ELSE {b \in Buffer : text[b] = Unused \/ b \in freed} :
        /\ buffers' = [entries EXCEPT ![shown'] = new]
        /\ text' = [b \in Buffer |-> IF b = new THEN line
                                     ELSE IF b \in freed THEN Unused ELSE text[b]]

Update(line) ==
    /\ kind = "array"
    /\ \/ /\ Dropped(line) = {}
          /\ shown' = shown + 1
          /\ \E spare \in 0 .. MaxSpare - 1 : SetLast(Gained(spare), line, {})
       \/ \E i \in Dropped(line), beyond \in Buffer \union {NoBuffer} :
            /\ shown' = shown
            /\ SetLast(Moved(Destroyed(i), i, beyond), line, {buffers[i]})
    /\ UNCHANGED <<kind, ringVars>>

HistoryNext ==
    \/ \E line \in HistoryLine : Purge(line) \/ Update(line)
    \/ Insert

HistorySpec == HistoryInit /\ [][HistoryNext]_historyVars

-----------------------------------------------------------------------------

HistoryTypeOK ==
    /\ history \in [0 .. Dim - 1 -> HistoryLine]
    /\ top \in 0 .. Dim - 1 /\ bot \in -1 .. Dim - 1 /\ cur \in 0 .. Dim - 1
    /\ purged \in Seq(HistoryLine)
    /\ buffers \in Seq(Buffer \union {NoBuffer}) /\ shown \in 0 .. Len(buffers)
    /\ text \in [Buffer -> (HistoryLine \ {Blank}) \union {Unused}]

(***************************************************************************)
(* Either way the player finds the most recent lines, in their order, a    *)
(* line entered again at its new place only: through the ring's            *)
(* wrap-around, when the array is full, moves one entry too many or is     *)
(* given a blank line.  Hooks of the ring's purge enter lines before the   *)
(* one purged, which is not taken out again if it is among them.           *)
(***************************************************************************)
Recent == INSTANCE RecentLines WITH lines <- Lines, pending <- purged

HistoryShowsRecentLines == Recent!RecentSpec
=============================================================================

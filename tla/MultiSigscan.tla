---------------------------- MODULE MultiSigscan ----------------------------
(***************************************************************************)
(* multi_sigscan: the search for many byte patterns at once, by threads    *)
(* that share the image of the executable out between them.  A byte that   *)
(* occurs in all patterns serves as an anchor: a thread looks for the      *)
(* anchor and compares every pattern around each one it finds.  The        *)
(* results are atomic and hold the least address found so far.             *)
(***************************************************************************)
EXTENDS Naturals, Sequences, FiniteSets, FiniteSetsExt

CONSTANTS
    Byte,               \* the values of a byte
    Common,             \* those never used as anchor (0x00, 0x24, 0x48, 0xFF)
    Pattern,            \* Pattern[p][i]: the bytes that match at position i
    Offset,             \* Offset[p]: what is added to the address of a match
    Reach,              \* the length of the longest pattern
    Size,               \* the size of the image
    HardwareThreads,    \* std::thread::hardware_concurrency()
    MinChunk            \* min_size_per_thread

Patterns == DOMAIN Pattern

Length(p) == Len(Pattern[p])

\* The mask is 0xFF, so that only this byte matches.
Requires(p, i, b) == Pattern[p][i] = {b}

\* The addresses of the image, and those that comparisons may touch.
Image == Reach + 1 .. Reach + Size

Readable == 1 .. Size + 2 * Reach

(***************************************************************************)
(* multi_sigscan_preprocess                                                *)
(***************************************************************************)
Uses(b) ==
    Cardinality({at \in Patterns \X (1 .. Reach) :
                    at[2] <= Length(at[1]) /\ Requires(at[1], at[2], b)})

MaxCount == 255

Count(b) == Min({Uses(b), MaxCount})

\* Slip: any byte of the first pattern.
InFirst(b) == \E i \in 1 .. Length(1) : Requires(1, i, b)

InAll(b) == b \notin Common /\ \A p \in Patterns : \E i \in 1 .. Length(p) : Requires(p, i, b)

Anchor ==
    CHOOSE b \in Byte :
        /\ InAll(b)
        /\ \A c \in Byte : InAll(c) => Count(b) < Count(c) \/ (Count(b) = Count(c) /\ b <= c)

\* The anchor's first position in p, from 0.
StartOffset(p) ==
    CHOOSE i \in 0 .. Length(p) - 1 :
        Requires(p, i + 1, Anchor) /\ \A j \in 0 .. i - 1 : ~Requires(p, j + 1, Anchor)

Overscan == Max({Length(p) - StartOffset(p) - 1 : p \in Patterns})

(***************************************************************************)
(* multi_sigscan leaves a thread to the game.                              *)
(***************************************************************************)
NumThreads == (IF HardwareThreads = 0 THEN 8 ELSE HardwareThreads) - 1

Chunk == Max({Size \div NumThreads, MinChunk})

Searcher == {t \in 0 .. Size - 1 : t * Chunk < Size}

ChunkBegin(t) == Reach + 1 + t * Chunk

ChunkEnd(t) == Min({ChunkBegin(t) + Chunk + Overscan, Reach + Size + 1})

ASSUME SigscanAssumption ==
    /\ Byte \subseteq Nat
    /\ Size \in Nat \ {0} /\ Reach \in Nat \ {0}
    /\ MinChunk \in Nat \ {0}
    /\ HardwareThreads \in Nat \ {1}
    /\ Len(Pattern) \in 1 .. MaxCount
    /\ Pattern \in Seq(Seq((SUBSET Byte) \ {{}}))
    /\ \A p \in Patterns : Length(p) \in 1 .. Reach
    /\ Offset \in [Patterns -> Nat]
    /\ \E b \in Byte : InAll(b)

VARIABLES
    memory,     \* the bytes of the image and around it, which do not change
    result,     \* result[p], 0 if there is none yet
    searcher    \* searcher[t]: what t is doing

searchVars == <<memory, result, searcher>>

(***************************************************************************)
(* A thread is about to "find" the next anchor from pos on, to "compare"   *)
(* pattern p around the one it found, or to "swap" in its match, having    *)
(* seen the result old; or it has returned.                                *)
(***************************************************************************)
SearcherState == [at : {"find", "compare", "swap", "done"}, pos : Nat, anchor : Nat,
                p : Nat, old : Nat]

MatchesAt(p, start) == \A i \in 1 .. Length(p) : memory[start + i - 1] \in Pattern[p][i]

SigStart(t) == searcher[t].anchor - StartOffset(searcher[t].p)

Better(old, found) == IF old # 0 /\ old < found THEN old ELSE found

SearchInit ==
    /\ memory \in [Readable -> Byte]
    /\ result = [p \in Patterns |-> 0]
    /\ searcher = [t \in Searcher |->
                    [at |-> "find", pos |-> ChunkBegin(t), anchor |-> ChunkBegin(t), p |-> 1, old |-> 0]]

Find(t) ==
    /\ searcher[t].at = "find"
    /\ LET found == {a \in searcher[t].pos .. ChunkEnd(t) - 1 : memory[a] = Anchor}
       IN  searcher' = [searcher EXCEPT ![t] =
              IF found = {} THEN [searcher[t] EXCEPT !.at = "done"]
              ELSE [searcher[t] EXCEPT !.at = "compare", !.anchor = Min(found), !.p = 1]]
    /\ UNCHANGED <<memory, result>>

Compare(t) ==
    /\ searcher[t].at = "compare" /\ searcher[t].p \in Patterns
    /\ searcher' = [searcher EXCEPT ![t] =
          IF MatchesAt(searcher[t].p, SigStart(t))
          THEN [searcher[t] EXCEPT !.at = "swap", !.old = result[searcher[t].p]]
          ELSE [searcher[t] EXCEPT !.p = @ + 1]]
    /\ UNCHANGED <<memory, result>>

\* Slip: look at the same anchor again.
StayAtMatch(t) ==
    /\ searcher[t].at = "compare" /\ searcher[t].p \notin Patterns
    /\ searcher' = [searcher EXCEPT ![t].at = "find", ![t].pos = searcher[t].anchor]
    /\ UNCHANGED <<memory, result>>

NextPos(t) ==
    /\ searcher[t].at = "compare" /\ searcher[t].p \notin Patterns
    /\ searcher' = [searcher EXCEPT ![t].at = "find", ![t].pos = searcher[t].anchor + 1]
    /\ UNCHANGED <<memory, result>>

\* Slip: store the better address without looking at the result again.
Store(t) ==
    /\ searcher[t].at = "swap"
    /\ LET p == searcher[t].p
       IN  result' = [result EXCEPT ![p] = Better(searcher[t].old, SigStart(t) + Offset[p])]
    /\ searcher' = [searcher EXCEPT ![t].at = "compare", ![t].p = @ + 1]
    /\ UNCHANGED memory

(***************************************************************************)
(* compare_exchange_weak.  That it may fail for no reason makes no         *)
(* difference: it then reads the same value again.                         *)
(***************************************************************************)
Swap(t) ==
    /\ searcher[t].at = "swap"
    /\ LET p == searcher[t].p
       IN  IF result[p] = searcher[t].old
           THEN /\ result' = [result EXCEPT ![p] = Better(@, SigStart(t) + Offset[p])]
                /\ searcher' = [searcher EXCEPT ![t].at = "compare", ![t].p = @ + 1]
           ELSE /\ searcher' = [searcher EXCEPT ![t].old = result[p]]
                /\ UNCHANGED result
    /\ UNCHANGED memory

Step(t) == Find(t) \/ Compare(t) \/ NextPos(t) \/ Swap(t)

SearchNext == \E t \in Searcher : Step(t)

SearchSpec == SearchInit /\ [][SearchNext]_searchVars

\* No thread is starved, and compare_exchange_weak does not fail for ever.
SearchFairness == \A t \in Searcher : WF_searchVars(Step(t))

SearchFairSpec == SearchSpec /\ SearchFairness

-----------------------------------------------------------------------------

SearchTypeOK ==
    /\ memory \in [Readable -> Byte]
    /\ result \in [Patterns -> Nat]
    /\ searcher \in [Searcher -> SearcherState]

Done == \A t \in Searcher : searcher[t].at = "done"

(***************************************************************************)
(* What the search is for: the matches of p whose anchor lies in the       *)
(* image.  (That of a pattern that occurs partly outside of it counts, as  *)
(* comparisons are not confined to the image.)                             *)
(***************************************************************************)
MatchesOf(p) == {s \in Readable : s + StartOffset(p) \in Image /\ MatchesAt(p, s)}

IsFirstMatch(p, found) ==
    IF MatchesOf(p) = {} THEN found = 0
    ELSE \E s \in MatchesOf(p) : found = s + Offset[p] /\ \A r \in MatchesOf(p) : s <= r

(***************************************************************************)
(* When all threads have returned, every pattern has its first match, and  *)
(* only those that occur have one: nothing is lost where chunks meet, in   *)
(* overlapping matches or between two threads' updates.                    *)
(***************************************************************************)
FirstMatchesFound == Done => \A p \in Patterns : IsFirstMatch(p, result[p])

(***************************************************************************)
(* A result, once there is one, only moves to a smaller address.           *)
(***************************************************************************)
ResultsImprove ==
    [][\A p \in Patterns :
          result'[p] # result[p] => result[p] = 0 \/ result'[p] < result[p]]_searchVars

(***************************************************************************)
(* The search ends, which multi_sigscan waits for by joining its threads.  *)
(***************************************************************************)
SearchEnds == <>Done
=============================================================================

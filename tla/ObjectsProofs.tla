--------------------------- MODULE ObjectsProofs ---------------------------
(***************************************************************************)
(* Proofs about what refers to the game's objects, for any numbers of      *)
(* objects, arrays, structs and threads: the calls of a delegate, the      *)
(* members of a struct, the entries of an array, and weak pointers.        *)
(***************************************************************************)
EXTENDS WeakPointers, Delegates, UnrealArray, StructFields,
        FiniteSetTheorems, WellFoundedInduction, TLAPS

(***************************************************************************)
(* Delegates: where an undisturbed call is.  It has called the functions   *)
(* up to the one it is at, each in its turn, and the array still has that  *)
(* one and all that were bound at first.                                   *)
(***************************************************************************)
CallOnCourse(call) ==
    /\ call.begun <= Len(bound)
    /\ \A k \in DOMAIN call.called : call.called[k] = k
    /\ ~call.sawEdits
    /\ call.at = "next" => Len(call.called) = call.i /\ call.i < Len(bound) /\ ~call.edited
    /\ call.at = "runs" => Len(call.called) = call.i + 1 /\ call.i + 1 < Len(bound) /\ ~call.edited
    /\ call.at = "last" => Len(call.called) >= call.begun

DelegatesInv ==
    /\ bound \in Seq(Bound \union {Gone}) /\ calling \in Seq(MulticastCall) /\ wild \in BOOLEAN
    /\ \A c \in 1 .. Len(calling) : ~calling[c].disturbed => CallOnCourse(calling[c])
    /\ wild => calling # <<>> /\ (Innermost.disturbed \/ \E i \in DOMAIN bound : bound[i] = Gone)

(***************************************************************************)
(* The innermost call goes on; the others are where they were.             *)
(***************************************************************************)
LEMMA InnermostGoesOn ==
  ASSUME DelegatesInv, ~wild, wild' = wild, bound' = bound, calling # <<>>,
         NEW call \in MulticastCall, SetInnermost(call),
         ~call.disturbed => CallOnCourse(call)
  PROVE  DelegatesInv'
<1>1. Len(calling) \in 1 .. Len(calling) /\ calling \in Seq(MulticastCall)
  BY DEF DelegatesInv
<1>2. /\ calling' \in Seq(MulticastCall) /\ Len(calling') = Len(calling)
      /\ \A c \in 1 .. Len(calling) :
            calling'[c] = IF c = Len(calling) THEN call ELSE calling[c]
  BY <1>1 DEF SetInnermost
<1>3. \A c \in 1 .. Len(calling') : ~calling'[c].disturbed => CallOnCourse(calling'[c])
  BY <1>2 DEF DelegatesInv
<1> QED
  BY <1>2, <1>3 DEF DelegatesInv, CallOnCourse

(***************************************************************************)
(* Whether a function runs with a copy of the parameters or the caller's   *)
(* own, it is the one after those that were called.                        *)
(***************************************************************************)
LEMMA RunEntryKeeps ==
  ASSUME DelegatesInv, ~wild, Calling({"next"}), bound' = bound,
         NEW i \in Nat, NEW at \in {"runs", "last"}, RunEntry(i, at),
         ~Innermost.disturbed =>
            i = Innermost.i + 1 /\ i <= Len(bound) /\ (i < Len(bound) \/ at = "last")
                /\ (at = "last" => i >= Innermost.begun)
  PROVE  DelegatesInv'
<1>1. /\ calling # <<>> /\ Innermost.at = "next" /\ Len(calling) \in 1 .. Len(calling)
      /\ Innermost \in MulticastCall /\ calling \in Seq(MulticastCall)
      /\ (~Innermost.disturbed => CallOnCourse(Innermost))
  BY DEF Calling, Innermost, DelegatesInv
<1>2. CASE i \in DOMAIN bound /\ bound[i] # Gone
  <2> DEFINE call == [Innermost EXCEPT !.at = at, !.called = Append(Innermost.called, i),
                                       !.sawEdits = Innermost.edited]
  <2>1. SetInnermost(call) /\ wild' = wild
    BY <1>2 DEF RunEntry
  <2>2. call \in MulticastCall
    <3>1. Append(Innermost.called, i) \in Seq(Nat) /\ Innermost.edited \in BOOLEAN
      BY <1>1 DEF MulticastCall
    <3>2. at \in {"next", "runs", "last"}
      OBVIOUS
    <3> QED
      BY <1>1, <3>1, <3>2 DEF MulticastCall
  <2>3. /\ call.at = at /\ call.i = Innermost.i /\ call.called = Append(Innermost.called, i)
        /\ call.begun = Innermost.begun /\ call.edited = Innermost.edited
        /\ call.sawEdits = Innermost.edited /\ call.disturbed = Innermost.disturbed
    BY <1>1 DEF MulticastCall
  <2> HIDE DEF call
  <2>4. ASSUME ~call.disturbed PROVE CallOnCourse(call)
    <3>1. CallOnCourse(Innermost) /\ ~Innermost.disturbed
      BY <1>1, <2>3, <2>4
    <3>2. /\ Len(Innermost.called) = Innermost.i /\ ~Innermost.edited
          /\ i = Innermost.i + 1 /\ Innermost.begun <= Len(bound)
          /\ \A k \in DOMAIN Innermost.called : Innermost.called[k] = k
      BY <1>1, <3>1 DEF CallOnCourse
    <3>3. Innermost.called \in Seq(Nat) /\ Innermost.i \in Nat
      BY <1>1 DEF MulticastCall
    <3>4. Len(call.called) = i /\ \A k \in DOMAIN call.called : call.called[k] = k
      BY <2>3, <3>2, <3>3
    <3> QED
      BY <2>3, <3>1, <3>2, <3>4 DEF CallOnCourse
  <2> QED
    BY <1>1, <2>1, <2>2, <2>4, InnermostGoesOn
<1>3. CASE ~(i \in DOMAIN bound /\ bound[i] # Gone)
  <2>1. wild' = TRUE /\ calling' = calling
    BY <1>3 DEF RunEntry
  <2>2. Innermost.disturbed \/ \E k \in DOMAIN bound : bound[k] = Gone
    <3>1. CASE ~Innermost.disturbed
      <4>1. i \in 1 .. Len(bound)
        BY <1>1, <3>1 DEF MulticastCall
      <4>2. i \in DOMAIN bound
        BY <4>1 DEF DelegatesInv
      <4> QED
        BY <1>3, <4>2
    <3> QED
      BY <3>1
  <2> QED
    BY <1>1, <2>1, <2>2 DEF DelegatesInv, CallOnCourse, Innermost
<1> QED
  BY <1>2, <1>3

(***************************************************************************)
(* The loop goes on while another entry is left, and the last call is that *)
(* of the entry after those called: the array never shrinks if the call is *)
(* undisturbed.                                                            *)
(***************************************************************************)
LEMMA LoopKeeps ==
  ASSUME DelegatesInv, CallNext \/ CallLast
  PROVE  DelegatesInv'
<1>1. /\ ~wild /\ Calling({"next"}) /\ bound' = bound /\ Innermost.at = "next"
      /\ Innermost \in MulticastCall /\ (~Innermost.disturbed => CallOnCourse(Innermost))
  <2>1. ~wild /\ Calling({"next"}) /\ bound' = bound
    BY DEF CallNext, CallLast
  <2>2. Len(calling) \in 1 .. Len(calling) /\ calling \in Seq(MulticastCall)
    BY <2>1 DEF Calling, DelegatesInv
  <2> QED
    BY <2>1, <2>2 DEF Calling, Innermost, DelegatesInv
<1>2. Len(bound) \in Nat /\ Innermost.i \in Nat /\ Innermost.begun \in Nat
  BY <1>1 DEF DelegatesInv, MulticastCall
<1>3. CASE CallNext
  <2>1. MoreToCopyFor(Innermost) /\ RunEntry(Innermost.i + 1, "runs")
    BY <1>3 DEF CallNext
  <2>2. ASSUME ~Innermost.disturbed PROVE Innermost.i + 1 < Len(bound)
    <3>1. Innermost.i < Len(bound)
      BY <1>1, <2>2 DEF CallOnCourse
    <3>2. bound # <<>>
      BY <1>2, <3>1
    <3> QED
      BY <2>1, <3>2 DEF MoreToCopyFor
  <2> QED
    BY <1>1, <1>2, <2>1, <2>2, RunEntryKeeps
<1>4. CASE CallLast
  <2>1. ~MoreToCopyFor(Innermost) /\ RunEntry(Len(bound), "last")
    BY <1>4 DEF CallLast
  <2>2. ASSUME ~Innermost.disturbed
        PROVE  Len(bound) = Innermost.i + 1 /\ Len(bound) >= Innermost.begun
    <3>1. Innermost.i < Len(bound) /\ Innermost.begun <= Len(bound)
      BY <1>1, <2>2 DEF CallOnCourse
    <3>2. ~(Innermost.i + 1 < Len(bound))
      BY <2>1 DEF MoreToCopyFor
    <3> QED
      BY <1>2, <3>1, <3>2
  <2> QED
    BY <1>1, <1>2, <2>1, <2>2, RunEntryKeeps
<1> QED
  BY <1>3, <1>4

(***************************************************************************)
(* While a function runs: it edits its parameters, or returns.             *)
(***************************************************************************)
LEMMA FunctionKeeps ==
  ASSUME DelegatesInv, EditParams \/ FunctionReturns
  PROVE  DelegatesInv'
<1>1. /\ ~wild /\ calling # <<>> /\ Innermost.at \in {"runs", "last"} /\ bound' = bound
      /\ wild' = wild
  BY DEF EditParams, FunctionReturns, Calling
<1>2. /\ Innermost \in MulticastCall /\ (~Innermost.disturbed => CallOnCourse(Innermost))
  <2>1. Len(calling) \in 1 .. Len(calling) /\ calling \in Seq(MulticastCall)
    BY <1>1 DEF DelegatesInv
  <2> QED
    BY <2>1 DEF Innermost, DelegatesInv
<1>3. CASE EditParams
  <2> DEFINE call == [Innermost EXCEPT !.edited = Innermost.edited \/ Innermost.at = "last"]
  <2>1. SetInnermost(call)
    BY <1>3 DEF EditParams
  <2>2. call \in MulticastCall
    BY <1>2 DEF MulticastCall
  <2>3. /\ call.at = Innermost.at /\ call.i = Innermost.i /\ call.called = Innermost.called
        /\ call.begun = Innermost.begun /\ call.sawEdits = Innermost.sawEdits
        /\ call.disturbed = Innermost.disturbed
        /\ (call.edited => Innermost.edited \/ Innermost.at = "last")
    BY <1>2 DEF MulticastCall
  <2> HIDE DEF call
  <2>4. ~call.disturbed => CallOnCourse(call)
    BY <1>1, <1>2, <2>3 DEF CallOnCourse
  <2> QED
    BY <1>1, <2>1, <2>2, <2>4, InnermostGoesOn
<1>4. CASE FunctionReturns
  <2> DEFINE call == [Innermost EXCEPT !.at = "next", !.i = Innermost.i + 1]
  <2>1. SetInnermost(call) /\ Innermost.at = "runs"
    BY <1>4 DEF FunctionReturns, Calling
  <2>2. call \in MulticastCall
    <3>1. Innermost.i + 1 \in Nat
      BY <1>2 DEF MulticastCall
    <3> QED
      BY <1>2, <3>1 DEF MulticastCall
  <2>3. /\ call.at = "next" /\ call.i = Innermost.i + 1 /\ call.called = Innermost.called
        /\ call.begun = Innermost.begun /\ call.sawEdits = Innermost.sawEdits
        /\ call.disturbed = Innermost.disturbed /\ call.edited = Innermost.edited
    BY <1>2 DEF MulticastCall
  <2> HIDE DEF call
  <2>4. ~call.disturbed => CallOnCourse(call)
    BY <1>2, <2>1, <2>3 DEF CallOnCourse
  <2> QED
    BY <1>1, <2>1, <2>2, <2>4, InnermostGoesOn
<1> QED
  BY <1>3, <1>4

(***************************************************************************)
(* A call begins with the entries there are, and leaves the others alone   *)
(* as it ends.                                                             *)
(***************************************************************************)
LEMMA CallKeeps ==
  ASSUME DelegatesInv, CallDelegate \/ CallEnds
  PROVE  DelegatesInv'
<1>1. calling \in Seq(MulticastCall) /\ Len(calling) \in Nat /\ bound \in Seq(Bound \union {Gone})
  BY DEF DelegatesInv
<1>2. CASE CallDelegate
  <2>1. calling' = Append(calling, NewCall) /\ bound' = bound /\ wild' = wild /\ ~wild /\ bound # <<>>
    BY <1>2 DEF CallDelegate, MayUse
  <2>2. Len(bound) \in Nat /\ 0 < Len(bound)
    BY <1>1, <2>1
  <2>3. NewCall \in MulticastCall /\ CallOnCourse(NewCall)
    BY <2>2 DEF NewCall, MulticastCall, CallOnCourse
  <2>4. /\ calling' \in Seq(MulticastCall) /\ Len(calling') = Len(calling) + 1
        /\ calling'[Len(calling) + 1] = NewCall
        /\ \A c \in 1 .. Len(calling) : calling'[c] = calling[c]
    BY <1>1, <2>1, <2>3
  <2>5. \A c \in 1 .. Len(calling') : c \in 1 .. Len(calling) \/ c = Len(calling) + 1
    BY <1>1, <2>4
  <2>6. \A c \in 1 .. Len(calling') : ~calling'[c].disturbed => CallOnCourse(calling'[c])
    BY <2>3, <2>4, <2>5 DEF DelegatesInv
  <2> QED
    BY <2>1, <2>4, <2>6 DEF DelegatesInv, CallOnCourse
<1>3. CASE CallEnds
  <2>1. /\ calling' = SubSeq(calling, 1, Len(calling) - 1) /\ bound' = bound /\ wild' = wild
        /\ ~wild /\ calling # <<>>
    BY <1>3 DEF CallEnds
  <2>2. /\ calling' \in Seq(MulticastCall) /\ Len(calling') = Len(calling) - 1
        /\ \A c \in 1 .. Len(calling) - 1 : calling'[c] = calling[c]
    <3>1. Len(calling) # 0 /\ Len(calling) - 1 \in Nat
      BY <1>1, <2>1
    <3>2. \A c \in 1 .. Len(calling) - 1 : calling[c] \in MulticastCall
      BY <1>1, <3>1
    <3>3. calling' = [c \in 1 .. Len(calling) - 1 |-> calling[c]]
      BY <1>1, <2>1, <3>1
    <3> QED
      BY <3>1, <3>2, <3>3
  <2>3. \A c \in 1 .. Len(calling') : c \in 1 .. Len(calling) - 1 /\ c \in 1 .. Len(calling)
    BY <1>1, <2>2
  <2>4. \A c \in 1 .. Len(calling') : ~calling'[c].disturbed => CallOnCourse(calling'[c])
    BY <2>2, <2>3 DEF DelegatesInv
  <2> QED
    BY <2>1, <2>2, <2>4 DEF DelegatesInv, CallOnCourse
<1> QED
  BY <1>2, <1>3

(***************************************************************************)
(* Binding another function makes the array longer; whatever else changes  *)
(* it disturbs every call.                                                 *)
(***************************************************************************)
LEMMA ArrayKeeps ==
  ASSUME DelegatesInv,
         \/ Clear
         \/ \E b \in Bound : BindAnother(b) \/ Collect(b) \/ SetFrom(<<b>>)
  PROVE  DelegatesInv'
<1>1. /\ calling \in Seq(MulticastCall) /\ Len(calling) \in Nat
      /\ bound \in Seq(Bound \union {Gone}) /\ Len(bound) \in Nat
      /\ \A c \in 1 .. Len(calling) : calling[c] \in MulticastCall
  BY DEF DelegatesInv
<1>2. ~wild /\ wild' = wild
  BY DEF Clear, BindAnother, Collect, SetFrom, MayUse
<1>3. ASSUME NEW b \in Bound, BindAnother(b) PROVE DelegatesInv'
  <2>1. bound' = Append(bound, b) /\ calling' = calling
    BY <1>3 DEF BindAnother
  <2>2. bound' \in Seq(Bound \union {Gone}) /\ Len(bound') = Len(bound) + 1
    BY <1>1, <2>1
  <2>3. ASSUME NEW c \in 1 .. Len(calling), ~calling[c].disturbed
        PROVE  CallOnCourse(calling[c])'
    <3>1. CallOnCourse(calling[c])
      BY <2>3 DEF DelegatesInv
    <3>2. calling[c].begun \in Nat /\ calling[c].i \in Nat
      BY <1>1 DEF MulticastCall
    <3> QED
      BY <1>1, <2>1, <2>2, <3>1, <3>2 DEF CallOnCourse
  <2> QED
    BY <1>1, <1>2, <2>1, <2>2, <2>3 DEF DelegatesInv
<1>4. CASE Clear \/ \E b \in Bound : Collect(b) \/ SetFrom(<<b>>)
  <2>1. bound' \in Seq(Bound \union {Gone}) /\ Disturbed
    <3>1. CASE Clear
      BY <3>1 DEF Clear
    <3>2. ASSUME NEW b \in Bound, Collect(b)
          PROVE  bound' \in Seq(Bound \union {Gone}) /\ Disturbed
      BY <1>1, <3>2 DEF Collect
    <3>3. ASSUME NEW b \in Bound, SetFrom(<<b>>)
          PROVE  bound' \in Seq(Bound \union {Gone}) /\ Disturbed
      BY <3>3 DEF SetFrom
    <3> QED
      BY <1>4, <3>1, <3>2, <3>3
  <2>2. calling' = [c \in 1 .. Len(calling) |-> [calling[c] EXCEPT !.disturbed = TRUE]]
    BY <1>1, <2>1 DEF Disturbed
  <2>3. \A c \in 1 .. Len(calling) :
           /\ [calling[c] EXCEPT !.disturbed = TRUE] \in MulticastCall
           /\ [calling[c] EXCEPT !.disturbed = TRUE].disturbed
    BY <1>1 DEF MulticastCall
  <2>4. calling' \in Seq(MulticastCall) /\ Len(calling') = Len(calling)
    BY <1>1, <2>2, <2>3
  <2>5. \A c \in 1 .. Len(calling') : calling'[c].disturbed
    BY <2>2, <2>3, <2>4
  <2> QED
    BY <1>2, <2>1, <2>4, <2>5 DEF DelegatesInv
<1> QED
  BY <1>3, <1>4

(***************************************************************************)
(* Calls of a multicast delegate: a call that is disturbed by nothing but  *)
(* further functions being bound runs all those bound at first in their    *)
(* order, with the parameters as they were passed, and uses nothing that   *)
(* is not there.                                                           *)
(***************************************************************************)
THEOREM DelegatesInvariance == DelegatesSpec => []DelegatesInv
<1>1. DelegatesInit => DelegatesInv
  <2> SUFFICES ASSUME bound = <<>>, calling = <<>>, wild = FALSE PROVE DelegatesInv
    BY DEF DelegatesInit
  <2>1. bound \in Seq(Bound \union {Gone}) /\ calling \in Seq(MulticastCall) /\ Len(calling) = 0
    OBVIOUS
  <2>2. 1 .. Len(calling) = {}
    BY <2>1
  <2> QED
    BY <2>1, <2>2 DEF DelegatesInv
<1>2. DelegatesInv /\ [DelegatesNext]_delegateVars => DelegatesInv'
  <2> SUFFICES ASSUME DelegatesInv, [DelegatesNext]_delegateVars PROVE DelegatesInv'
    OBVIOUS
  <2>1. CASE CallNext \/ CallLast
    BY <2>1, LoopKeeps
  <2>2. CASE EditParams \/ FunctionReturns
    BY <2>2, FunctionKeeps
  <2>3. CASE CallDelegate \/ CallEnds
    BY <2>3, CallKeeps
  <2>4. CASE Clear \/ \E b \in Bound : BindAnother(b) \/ Collect(b) \/ SetFrom(<<b>>)
    BY <2>4, ArrayKeeps
  <2>5. CASE UNCHANGED delegateVars
    BY <2>5 DEF delegateVars, DelegatesInv, CallOnCourse, Innermost
  <2> QED
    BY <2>1, <2>2, <2>3, <2>4, <2>5 DEF DelegatesNext
<1> QED
  BY <1>1, <1>2, PTL DEF DelegatesSpec

\* Each call of a delegate runs its entries once and in order, with the parameters as they were
\* passed (FMulticastDelegate's call and BoundFunction::call), unless one of them changes it.
THEOREM CallsAreWhole == DelegatesSpec => []UndisturbedCallsAreWhole
<1>1. DelegatesInv => UndisturbedCallsAreWhole
  <2> SUFFICES ASSUME DelegatesInv PROVE UndisturbedCallsAreWhole
    OBVIOUS
  <2>1. DOMAIN calling = 1 .. Len(calling)
    BY DEF DelegatesInv
  <2> QED
    BY <2>1 DEF DelegatesInv, CallOnCourse, UndisturbedCallsAreWhole
<1> QED
  BY <1>1, DelegatesInvariance, PTL

-----------------------------------------------------------------------------

\* A set of numbers that is not empty has a least one.
LEMMA LeastNumber ==
  ASSUME NEW S \in SUBSET Nat, S # {}
  PROVE  \E n \in S : \A m \in S : n <= m
<1> DEFINE R == OpToRel(<, Nat)
<1>1. \A m, n \in Nat : <<m, n>> \in R <=> m < n
  BY DEF OpToRel
<1>2. IsWellFoundedOn(R, Nat)
  BY NatLessThanWellFounded
<1> HIDE DEF R
<1>3. PICK n \in S : \A m \in S : ~(<<m, n>> \in R)
  BY <1>2, WFMin
<1>4. \A m \in S : ~(m < n)
  BY <1>1, <1>3
<1> QED
  BY <1>4

(***************************************************************************)
(* StructFields: the lists, and what may be found in each.                 *)
(***************************************************************************)
Lists == {"Children", "ChildProperties", "PropertyLink"}

All(l) ==
    {j \in DOMAIN members :
        IF l = "PropertyLink" THEN members[j].kind = "property"
        ELSE members[j].in = l /\ ~Passes(l, j)}

MembersInOrder ==
    /\ \E n \in Nat : members \in [1 .. n -> Member]
    /\ \A i, j \in DOMAIN members : i < j => members[i].struct <= members[j].struct

\* What a member's place says: PropertyLink is a single list, the others one per struct.
LEMMA Places ==
  ASSUME MembersInOrder
  PROVE  /\ \A j \in DOMAIN members : j \in Nat /\ j > End /\ members[j] \in Member
         /\ \A l, s : Listed(l, s) \subseteq DOMAIN members
         /\ \A l : All(l) \subseteq DOMAIN members
         /\ \A i, j \in DOMAIN members : members[i].struct < members[j].struct => i < j
         /\ \A j \in DOMAIN members : members[j].struct \in Nat \ {0} /\ members[j].struct \in Struct
<1>1. PICK n \in Nat : members \in [1 .. n -> Member]
  BY DEF MembersInOrder
<1>2. \A j \in DOMAIN members : j \in Nat /\ j > End /\ members[j] \in Member
  BY <1>1 DEF End
<1>3. \A j \in DOMAIN members : members[j].struct \in Nat \ {0} /\ members[j].struct \in Struct
  BY <1>2, StructsAssumption DEF Member, Struct
<1>4. \A i, j \in DOMAIN members : members[i].struct < members[j].struct => i < j
  <2> SUFFICES ASSUME NEW i \in DOMAIN members, NEW j \in DOMAIN members,
                      members[i].struct < members[j].struct, ~(i < j)
               PROVE  FALSE
    OBVIOUS
  <2>1. members[i].struct \in Nat /\ members[j].struct \in Nat /\ i \in Nat /\ j \in Nat
    BY <1>2, <1>3
  <2>2. j < i \/ i = j
    BY <2>1
  <2>3. members[j].struct <= members[i].struct
    BY <2>1, <2>2 DEF MembersInOrder
  <2> QED
    BY <2>1, <2>3
<1> QED
  BY <1>2, <1>3, <1>4 DEF Listed, All

LEMMA LeastIsFirst ==
  ASSUME MembersInOrder, NEW P \in SUBSET DOMAIN members
  PROVE  /\ Least(P) = End <=> P = {}
         /\ P # {} => Least(P) \in P /\ \A j \in P : Least(P) <= j
<1>1. \A j \in P : j \in Nat /\ j > End
  BY Places
<1>2. CASE P = {}
  BY <1>2 DEF Least
<1>3. CASE P # {}
  <2>1. P \in SUBSET Nat
    BY <1>1
  <2>2. \E n \in P : \A j \in P : n <= j
    BY <1>3, <2>1, LeastNumber
  <2>3. Min(P) \in P /\ \A j \in P : Min(P) <= j
    BY <2>2 DEF Min
  <2> QED
    BY <1>1, <1>3, <2>3 DEF Least, End
<1> QED
  BY <1>2, <1>3

(***************************************************************************)
(* The next place of the whole list after i, across the structs: those of  *)
(* a struct come before those of its super.                                *)
(***************************************************************************)
IsNextOf(l, i, at) ==
    /\ at[2] = End => at = <<End, End>> /\ \A k \in All(l) : ~(k > i)
    /\ at[2] # End =>
          /\ at[1] \in Struct /\ at[2] \in Listed(l, at[1]) /\ at[2] \in All(l) /\ at[2] > i
          /\ \A k \in All(l) : k > i => at[2] <= k

LEMMA NextInFacts ==
  ASSUME MembersInOrder, NEW l \in Lists, NEW s \in Struct, NEW i \in Nat
  PROVE  /\ NextIn(l, s, i) = End => \A k \in All(l) \cap Listed(l, s) : ~(k > i)
         /\ NextIn(l, s, i) # End =>
               /\ NextIn(l, s, i) \in All(l) /\ NextIn(l, s, i) \in Listed(l, s)
               /\ NextIn(l, s, i) > i
               /\ \A k \in All(l) \cap Listed(l, s) : k > i => NextIn(l, s, i) <= k
<1> DEFINE P == {j \in Listed(l, s) : j > i /\ ~Passes(l, j)}
<1>1. P \in SUBSET DOMAIN members
  BY Places
<1>2. P \subseteq All(l)
  BY DEF All, Listed, Lists
<1>3. \A k \in All(l) \cap Listed(l, s) : k > i => k \in P
  BY DEF All, Lists, Passes
<1>4. NextIn(l, s, i) = Least(P)
  BY DEF NextIn
<1>5. \A j \in P : j > i /\ j \in Listed(l, s)
  OBVIOUS
<1> HIDE DEF P
<1> QED
  BY <1>1, <1>2, <1>3, <1>4, <1>5, LeastIsFirst

LEMMA FollowIsNext ==
  ASSUME MembersInOrder, NEW l \in Lists, NEW s \in Struct, NEW i \in Nat,
         i # End => i \in Listed(l, s),
         i = End => s = 1 /\ Listed(l, s) = {}
  PROVE  IsNextOf(l, i, Follow(l, s, i))
<1> DEFINE next == IF i = End THEN End ELSE NextIn(l, s, i)
           supers == {t \in Struct : t > s /\ l # "PropertyLink" /\ NextIn(l, t, End) # End}
<1>1. Follow(l, s, i) =
         IF next # End THEN <<s, next>>
         ELSE IF supers = {} THEN <<End, End>>
         ELSE <<Min(supers), NextIn(l, Min(supers), End)>>
  BY DEF Follow
<1>2. \A k \in All(l) : k \in Listed(l, members[k].struct)
  BY DEF All, Listed
<1>3. \A t : l # "PropertyLink" => \A k \in Listed(l, t) : members[k].struct = t
  BY DEF Listed
<1>4. l = "PropertyLink" => \A k \in All(l) : k \in Listed(l, s)
  BY DEF All, Listed
<1>5. \A k \in DOMAIN members : k \in Nat /\ members[k].struct \in Struct
  BY Places
<1>6. Struct \subseteq Nat /\ End \in Nat
  BY StructsAssumption DEF Struct, End
<1>7. ASSUME NEW k \in All(l), k > i PROVE k \in Listed(l, s) \/ members[k].struct > s
  <2>1. k \in DOMAIN members /\ members[k].struct \in Nat \ {0} /\ k \in Nat
    BY Places
  <2>2. CASE i = End
    BY <1>2, <2>1, <2>2
  <2>3. CASE i # End /\ l # "PropertyLink"
    <3>1. i \in DOMAIN members /\ members[i].struct = s
      BY <1>3, <2>3, Places
    <3>2. members[i].struct <= members[k].struct
      BY <1>7, <2>1, <3>1 DEF MembersInOrder
    <3>3. members[k].struct = s \/ members[k].struct > s
      BY <1>6, <2>1, <3>1, <3>2
    <3> QED
      BY <1>2, <3>3
  <2> QED
    BY <1>4, <2>2, <2>3
<1>8. CASE next # End
  <2>1. /\ next = NextIn(l, s, i) /\ i # End /\ next \in All(l) /\ next \in Listed(l, s)
        /\ next > i /\ \A k \in All(l) \cap Listed(l, s) : k > i => next <= k
    BY <1>8, NextInFacts
  <2>2. Follow(l, s, i) = <<s, next>>
    BY <1>1, <1>8
  <2> HIDE DEF next
  <2>3. ASSUME NEW k \in All(l), k > i PROVE next <= k
    <3>1. CASE k \in Listed(l, s)
      BY <2>1, <2>3, <3>1
    <3>2. CASE k \notin Listed(l, s)
      <4>1. members[k].struct > s /\ l # "PropertyLink"
        BY <1>4, <1>7, <2>3, <3>2
      <4>2. members[next].struct = s /\ next \in DOMAIN members /\ k \in DOMAIN members
        BY <1>3, <2>1, <4>1, Places
      <4>3. next < k
        BY <4>1, <4>2, Places
      <4> QED
        BY <1>5, <4>2, <4>3
    <3> QED
      BY <3>1, <3>2
  <2> QED
    BY <1>8, <2>1, <2>2, <2>3 DEF IsNextOf
<1>9. CASE next = End
  <2>1. \A k \in All(l) : k > i => k \notin Listed(l, s)
    <3>1. CASE i = End
      BY <3>1
    <3>2. CASE i # End
      BY <1>9, <3>2, NextInFacts
    <3> QED
      BY <3>1, <3>2
  <2>2. ASSUME NEW k \in All(l), k > i
        PROVE  members[k].struct \in supers
    <3>1. /\ k \in Listed(l, members[k].struct) /\ members[k].struct \in Struct
          /\ members[k].struct > s /\ k > End /\ l # "PropertyLink"
      BY <1>2, <1>4, <1>7, <2>1, <2>2, Places
    <3>2. NextIn(l, members[k].struct, End) # End
      BY <1>6, <3>1, NextInFacts
    <3> QED
      BY <3>1, <3>2
  <2>3. CASE supers = {}
    <3>1. Follow(l, s, i) = <<End, End>>
      BY <1>1, <1>9, <2>3
    <3> QED
      BY <2>2, <2>3, <3>1 DEF IsNextOf
  <2>4. CASE supers # {}
    <3> DEFINE t == Min(supers)
               first == NextIn(l, t, End)
    <3>1. t \in supers /\ \A u \in supers : t <= u
      <4>1. supers \in SUBSET Nat
        BY <1>6
      <4> HIDE DEF supers
      <4> QED
        BY <2>4, <4>1, LeastNumber DEF Min
    <3>2. t \in Struct /\ t > s /\ l # "PropertyLink" /\ first # End
      BY <3>1
    <3>3. Follow(l, s, i) = <<t, first>>
      BY <1>1, <1>9, <2>4
    <3> HIDE DEF t, supers, next
    <3>4. /\ first \in All(l) /\ first \in Listed(l, t) /\ first > End
          /\ \A k \in All(l) \cap Listed(l, t) : k > End => first <= k
      BY <1>6, <3>2, NextInFacts
    <3> HIDE DEF first
    <3>5. members[first].struct = t /\ first \in DOMAIN members
      BY <1>3, <3>2, <3>4, Places
    <3>6. first > i
      <4>1. CASE i = End
        BY <3>4, <4>1
      <4>2. CASE i # End
        <5>1. members[i].struct = s /\ i \in DOMAIN members
          BY <1>3, <3>2, <4>2, Places
        <5>2. i < first
          BY <1>6, <3>2, <3>5, <5>1, Places
        <5> QED
          BY <1>5, <3>5, <5>2
      <4> QED
        BY <4>1, <4>2
    <3>7. ASSUME NEW k \in All(l), k > i PROVE first <= k
      <4>1. t <= members[k].struct /\ k \in DOMAIN members /\ members[k].struct \in Struct
        BY <2>2, <3>1, <3>7, Places
      <4>2. CASE members[k].struct = t
        <5>1. k \in Listed(l, t) /\ k > End
          BY <1>2, <4>1, <4>2, Places
        <5> QED
          BY <3>4, <5>1
      <4>3. CASE members[k].struct # t
        <5>1. t < members[k].struct
          <6>1. t \in Nat /\ members[k].struct \in Nat
            BY <1>6, <3>2, <4>1
          <6> QED
            BY <4>1, <4>3, <6>1
        <5>2. first < k
          BY <3>5, <4>1, <5>1, Places
        <5> QED
          BY <1>5, <3>5, <4>1, <5>2
      <4> QED
        BY <4>2, <4>3
    <3> QED
      BY <3>2, <3>3, <3>4, <3>6, <3>7 DEF IsNextOf
  <2> QED
    BY <2>3, <2>4
<1> QED
  BY <1>8, <1>9

LEMMA BeginIsFirst ==
  ASSUME MembersInOrder, NEW l \in Lists
  PROVE  IsNextOf(l, End, Begin(l))
<1>1. 1 \in Struct /\ End \in Nat
  BY StructsAssumption DEF Struct, End
<1>2. Listed(l, 1) \in SUBSET DOMAIN members
  BY Places
<1>3. /\ First(l) = End <=> Listed(l, 1) = {}
      /\ Listed(l, 1) # {} => First(l) \in Listed(l, 1) /\ \A j \in Listed(l, 1) : First(l) <= j
  BY <1>2, LeastIsFirst DEF First
<1>4. CASE First(l) = End
  <2>1. Begin(l) = Follow(l, 1, End)
    BY <1>4 DEF Begin
  <2> QED
    BY <1>1, <1>3, <1>4, <2>1, FollowIsNext
<1>5. CASE First(l) # End /\ Passes(l, First(l))
  <2>1. Begin(l) = Follow(l, 1, First(l))
    BY <1>5 DEF Begin
  <2>2. First(l) \in Listed(l, 1) /\ First(l) \in DOMAIN members /\ First(l) \in Nat /\ First(l) > End
    BY <1>2, <1>3, <1>5, Places
  <2>3. IsNextOf(l, First(l), Begin(l))
    BY <1>1, <2>1, <2>2, <1>5, FollowIsNext
  <2>4. ASSUME NEW k \in All(l) PROVE k > First(l)
    <3>1. k \in DOMAIN members /\ k \in Nat /\ members[k].struct \in Nat \ {0}
      BY Places
    <3>2. l # "PropertyLink"
      BY <1>5 DEF Passes
    <3>3. CASE members[k].struct = 1
      <4>1. k \in Listed(l, 1) /\ ~Passes(l, k)
        BY <3>1, <3>2, <3>3 DEF All, Listed
      <4>2. k # First(l)
        BY <1>5, <4>1
      <4> QED
        BY <1>3, <2>2, <3>1, <4>1, <4>2
    <3>4. CASE members[k].struct # 1
      <4>1. members[First(l)].struct < members[k].struct
        <5>1. members[First(l)].struct = 1
          BY <2>2, <3>2 DEF Listed
        <5> QED
          BY <3>1, <3>4, <5>1
      <4>2. First(l) < k
        BY <2>2, <3>1, <4>1, Places
      <4> QED
        BY <2>2, <3>1, <4>2
    <3> QED
      BY <3>3, <3>4
  <2>5. Begin(l)[2] # End => Begin(l)[2] > End
    BY <2>3, Places DEF IsNextOf
  <2> QED
    BY <2>3, <2>4, <2>5 DEF IsNextOf
<1>6. CASE First(l) # End /\ ~Passes(l, First(l))
  <2> DEFINE f == First(l)
  <2>1. Begin(l) = <<1, f>>
    BY <1>6 DEF Begin
  <2>2. f \in Listed(l, 1) /\ f \in DOMAIN members /\ f > End /\ f \in Nat
    BY <1>2, <1>3, <1>6, Places
  <2>3. f \in All(l)
    BY <1>6, <2>2 DEF All, Listed
  <2>4. ASSUME NEW k \in All(l) PROVE f <= k
    <3>1. k \in DOMAIN members /\ k \in Nat /\ members[k].struct \in Nat \ {0}
      BY Places
    <3>2. CASE k \in Listed(l, 1)
      BY <1>3, <3>2
    <3>3. CASE k \notin Listed(l, 1)
      <4>1. l # "PropertyLink" /\ members[k].struct # 1
        BY <3>1, <3>3 DEF All, Listed
      <4>2. members[f].struct = 1
        BY <2>2, <4>1 DEF Listed
      <4>3. f < k
        BY <2>2, <3>1, <4>1, <4>2, Places
      <4> QED
        BY <2>2, <3>1, <4>3
    <3> QED
      BY <3>2, <3>3
  <2> HIDE DEF f
  <2> QED
    BY <1>1, <2>1, <2>2, <2>3, <2>4 DEF IsNextOf
<1> QED
  BY <1>4, <1>5, <1>6

(***************************************************************************)
(* A search: nothing it has passed has the name, in the list it goes       *)
(* through now or in the one before it.                                    *)
(***************************************************************************)
MembersInLists ==
    \A j \in DOMAIN members :
        /\ members[j].in = "ChildProperties" => ffield /\ members[j].kind # "function"
        /\ members[j].in = "Children" /\ ffield => members[j].kind # "property"

NoneNamed(places) == \A j \in places : ~members[j].named

SoFar(l, at) ==
    IF at[2] = End THEN at = <<End, End>> /\ NoneNamed(All(l))
    ELSE /\ at[1] \in Struct /\ at[2] \in Listed(l, at[1]) /\ at[2] \in All(l)
         /\ NoneNamed({j \in All(l) : j < at[2]})

Lookups == {"find", "find_prop", "find_func_and_validate"}

StructsInv ==
    /\ MembersInOrder /\ MembersInLists
    /\ ffield \in BOOLEAN /\ linked \in BOOLEAN /\ (~ffield => linked)
    /\ via \in Lookups
    /\ \/ list = FirstList
       \/ /\ list = "Children" /\ FirstList # "Children" /\ via # "find_prop"
          /\ NoneNamed(All(FirstList))
    /\ SoFar(list, iterator)
    /\ FindsMostDerived

LEMMA PropertiesAreListed ==
  ASSUME MembersInOrder, MembersInLists, ffield \in BOOLEAN, linked \in BOOLEAN, ~ffield => linked
  PROVE  All(PropertyList) = Properties /\ All("Children") = Fields
<1>1. All("Children") = Fields
  BY DEF All, Fields, Passes
<1>2. All("PropertyLink") = Properties
  BY DEF All, Properties
<1>3. ASSUME ~linked PROVE All("ChildProperties") = Properties
  <2>1. \A j \in DOMAIN members : members[j].in \in {"Children", "ChildProperties"}
    BY Places DEF Member
  <2> QED
    BY <1>3, <2>1 DEF All, Properties, Passes, MembersInLists
<1> QED
  BY <1>1, <1>2, <1>3 DEF PropertyList

LEMMA ListsAreLists == PropertyList \in Lists /\ FirstList \in Lists /\ "Children" \in Lists
  BY DEF PropertyList, FirstList, Lists

\* The first of the name is the one the iterator is at when it has passed none.
LEMMA FirstNamedFacts ==
  ASSUME MembersInOrder, NEW P \in SUBSET DOMAIN members
  PROVE  /\ NoneNamed(P) => FirstNamed(P) = NotFound
         /\ \A j \in P : members[j].named /\ NoneNamed({i \in P : i < j}) =>
               FirstNamed(P) = FoundMember(members[j])
<1> DEFINE N == {j \in P : members[j].named}
<1>1. N \in SUBSET DOMAIN members
  OBVIOUS
<1>2. FirstNamed(P) = IF Least(N) = End THEN NotFound ELSE FoundMember(members[Least(N)])
  BY DEF FirstNamed
<1>3. ASSUME NoneNamed(P) PROVE N = {}
  BY <1>3 DEF NoneNamed
<1>4. ASSUME NEW j \in P, members[j].named, NoneNamed({i \in P : i < j})
      PROVE  Least(N) = j /\ j # End
  <2>1. j \in N
    BY <1>4
  <2>2. \A i \in N : ~(i < j)
    BY <1>4 DEF NoneNamed
  <2>3. Least(N) \in N /\ Least(N) <= j
    <3> HIDE DEF N
    <3> QED
      BY <1>1, <2>1, LeastIsFirst
  <2>4. j \in Nat /\ j > End /\ Least(N) \in Nat
    BY <1>1, <2>1, <2>3, Places
  <2> HIDE DEF N
  <2> QED
    BY <2>2, <2>3, <2>4 DEF End
<1> HIDE DEF N
<1> QED
  BY <1>1, <1>2, <1>3, <1>4, LeastIsFirst

LEMMA Results ==
  /\ Searching # NotFound
  /\ \A m : FoundMember(m) # NotFound /\ FoundMember(m) # Searching /\ FoundMember(m)[2] = m
<1>1. Len(Searching) = 1 /\ Len(NotFound) = 1 /\ Searching[1] = "searching" /\ NotFound[1] = "throws"
  BY DEF Searching, NotFound
<1>2. \A m : Len(FoundMember(m)) = 2 /\ FoundMember(m)[2] = m
  BY DEF FoundMember
<1> QED
  BY <1>1, <1>2

\* The answer to give, which the search leaves as it is.
Answer ==
    LET property == FirstNamed(Properties)
        field == FirstNamed(Fields)
        found == IF via = "find_prop" \/ (ffield /\ property # NotFound) THEN property ELSE field
    IN  IF via = "find_func_and_validate" /\ found # NotFound /\ found[2].kind # "function"
        THEN NotFound ELSE found

LEMMA AnswerStays ==
  ASSUME UNCHANGED <<members, via, ffield>>
  PROVE  Answer' = Answer /\ (FindsMostDerived' <=> (outcome' # Searching => outcome' = Answer))
<1>1. members' = members /\ via' = via /\ ffield' = ffield
  OBVIOUS
<1>2. Properties' = Properties /\ Fields' = Fields
  BY <1>1 DEF Properties, Fields
<1>3. \A P : FirstNamed(P)' = FirstNamed(P)
  BY <1>1 DEF FirstNamed
<1>4. FirstNamed(Properties)' = FirstNamed(Properties) /\ FirstNamed(Fields)' = FirstNamed(Fields)
  BY <1>1, <1>2 DEF FirstNamed
<1>5. Answer' = Answer
  BY <1>1, <1>4 DEF Answer, NotFound
<1>6. FindsMostDerived <=> (outcome # Searching => outcome = Answer)
  BY DEF FindsMostDerived, Answer
<1>7. FindsMostDerived' <=> (outcome' # Searching => outcome' = Answer')
  BY DEF FindsMostDerived, Answer, Searching, NotFound
<1> QED
  BY <1>5, <1>7

(***************************************************************************)
(* What a search that ends in a list has found, or not.                    *)
(***************************************************************************)
LEMMA EndsRight ==
  ASSUME StructsInv, outcome = Searching, iterator' = iterator,
         UNCHANGED <<ffield, linked, members, via, list>>,
         \/ /\ iterator # <<End, End>> /\ Here.named
            /\ outcome' = Validated(Here)
         \/ /\ iterator = <<End, End>> /\ (via = "find_prop" \/ list = "Children")
            /\ outcome' = NotFound
  PROVE  FindsMostDerived'
<1> DEFINE property == FirstNamed(Properties)
           field == FirstNamed(Fields)
           Checked(f) == IF via = "find_func_and_validate" /\ f # NotFound /\ f[2].kind # "function"
                         THEN NotFound ELSE f
           right == IF via = "find_prop" \/ (ffield /\ property # NotFound) THEN property ELSE field
<1>1. /\ All(PropertyList) = Properties /\ All("Children") = Fields
      /\ Properties \in SUBSET DOMAIN members /\ Fields \in SUBSET DOMAIN members
      /\ All(list) \in SUBSET DOMAIN members
  BY PropertiesAreListed, Places DEF StructsInv, Properties, Fields
<1>2. CASE iterator # <<End, End>> /\ Here.named /\ outcome' = Validated(Here)
  <2>1. /\ iterator[2] \in All(list) /\ members[iterator[2]].named
        /\ NoneNamed({j \in All(list) : j < iterator[2]})
    BY <1>2 DEF StructsInv, SoFar, Here
  <2>2. FirstNamed(All(list)) = FoundMember(Here)
    BY <1>1, <2>1, FirstNamedFacts DEF StructsInv, Here
  <2>3. Validated(Here) = Checked(FoundMember(Here))
    BY Results DEF Validated
  <2>4. FoundMember(Here) = right
    <3>1. CASE list = FirstList /\ (ffield \/ via = "find_prop")
      <4>1. FoundMember(Here) = property
        BY <1>1, <2>2, <3>1 DEF FirstList
      <4> QED
        BY <3>1, <4>1, Results
    <3>2. CASE list = FirstList /\ ~(ffield \/ via = "find_prop")
      BY <1>1, <2>2, <3>2 DEF FirstList
    <3>3. CASE /\ list = "Children" /\ FirstList # "Children" /\ via # "find_prop"
               /\ NoneNamed(All(FirstList))
      <4>1. FoundMember(Here) = field
        BY <1>1, <2>2, <3>3
      <4>2. FirstList = PropertyList
        BY <3>3 DEF FirstList
      <4>3. property = NotFound
        BY <1>1, <3>3, <4>2, FirstNamedFacts DEF StructsInv
      <4> QED
        BY <3>3, <4>1, <4>3
    <3> QED
      BY <3>1, <3>2, <3>3 DEF StructsInv
  <2>5. outcome' = Checked(right)
    BY <1>2, <2>3, <2>4
  <2>6. outcome' = Answer
    BY <2>5 DEF Answer
  <2> QED
    BY <2>6, AnswerStays
<1>3. CASE iterator = <<End, End>> /\ (via = "find_prop" \/ list = "Children") /\ outcome' = NotFound
  <2>1. NoneNamed(All(list))
    BY <1>3 DEF StructsInv, SoFar
  <2>2. FirstNamed(All(list)) = NotFound
    BY <1>1, <2>1, FirstNamedFacts DEF StructsInv
  <2>3. right = NotFound
    <3>1. CASE via = "find_prop"
      <4>1. list = PropertyList
        BY <3>1 DEF StructsInv, FirstList
      <4> QED
        BY <1>1, <2>2, <3>1, <4>1
    <3>2. CASE via # "find_prop"
      <4>1. field = NotFound
        BY <1>1, <1>3, <2>2, <3>2
      <4>2. CASE ~ffield
        BY <3>2, <4>1, <4>2
      <4>3. CASE ffield
        <5>1. FirstList = PropertyList /\ PropertyList # "Children"
          BY <4>3 DEF FirstList, PropertyList
        <5>2. NoneNamed(All(PropertyList))
          BY <1>3, <2>1, <3>2, <5>1 DEF StructsInv
        <5>3. property = NotFound
          BY <1>1, <5>2, FirstNamedFacts DEF StructsInv
        <5> QED
          BY <4>1, <5>3
      <4> QED
        BY <4>2, <4>3
    <3> QED
      BY <3>1, <3>2
  <2>4. outcome' = Checked(right)
    BY <1>3, <2>3
  <2>5. outcome' = Answer
    BY <2>4 DEF Answer
  <2> QED
    BY <2>5, AnswerStays
<1> QED
  BY <1>2, <1>3

\* An iterator that goes on from a place without the name, or begins, has passed none.
LEMMA NextSoFar ==
  ASSUME MembersInOrder, NEW l \in Lists, NEW i \in Nat, NEW at, IsNextOf(l, i, at),
         NoneNamed({j \in All(l) : j <= i})
  PROVE  SoFar(l, at)
<1>1. \A j \in All(l) : j \in Nat
  BY Places
<1>2. CASE at[2] = End
  <2>1. \A j \in All(l) : j <= i
    BY <1>1, <1>2 DEF IsNextOf
  <2> QED
    BY <1>2, <2>1 DEF IsNextOf, SoFar, NoneNamed
<1>3. CASE at[2] # End
  <2>1. \A j \in All(l) : j < at[2] => j <= i
    BY <1>1, <1>3 DEF IsNextOf
  <2> QED
    BY <1>3, <2>1 DEF IsNextOf, SoFar, NoneNamed
<1> QED
  BY <1>2, <1>3

LEMMA BeginsRight ==
  ASSUME MembersInOrder, NEW l \in Lists
  PROVE  SoFar(l, Begin(l))
<1>1. NoneNamed({j \in All(l) : j <= End}) /\ End \in Nat
  BY Places DEF NoneNamed, End
<1> QED
  BY <1>1, BeginIsFirst, NextSoFar

LEMMA StructsStart == StructsInit => StructsInv
<1> SUFFICES ASSUME StructsInit PROVE StructsInv
  OBVIOUS
<1>1. MembersInOrder
  <2>1. \E n \in 0 .. MaxMembers : members \in [1 .. n -> Member]
    BY DEF StructsInit, BoundedSeq, SeqOf
  <2>2. 0 .. MaxMembers \subseteq Nat
    BY StructsAssumption
  <2>3. \A i, j \in DOMAIN members : i < j => members[i].struct <= members[j].struct
    BY DEF StructsInit
  <2> QED
    BY <2>1, <2>2, <2>3 DEF MembersInOrder
<1>2. MembersInLists
  BY DEF StructsInit, MembersInLists
<1>3. SoFar(list, iterator)
  BY <1>1, BeginsRight, ListsAreLists DEF StructsInit
<1>4. FindsMostDerived
  BY DEF StructsInit, FindsMostDerived
<1> QED
  BY <1>1, <1>2, <1>3, <1>4 DEF StructsInit, StructsInv, Lookups

LEMMA StructsStep ==
  ASSUME StructsInv, StructsNext
  PROVE  StructsInv'
<1>1. /\ UNCHANGED <<ffield, linked, members, via>> /\ outcome = Searching
      /\ MembersInOrder' /\ MembersInLists' /\ FirstList' = FirstList
  BY DEF StructsNext, Look, GoOnWithFields, GiveUp, StructsInv, MembersInOrder, MembersInLists,
         FirstList, PropertyList
<1>2. \A l : All(l)' = All(l)
  BY <1>1 DEF All, Passes
<1>3. \A l, at : SoFar(l, at) => SoFar(l, at)'
  BY <1>1, <1>2 DEF SoFar, NoneNamed, Listed
<1>4. NoneNamed(All(FirstList)) => NoneNamed(All(FirstList))'
  BY <1>1, <1>2 DEF NoneNamed
<1>5. list \in Lists
  BY ListsAreLists DEF StructsInv
<1>6. CASE outcome' # Searching
  <2>1. list' = list /\ iterator' = iterator /\ FindsMostDerived'
    <3>1. \/ /\ iterator # <<End, End>> /\ Here.named
             /\ outcome' = Validated(Here) /\ iterator' = iterator /\ list' = list
          \/ /\ iterator = <<End, End>> /\ (via = "find_prop" \/ list = "Children")
             /\ outcome' = NotFound /\ iterator' = iterator /\ list' = list
      BY <1>1, <1>6 DEF StructsNext, Look, GoOnWithFields, GiveUp
    <3> QED
      BY <1>1, <3>1, EndsRight
  <2> QED
    BY <1>1, <1>3, <1>4, <2>1 DEF StructsInv
<1>7. CASE outcome' = Searching
  <2>1. FindsMostDerived'
    BY <1>7 DEF FindsMostDerived
  <2>2. CASE Look
    <3>1. /\ iterator # <<End, End>> /\ ~Here.named /\ list' = list
          /\ iterator' = Follow(list, iterator[1], iterator[2])
      BY <1>7, <2>2, Results DEF Look, Validated
    <3>2. /\ iterator[1] \in Struct /\ iterator[2] \in Listed(list, iterator[1])
          /\ iterator[2] \in All(list) /\ NoneNamed({j \in All(list) : j < iterator[2]})
      BY <3>1 DEF StructsInv, SoFar
    <3>3. iterator[2] \in Nat /\ iterator[2] # End
      BY <3>2, Places DEF StructsInv
    <3>4. IsNextOf(list, iterator[2], iterator')
      BY <1>5, <3>1, <3>2, <3>3, FollowIsNext DEF StructsInv
    <3>5. NoneNamed({j \in All(list) : j <= iterator[2]})
      <4>1. \A j \in All(list) : j \in Nat
        BY Places DEF StructsInv
      <4>2. \A j \in All(list) : j <= iterator[2] => j < iterator[2] \/ j = iterator[2]
        BY <3>3, <4>1
      <4> QED
        BY <3>1, <3>2, <4>2 DEF NoneNamed, Here
    <3>6. SoFar(list, iterator')
      BY <1>5, <3>3, <3>4, <3>5, NextSoFar DEF StructsInv
    <3>7. SoFar(list, iterator)'
      BY <1>1, <1>2, <3>1, <3>6 DEF SoFar, NoneNamed, Listed
    <3> QED
      BY <1>1, <1>4, <2>1, <3>1, <3>7 DEF StructsInv
  <2>3. CASE GoOnWithFields
    <3>1. /\ iterator = <<End, End>> /\ via # "find_prop" /\ list # "Children"
          /\ list' = "Children" /\ iterator' = Begin("Children")
      BY <2>3 DEF GoOnWithFields
    <3>2. list = FirstList /\ NoneNamed(All(FirstList))
      BY <3>1 DEF StructsInv, SoFar
    <3>3. SoFar("Children", Begin("Children"))
      BY BeginsRight, ListsAreLists DEF StructsInv
    <3>4. SoFar(list, iterator)'
      BY <1>1, <1>2, <3>1, <3>3 DEF SoFar, NoneNamed, Listed
    <3> QED
      BY <1>1, <1>4, <2>1, <3>1, <3>2, <3>4 DEF StructsInv
  <2>4. CASE GiveUp
    BY <1>7, <2>4, Results DEF GiveUp
  <2> QED
    BY <2>2, <2>3, <2>4 DEF StructsNext
<1> QED
  BY <1>6, <1>7

(***************************************************************************)
(* UStruct::find and its relatives, for any number of structs and members  *)
(* and either way of linking properties: what they give is the most        *)
(* derived member of the name among those they were asked for, and they    *)
(* throw only if there is none.                                            *)
(***************************************************************************)
THEOREM MostDerivedIsFound == StructsSpec => []FindsMostDerived
<1>1. StructsInv /\ UNCHANGED structVars => StructsInv'
  <2> SUFFICES ASSUME StructsInv, UNCHANGED structVars PROVE StructsInv'
    OBVIOUS
  <2>1. UNCHANGED <<ffield, linked, members, via, list, iterator, outcome>>
    BY DEF structVars
  <2>2. FindsMostDerived'
    BY <2>1, AnswerStays DEF StructsInv, FindsMostDerived, Answer
  <2> QED
    BY <2>1, <2>2 DEF StructsInv, MembersInOrder, MembersInLists, FirstList, PropertyList,
                      SoFar, NoneNamed, Listed, All, Passes
<1>2. StructsInv /\ [StructsNext]_structVars => StructsInv'
  BY <1>1, StructsStep
<1>3. StructsInv => FindsMostDerived
  BY DEF StructsInv
<1> QED
  BY <1>2, <1>3, StructsStart, PTL DEF StructsSpec

-----------------------------------------------------------------------------

(***************************************************************************)
(* UnrealArray: each pointer, in an entry or a handle, has a reference.    *)
(***************************************************************************)
Cap == MaxSize + Slack + MinGrow

Cells == Seq(Thing \union {Nothing})

Holders(x) == {h \in Handle : handle[h] = x}

At(memory, is, x) == {i \in is : memory[i] = x}

Is(x, y) == IF x = y THEN 1 ELSE 0

ArraysShape ==
    /\ inner \in {"str", "inline"}
    /\ size \in [Array -> Nat] /\ cells \in [Array -> Cells]
    /\ \A a \in Array : size[a] <= MaxSize /\ size[a] <= Len(cells[a]) /\ Len(cells[a]) <= Cap
    /\ strong \in [Thing -> Int]
    /\ handle \in [Handle -> Thing \union {Nothing}]

ArraysInv == ArraysShape /\ EntriesHaveReferences

LEMMA CapIsNat == Cap \in Nat /\ 1 \in 1 .. Cap /\ MaxSize <= Cap
  BY UnrealArrayAssumption DEF Cap

LEMMA CountsOfFew ==
  /\ \A x : Count(<<>>, x) = 0
  /\ \A x, y : Count(<<y>>, x) = Is(y, x)
  /\ \A memory, is, x : Count(Part(memory, is), x) = Cardinality(At(memory, is, x))
<1>1. \A x : Count(<<>>, x) = 0
  <2>1. \A x : {i \in DOMAIN <<>> : <<>>[i] = x} = {}
    OBVIOUS
  <2> QED
    BY <2>1, FS_EmptySet DEF Count
<1>2. \A x, y : Count(<<y>>, x) = Is(y, x)
  <2> TAKE x, y
  <2>1. CASE y = x
    <3>1. {i \in DOMAIN <<y>> : <<y>>[i] = x} = {1}
      BY <2>1
    <3> QED
      BY <2>1, <3>1, FS_Singleton DEF Count, Is
  <2>2. CASE y # x
    <3>1. {i \in DOMAIN <<y>> : <<y>>[i] = x} = {}
      BY <2>2
    <3> QED
      BY <2>2, <3>1, FS_EmptySet DEF Count, Is
  <2> QED
    BY <2>1, <2>2
<1>3. ASSUME NEW memory, NEW is, NEW x
      PROVE  Count(Part(memory, is), x) = Cardinality(At(memory, is, x))
  <2>1. {i \in DOMAIN Part(memory, is) : Part(memory, is)[i] = x} = At(memory, is, x)
    BY DEF Part, At
  <2> QED
    BY <2>1 DEF Count
<1> QED
  BY <1>1, <1>2, <1>3

LEMMA IsAtMostOne == \A x, y : Is(x, y) \in Nat
  BY DEF Is

\* The counts where each of the numbers of references given up and taken is one.
LEMMA CountedFacts ==
  ASSUME ArraysShape, NEW dropped, NEW added,
         \A y \in Thing : Count(dropped, y) \in Nat /\ Count(added, y) \in Nat
  PROVE  /\ Counted(dropped, added) \in [Thing -> Int]
         /\ \A y \in Thing :
               Counted(dropped, added)[y] = strong[y] - Count(dropped, y) + Count(added, y)
<1>1. \A y \in Thing : strong[y] - Count(dropped, y) + Count(added, y) \in Int
  BY DEF ArraysShape
<1> QED
  BY <1>1 DEF Counted

LEMMA AtIsFinite ==
  ASSUME NEW n \in Nat, NEW is \in SUBSET (1 .. n), NEW memory, NEW x
  PROVE  /\ IsFiniteSet(At(memory, is, x)) /\ Cardinality(At(memory, is, x)) \in Nat
         /\ At(memory, is, x) \in SUBSET (1 .. n)
<1>1. At(memory, is, x) \in SUBSET (1 .. n)
  BY DEF At
<1>2. IsFiniteSet(1 .. n)
  BY FS_Interval
<1> QED
  BY <1>1, <1>2, FS_Subset, FS_CardinalityType

LEMMA PlacesAreFinite ==
  /\ \A x : IsFiniteSet(Entries(x)) /\ Cardinality(Entries(x)) \in Nat
  /\ \A x : IsFiniteSet(Entries(x)') /\ Cardinality(Entries(x)') \in Nat
  /\ \A x : IsFiniteSet(Holders(x)) /\ Cardinality(Holders(x)) \in Nat
<1>1. IsFiniteSet(1 .. Cap)
  BY CapIsNat, FS_Interval
<1>2. IsFiniteSet(Array \X (1 .. Cap))
  BY <1>1, FS_Product, UnrealArrayAssumption
<1>3. \A x : Entries(x) \in SUBSET (Array \X (1 .. Cap)) /\ Entries(x)' \in SUBSET (Array \X (1 .. Cap))
  BY DEF Entries, Cap
<1>4. \A x : Holders(x) \in SUBSET Handle
  BY DEF Holders
<1>5. \A S, T : IsFiniteSet(T) /\ S \in SUBSET T => IsFiniteSet(S) /\ Cardinality(S) \in Nat
  BY FS_Subset, FS_CardinalityType
<1> QED
  BY <1>2, <1>3, <1>4, <1>5, UnrealArrayAssumption

\* As many pairs as second elements.
LEMMA PairsOf ==
  ASSUME NEW a, NEW S, IsFiniteSet(S)
  PROVE  IsFiniteSet({a} \X S) /\ Cardinality({a} \X S) = Cardinality(S)
<1>1. IsFiniteSet({a}) /\ Cardinality({a}) = 1
  BY FS_Singleton
<1>2. Cardinality(S) \in Nat
  BY FS_CardinalityType
<1> QED
  BY <1>1, <1>2, FS_Product

(***************************************************************************)
(* The places of one array change: those in `is` with x go, those in `js`  *)
(* with x come, and no other has x that had it not.                        *)
(***************************************************************************)
LEMMA EntriesChange ==
  ASSUME ArraysShape, NEW a \in Array, NEW memory \in Cells, NEW x \in Thing,
         cells' = [cells EXCEPT ![a] = memory],
         NEW is \in SUBSET (1 .. Len(cells[a])), NEW js \in SUBSET (1 .. Len(memory)),
         \A i \in 1 .. Len(memory) : i \notin js /\ memory[i] # Nothing =>
            i \in 1 .. Len(cells[a]) /\ i \notin is /\ memory[i] = cells[a][i]
  PROVE  Cardinality(Entries(x)') <=
            Cardinality(Entries(x)) - Cardinality(At(cells[a], is, x)) + Cardinality(At(memory, js, x))
<1> DEFINE D == {a} \X At(cells[a], is, x)
           A == {a} \X At(memory, js, x)
           E == Entries(x)
           F == Entries(x)'
<1>1. /\ cells[a] \in Cells /\ Len(cells[a]) \in Nat /\ DOMAIN cells[a] = 1 .. Len(cells[a])
      /\ Len(memory) \in Nat /\ DOMAIN memory = 1 .. Len(memory)
      /\ Len(cells[a]) <= Cap /\ x # Nothing
  BY UnrealArrayAssumption DEF ArraysShape, Cells
<1>2. /\ IsFiniteSet(D) /\ Cardinality(D) = Cardinality(At(cells[a], is, x)) /\ Cardinality(D) \in Nat
      /\ IsFiniteSet(A) /\ Cardinality(A) = Cardinality(At(memory, js, x)) /\ Cardinality(A) \in Nat
  <2>1. /\ IsFiniteSet(At(cells[a], is, x)) /\ Cardinality(At(cells[a], is, x)) \in Nat
        /\ IsFiniteSet(At(memory, js, x)) /\ Cardinality(At(memory, js, x)) \in Nat
    BY <1>1, AtIsFinite
  <2>2. IsFiniteSet(D) /\ Cardinality(D) = Cardinality(At(cells[a], is, x))
    BY <2>1, PairsOf
  <2>3. IsFiniteSet(A) /\ Cardinality(A) = Cardinality(At(memory, js, x))
    BY <2>1, PairsOf
  <2> QED
    BY <2>1, <2>2, <2>3
<1>3. D \subseteq E
  <2>1. ASSUME NEW i \in At(cells[a], is, x) PROVE <<a, i>> \in E
    <3>1. i \in is /\ cells[a][i] = x
      BY DEF At
    <3>2. i \in DOMAIN cells[a] /\ i \in 1 .. Cap
      BY <1>1, <3>1, CapIsNat
    <3> QED
      BY <3>1, <3>2 DEF Entries, Cap
  <2> QED
    BY <2>1
<1>4. F \subseteq (E \ D) \union A
  <2> SUFFICES ASSUME NEW p \in F, p \notin A PROVE p \in E /\ p \notin D
    OBVIOUS
  <2>1. /\ p \in Array \X (1 .. Cap) /\ p = <<p[1], p[2]>>
        /\ p[2] \in DOMAIN cells'[p[1]] /\ cells'[p[1]][p[2]] = x
    BY DEF Entries, Cap
  <2>2. CASE p[1] # a
    <3>1. cells'[p[1]] = cells[p[1]]
      BY <2>1, <2>2 DEF ArraysShape
    <3> QED
      BY <2>1, <2>2, <3>1 DEF Entries, Cap
  <2>3. CASE p[1] = a
    <3>1. cells'[a] = memory /\ p[2] \in 1 .. Len(memory) /\ memory[p[2]] = x
      BY <1>1, <2>1, <2>3 DEF ArraysShape
    <3>2. p[2] \notin js
      BY <2>1, <2>3, <3>1 DEF At
    <3>3. p[2] \in 1 .. Len(cells[a]) /\ p[2] \notin is /\ cells[a][p[2]] = x
      BY <1>1, <3>1, <3>2
    <3> QED
      BY <1>1, <2>1, <2>3, <3>3 DEF Entries, Cap, At
  <2> QED
    BY <2>2, <2>3
<1>5. IsFiniteSet(E) /\ Cardinality(E) \in Nat /\ IsFiniteSet(F) /\ Cardinality(F) \in Nat
  BY PlacesAreFinite
<1> HIDE DEF D, A, E, F
<1>6. IsFiniteSet(E \ D) /\ Cardinality(E \ D) = Cardinality(E) - Cardinality(D)
  <2>1. E \cap D = D
    BY <1>3
  <2> QED
    BY <1>5, <2>1, FS_Difference
<1>7. /\ IsFiniteSet((E \ D) \union A)
      /\ Cardinality((E \ D) \union A) <= Cardinality(E \ D) + Cardinality(A)
  <2>1. IsFiniteSet((E \ D) \cap A) /\ Cardinality((E \ D) \cap A) \in Nat
    BY <1>6, FS_Intersection, FS_CardinalityType
  <2>2. Cardinality(E \ D) \in Nat
    BY <1>6, FS_CardinalityType
  <2>3. /\ IsFiniteSet((E \ D) \union A)
        /\ Cardinality((E \ D) \union A)
              = Cardinality(E \ D) + Cardinality(A) - Cardinality((E \ D) \cap A)
    BY <1>2, <1>6, FS_Union
  <2> QED
    BY <1>2, <2>1, <2>2, <2>3
<1>8. Cardinality(F) <= Cardinality((E \ D) \union A)
  BY <1>4, <1>7, FS_Subset
<1>9. Cardinality((E \ D) \union A) \in Nat
  BY <1>7, FS_CardinalityType
<1> QED
  BY <1>2, <1>5, <1>6, <1>7, <1>8, <1>9 DEF D, A, E, F

\* A change to one array, the references given up and taken, and the invariant.
LEMMA ArrayStep ==
  ASSUME ArraysInv, NEW a \in Array, NEW memory \in Cells, Len(memory) <= Cap,
         cells' = [cells EXCEPT ![a] = memory], UNCHANGED <<inner, handle>>,
         NEW n \in 0 .. MaxSize, n <= Len(memory), size' = [size EXCEPT ![a] = n],
         NEW is \in SUBSET (1 .. Len(cells[a])), NEW js \in SUBSET (1 .. Len(memory)),
         \A i \in 1 .. Len(memory) : i \notin js /\ memory[i] # Nothing =>
            i \in 1 .. Len(cells[a]) /\ i \notin is /\ memory[i] = cells[a][i],
         strong' \in [Thing -> Int],
         \A x \in Thing : strong'[x] >=
            strong[x] - Cardinality(At(cells[a], is, x)) + Cardinality(At(memory, js, x))
  PROVE  ArraysInv'
<1>1. ArraysShape
  BY DEF ArraysInv
<1>2. ArraysShape'
  <2>1. strong' \in [Thing -> Int]
    OBVIOUS
  <2>2. cells' \in [Array -> Cells] /\ size' \in [Array -> Nat]
    BY <1>1, UnrealArrayAssumption DEF ArraysShape
  <2>3. \A b \in Array : size'[b] <= MaxSize /\ size'[b] <= Len(cells'[b]) /\ Len(cells'[b]) <= Cap
    BY <1>1, UnrealArrayAssumption DEF ArraysShape
  <2> QED
    BY <1>1, <2>1, <2>2, <2>3 DEF ArraysShape
<1>3. ASSUME NEW x \in Thing
      PROVE  Cardinality(Entries(x)') + Cardinality(Holders(x)) <= strong'[x]
  <2>1. Cardinality(Entries(x)') <=
           Cardinality(Entries(x)) - Cardinality(At(cells[a], is, x)) + Cardinality(At(memory, js, x))
    BY <1>1, EntriesChange
  <2>2. Cardinality(Entries(x)) + Cardinality(Holders(x)) <= strong[x] /\ strong[x] \in Int
    BY <1>1 DEF ArraysInv, EntriesHaveReferences, Holders, ArraysShape
  <2>3. /\ strong'[x] \in Int
        /\ strong'[x] >=
              strong[x] - Cardinality(At(cells[a], is, x)) + Cardinality(At(memory, js, x))
    OBVIOUS
  <2>4. /\ Cardinality(At(cells[a], is, x)) \in Nat /\ Cardinality(At(memory, js, x)) \in Nat
    <3>1. Len(cells[a]) \in Nat /\ Len(memory) \in Nat
      BY <1>1 DEF ArraysShape, Cells
    <3> QED
      BY <3>1, AtIsFinite
  <2>5. /\ Cardinality(Entries(x)) \in Nat /\ Cardinality(Entries(x)') \in Nat
        /\ Cardinality(Holders(x)) \in Nat
    BY PlacesAreFinite
  <2> QED
    BY <2>1, <2>2, <2>3, <2>4, <2>5
<1>4. EntriesHaveReferences'
  BY <1>3 DEF EntriesHaveReferences, Holders
<1> QED
  BY <1>2, <1>4 DEF ArraysInv

\* A change to one handle.
LEMMA HandleStep ==
  ASSUME ArraysInv, UNCHANGED <<inner, size, cells>>, NEW h \in Handle,
         NEW x \in Thing \union {Nothing}, handle' = [handle EXCEPT ![h] = x],
         strong' = [y \in Thing |-> strong[y] - Is(handle[h], y) + Is(x, y)]
  PROVE  ArraysInv'
<1>1. ArraysShape
  BY DEF ArraysInv
<1>2. ArraysShape'
  <2>1. strong' \in [Thing -> Int]
    BY <1>1 DEF ArraysShape, Is
  <2> QED
    BY <1>1, <2>1 DEF ArraysShape
<1>3. ASSUME NEW y \in Thing
      PROVE  Cardinality(Entries(y)) + Cardinality(Holders(y)') <= strong'[y]
  <2>1. Cardinality(Entries(y)) + Cardinality(Holders(y)) <= strong[y] /\ strong[y] \in Int
    BY <1>1 DEF ArraysInv, EntriesHaveReferences, Holders, ArraysShape
  <2>2. strong'[y] = strong[y] - Is(handle[h], y) + Is(x, y)
    OBVIOUS
  <2>3. Holders(y)' = (Holders(y) \ {h}) \union (IF x = y THEN {h} ELSE {})
    BY <1>1 DEF Holders, ArraysShape
  <2>4. h \in Holders(y) <=> handle[h] = y
    BY DEF Holders
  <2>5. /\ Cardinality(Entries(y)) \in Nat /\ Cardinality(Holders(y)) \in Nat
        /\ IsFiniteSet(Holders(y))
    BY PlacesAreFinite
  <2>6. /\ IsFiniteSet(Holders(y) \ {h})
        /\ Cardinality(Holders(y) \ {h}) = Cardinality(Holders(y)) - Is(handle[h], y)
    BY <2>4, <2>5, FS_RemoveElement DEF Is
  <2>7. Cardinality(Holders(y)') = Cardinality(Holders(y) \ {h}) + Is(x, y)
    <3>1. CASE x = y
      <4>1. Holders(y)' = (Holders(y) \ {h}) \union {h} /\ h \notin Holders(y) \ {h}
        BY <2>3, <3>1
      <4> QED
        BY <2>6, <3>1, <4>1, FS_AddElement DEF Is
    <3>2. CASE x # y
      <4>1. Holders(y)' = Holders(y) \ {h}
        BY <2>3, <3>2
      <4>2. Cardinality(Holders(y) \ {h}) \in Nat
        BY <2>6, FS_CardinalityType
      <4> QED
        BY <3>2, <4>1, <4>2 DEF Is
    <3> QED
      BY <3>1, <3>2
  <2> QED
    BY <2>1, <2>2, <2>5, <2>6, <2>7 DEF Is
<1>4. EntriesHaveReferences'
  BY <1>3 DEF EntriesHaveReferences, Holders, Entries
<1> QED
  BY <1>2, <1>4 DEF ArraysInv

(***************************************************************************)
(* The operations on handles.                                              *)
(***************************************************************************)
LEMMA HandlesKeep ==
  ASSUME ArraysInv,
         \/ \E a \in Array, i \in 1 .. MaxSize, h \in Handle : Get(a, i, h)
         \/ \E h, g \in Handle, x \in Thing : CopyOf(h, g, x)
         \/ \E h \in Handle : DropHandle(h)
  PROVE  ArraysInv'
<1>1. ArraysShape /\ Nothing \notin Thing
  BY UnrealArrayAssumption DEF ArraysInv
<1>2. ASSUME NEW a \in Array, NEW i \in 1 .. MaxSize, NEW h \in Handle, Get(a, i, h)
      PROVE  ArraysInv'
  <2> DEFINE x == cells[a][i]
  <2>1. /\ i \in 1 .. size[a] /\ handle[h] = Nothing /\ x # Nothing /\ UNCHANGED <<inner, size, cells>>
        /\ handle' = [handle EXCEPT ![h] = x] /\ strong' = Counted(<<>>, <<x>>)
    BY <1>2 DEF Get, InUse
  <2>2. x \in Thing \union {Nothing}
    <3>1. cells[a] \in Cells /\ size[a] <= Len(cells[a]) /\ size[a] \in Nat
      BY <1>1 DEF ArraysShape
    <3>2. i \in 1 .. Len(cells[a])
      BY <2>1, <3>1 DEF Cells
    <3> QED
      BY <3>1, <3>2 DEF Cells
  <2> HIDE DEF x
  <2>3. strong' = [y \in Thing |-> strong[y] - Is(handle[h], y) + Is(x, y)]
    <3>1. \A y \in Thing : Count(<<>>, y) = Is(handle[h], y) /\ Count(<<x>>, y) = Is(x, y)
      BY <1>1, <2>1, CountsOfFew DEF Is
    <3> QED
      BY <2>1, <3>1 DEF Counted
  <2> QED
    BY <2>1, <2>2, <2>3, HandleStep
<1>3. ASSUME NEW h \in Handle, NEW g \in Handle, NEW x \in Thing, CopyOf(h, g, x)
      PROVE  ArraysInv'
  <2>1. /\ handle[h] = Nothing /\ UNCHANGED <<inner, size, cells>>
        /\ handle' = [handle EXCEPT ![h] = x] /\ strong' = Counted(<<>>, <<x>>)
    BY <1>3 DEF CopyOf
  <2>2. strong' = [y \in Thing |-> strong[y] - Is(handle[h], y) + Is(x, y)]
    <3>1. \A y \in Thing : Count(<<>>, y) = Is(handle[h], y) /\ Count(<<x>>, y) = Is(x, y)
      BY <1>1, <2>1, CountsOfFew DEF Is
    <3> QED
      BY <2>1, <3>1 DEF Counted
  <2> QED
    BY <2>1, <2>2, HandleStep
<1>4. ASSUME NEW h \in Handle, DropHandle(h)
      PROVE  ArraysInv'
  <2>1. /\ UNCHANGED <<inner, size, cells>> /\ handle' = [handle EXCEPT ![h] = Nothing]
        /\ strong' = Counted(<<handle[h]>>, <<>>)
    BY <1>4 DEF DropHandle
  <2>2. strong' = [y \in Thing |-> strong[y] - Is(handle[h], y) + Is(Nothing, y)]
    <3>1. \A y \in Thing :
             Count(<<handle[h]>>, y) = Is(handle[h], y) /\ Count(<<>>, y) = Is(Nothing, y)
      BY <1>1, CountsOfFew DEF Is
    <3> QED
      BY <2>1, <3>1 DEF Counted
  <2> QED
    BY <2>1, <2>2, HandleStep
<1> QED
  BY <1>2, <1>3, <1>4

(***************************************************************************)
(* The operations on single entries.                                       *)
(***************************************************************************)
LEMMA EntriesKeep ==
  ASSUME ArraysInv, NEW a \in Array, NEW i \in 1 .. MaxSize,
         DestroyAt(a, i) \/ \E x \in Thing \union {Nothing} : SetInline(a, i, x) \/ SetString(a, i, x)
  PROVE  ArraysInv'
<1>1. /\ cells[a] \in Cells /\ Len(cells[a]) \in Nat /\ DOMAIN cells[a] = 1 .. Len(cells[a])
      /\ size[a] \in 0 .. MaxSize /\ size[a] <= Len(cells[a]) /\ Len(cells[a]) <= Cap
      /\ size = [size EXCEPT ![a] = size[a]] /\ Nothing \notin Thing
  BY UnrealArrayAssumption DEF ArraysInv, ArraysShape, Cells
<1>2. i \in 1 .. Len(cells[a]) /\ UNCHANGED <<inner, size, handle>>
  <2>1. i \in InUse(a) /\ UNCHANGED <<inner, size, handle>>
    BY DEF DestroyAt, SetInline, SetString
  <2> QED
    BY <1>1, <2>1 DEF InUse
<1>3. \A memory, x : At(memory, {i}, x) = IF memory[i] = x THEN {i} ELSE {}
  BY DEF At
<1>4. \A memory, x : Cardinality(At(memory, {i}, x)) = Is(memory[i], x)
  BY <1>3, FS_Singleton, FS_EmptySet DEF Is
<1>5. CASE DestroyAt(a, i)
  <2> DEFINE memory == Destroyed(a, {i})
  <2>1. cells' = [cells EXCEPT ![a] = memory] /\ strong' = Counted(<<cells[a][i]>>, <<>>)
    BY <1>5 DEF DestroyAt
  <2>2. memory = [k \in 1 .. Len(cells[a]) |-> IF k \in {i} THEN Nothing ELSE cells[a][k]]
    BY <1>1 DEF Destroyed
  <2>3. memory \in Cells /\ Len(memory) = Len(cells[a])
    BY <1>1, <2>2 DEF Cells
  <2>4. \A k \in 1 .. Len(memory) : k \notin {} /\ memory[k] # Nothing =>
           k \in 1 .. Len(cells[a]) /\ k \notin {i} /\ memory[k] = cells[a][k]
    BY <2>2, <2>3
  <2>5. /\ strong' \in [Thing -> Int]
        /\ \A x \in Thing : strong'[x] >=
              strong[x] - Cardinality(At(cells[a], {i}, x)) + Cardinality(At(memory, {}, x))
    <3>1. \A x : At(memory, {}, x) = {} /\ Cardinality(At(memory, {}, x)) = 0
      BY FS_EmptySet DEF At
    <3> DEFINE old == <<cells[a][i]>>
    <3>2. \A x : Count(old, x) = Is(cells[a][i], x)
      BY CountsOfFew
    <3>3. strong' = Counted(old, <<>>)
      BY <2>1
    <3> HIDE DEF old
    <3>4. \A x : /\ Count(old, x) = Cardinality(At(cells[a], {i}, x))
                 /\ Count(<<>>, x) = 0 /\ Count(old, x) \in Nat
      BY <1>4, <3>2, CountsOfFew, IsAtMostOne
    <3>5. /\ strong' \in [Thing -> Int]
          /\ \A x \in Thing : strong'[x] = strong[x] - Count(old, x) + Count(<<>>, x)
      BY <3>3, <3>4, CountedFacts DEF ArraysInv
    <3>6. \A x \in Thing : strong[x] \in Int
      BY DEF ArraysInv, ArraysShape
    <3>7. ASSUME NEW x \in Thing
          PROVE  strong'[x] >=
                    strong[x] - Cardinality(At(cells[a], {i}, x)) + Cardinality(At(memory, {}, x))
      <4>1. /\ strong'[x] = strong[x] - Count(old, x) + 0 /\ strong[x] \in Int
            /\ Cardinality(At(cells[a], {i}, x)) = Count(old, x) /\ Count(old, x) \in Nat
            /\ Cardinality(At(memory, {}, x)) = 0
        BY <3>1, <3>4, <3>5, <3>6
      <4> QED
        BY <4>1
    <3> QED
      BY <3>5, <3>7
  <2> HIDE DEF memory
  <2>6. size' = [size EXCEPT ![a] = size[a]] /\ {i} \in SUBSET (1 .. Len(cells[a]))
    BY <1>1, <1>2
  <2> QED
    BY <1>1, <1>2, <2>1, <2>3, <2>4, <2>5, <2>6, ArrayStep
<1>6. ASSUME NEW x \in Thing \union {Nothing}, SetInline(a, i, x) \/ SetString(a, i, x)
      PROVE  ArraysInv'
  <2> DEFINE memory == [cells[a] EXCEPT ![i] = x]
  <2>1. /\ cells' = [cells EXCEPT ![a] = memory]
        /\ \/ strong' = Counted(<<cells[a][i]>>, <<x>>)
           \/ strong' = Counted(<<>>, <<x>>)
    BY <1>6 DEF SetInline, SetString
  <2>2. memory \in Cells /\ Len(memory) = Len(cells[a]) /\ memory[i] = x
    BY <1>1, <1>2 DEF Cells
  <2>3. \A k \in 1 .. Len(memory) : k \notin {i} /\ memory[k] # Nothing =>
           k \in 1 .. Len(cells[a]) /\ k \notin {i} /\ memory[k] = cells[a][k]
    BY <1>1, <2>2
  <2> HIDE DEF memory
  <2>4. /\ strong' \in [Thing -> Int]
        /\ \A y \in Thing : strong'[y] >=
              strong[y] - Cardinality(At(cells[a], {i}, y)) + Cardinality(At(memory, {i}, y))
    <3> DEFINE old == <<cells[a][i]>>
               new == <<x>>
    <3>1. \A y : Count(old, y) = Is(cells[a][i], y) /\ Count(new, y) = Is(x, y)
      BY CountsOfFew
    <3>2. strong' = Counted(old, new) \/ strong' = Counted(<<>>, new)
      BY <2>1
    <3> HIDE DEF old, new
    <3>3. \A y : /\ Count(old, y) = Cardinality(At(cells[a], {i}, y)) /\ Count(old, y) \in Nat
                 /\ Count(new, y) = Cardinality(At(memory, {i}, y)) /\ Count(new, y) \in Nat
                 /\ Count(<<>>, y) = 0
      <4>1. \A y : Count(old, y) = Cardinality(At(cells[a], {i}, y)) /\ Count(old, y) \in Nat
        BY <1>4, <3>1, IsAtMostOne
      <4>2. \A y : Count(new, y) = Cardinality(At(memory, {i}, y)) /\ Count(new, y) \in Nat
        BY <1>4, <2>2, <3>1, IsAtMostOne
      <4> QED
        BY <4>1, <4>2, CountsOfFew
    <3>4. \A y \in Thing : strong[y] \in Int
      BY DEF ArraysInv, ArraysShape
    <3>5. /\ strong' \in [Thing -> Int]
          /\ \A y \in Thing : \/ strong'[y] = strong[y] - Count(old, y) + Count(new, y)
                              \/ strong'[y] = strong[y] - 0 + Count(new, y)
      <4>1. CASE strong' = Counted(old, new)
        BY <3>3, <4>1, CountedFacts DEF ArraysInv
      <4>2. CASE strong' = Counted(<<>>, new)
        BY <3>3, <4>2, CountedFacts DEF ArraysInv
      <4> QED
        BY <3>2, <4>1, <4>2
    <3>6. ASSUME NEW y \in Thing
          PROVE  strong'[y] >=
                    strong[y] - Cardinality(At(cells[a], {i}, y)) + Cardinality(At(memory, {i}, y))
      <4>1. /\ strong[y] \in Int
            /\ Cardinality(At(cells[a], {i}, y)) = Count(old, y) /\ Count(old, y) \in Nat
            /\ Cardinality(At(memory, {i}, y)) = Count(new, y) /\ Count(new, y) \in Nat
        BY <3>3, <3>4
      <4> QED
        BY <3>5, <4>1
    <3> QED
      BY <3>5, <3>6
  <2>5. /\ {i} \in SUBSET (1 .. Len(cells[a])) /\ {i} \in SUBSET (1 .. Len(memory))
        /\ size' = [size EXCEPT ![a] = size[a]]
    BY <1>1, <1>2, <2>2
  <2> QED
    BY <1>1, <1>2, <2>1, <2>2, <2>3, <2>4, <2>5, ArrayStep
<1> QED
  BY <1>5, <1>6

(***************************************************************************)
(* Resizing and what is built on it.                                       *)
(***************************************************************************)
LEMMA ResizedFacts ==
  ASSUME NEW memory \in Cells, Len(memory) <= Cap, NEW n \in 0 .. MaxSize
  PROVE  /\ Resized(memory, n) \in Cells /\ n <= Len(Resized(memory, n))
         /\ Len(Resized(memory, n)) <= Cap
         /\ \A i \in 1 .. Len(Resized(memory, n)) : Resized(memory, n)[i] # Nothing =>
               i \in 1 .. Len(memory) /\ Resized(memory, n)[i] = memory[i]
<1>1. n \in Nat /\ n <= MaxSize /\ MaxSize \in Nat /\ Slack \in Nat /\ MinGrow \in Nat /\ Len(memory) \in Nat
  BY UnrealArrayAssumption DEF Cells
<1>2. Grown(n) \in Nat /\ n <= Grown(n) /\ Grown(n) <= Cap
  BY <1>1 DEF Grown, Cap
<1>3. CASE Len(memory) < n
  <2>1. Resized(memory, n) =
           [i \in 1 .. Grown(n) |-> IF i <= Len(memory) THEN memory[i] ELSE Nothing]
    BY <1>3 DEF Resized, Reserved
  <2>2. \A i \in 1 .. Grown(n) :
           (IF i <= Len(memory) THEN memory[i] ELSE Nothing) \in Thing \union {Nothing}
    BY <1>1, <1>2 DEF Cells
  <2>3. Resized(memory, n) \in Cells /\ Len(Resized(memory, n)) = Grown(n)
    BY <1>2, <2>1, <2>2 DEF Cells
  <2> QED
    BY <1>1, <1>2, <2>1, <2>3
<1>4. CASE ~(Len(memory) < n)
  <2>1. Resized(memory, n) = memory
    BY <1>4 DEF Resized
  <2> QED
    BY <1>1, <1>4, <2>1
<1> QED
  BY <1>3, <1>4

LEMMA ResizesKeep ==
  ASSUME ArraysInv, NEW a \in Array, NEW n \in 0 .. MaxSize,
         Resize(a, n) \/ (n > 0 /\ Reserve(a, n)) \/ DestroyArray(a)
  PROVE  ArraysInv'
<1>1. /\ cells[a] \in Cells /\ Len(cells[a]) \in Nat /\ DOMAIN cells[a] = 1 .. Len(cells[a])
      /\ size[a] \in Nat /\ size[a] <= MaxSize /\ size[a] <= Len(cells[a]) /\ Len(cells[a]) <= Cap
      /\ Nothing \notin Thing /\ MaxSize \in Nat /\ n \in Nat /\ n <= MaxSize /\ ArraysShape
  BY UnrealArrayAssumption DEF ArraysInv, ArraysShape, Cells
<1>2. \A memory, x : At(memory, {}, x) = {} /\ Cardinality(At(memory, {}, x)) = 0
  BY FS_EmptySet DEF At
<1>3. \A x \in Thing : strong[x] \in Int
  BY <1>1 DEF ArraysShape
\* What is given up by the entries at `is`, and nothing taken.
<1>4. ASSUME NEW is \in SUBSET (1 .. Len(cells[a])), strong' = Counted(Part(cells[a], is), <<>>)
      PROVE  /\ strong' \in [Thing -> Int]
             /\ \A memory : \A x \in Thing : strong'[x] >=
                   strong[x] - Cardinality(At(cells[a], is, x)) + Cardinality(At(memory, {}, x))
  <2> DEFINE dropped == Part(cells[a], is)
  <2>1. \A x \in Thing : /\ Count(dropped, x) = Cardinality(At(cells[a], is, x))
                         /\ Count(dropped, x) \in Nat /\ Count(<<>>, x) = 0
    <3>1. \A x : Count(dropped, x) = Cardinality(At(cells[a], is, x)) /\ Count(<<>>, x) = 0
      BY CountsOfFew
    <3>2. \A x : Cardinality(At(cells[a], is, x)) \in Nat
      BY <1>1, AtIsFinite
    <3> QED
      BY <3>1, <3>2
  <2> HIDE DEF dropped
  <2>2. /\ Counted(dropped, <<>>) \in [Thing -> Int]
        /\ \A x \in Thing :
              Counted(dropped, <<>>)[x] = strong[x] - Count(dropped, x) + Count(<<>>, x)
    BY <1>1, <2>1, CountedFacts
  <2>3. strong' = Counted(dropped, <<>>)
    BY <1>4 DEF dropped
  <2> QED
    BY <1>2, <1>3, <2>1, <2>2, <2>3
<1>5. CASE Resize(a, n)
  <2> DEFINE is == n + 1 .. size[a]
             left == Destroyed(a, is)
             wide == Resized(left, n)
             memory == [i \in DOMAIN wide |-> IF i \in size[a] + 1 .. n THEN Nothing ELSE wide[i]]
  <2>1. /\ size' = [size EXCEPT ![a] = n] /\ cells' = [cells EXCEPT ![a] = memory]
        /\ strong' = Counted(Part(cells[a], is), <<>>) /\ UNCHANGED <<inner, handle>>
    BY <1>5 DEF Resize
  <2>2. is \in SUBSET (1 .. Len(cells[a]))
    BY <1>1
  <2>3. left = [i \in 1 .. Len(cells[a]) |-> IF i \in is THEN Nothing ELSE cells[a][i]]
    BY <1>1 DEF Destroyed
  <2> HIDE DEF is
  <2>4. left \in Cells /\ Len(left) = Len(cells[a])
    <3>1. \A i \in 1 .. Len(cells[a]) :
             (IF i \in is THEN Nothing ELSE cells[a][i]) \in Thing \union {Nothing}
      BY <1>1 DEF Cells
    <3> QED
      BY <1>1, <2>3, <3>1 DEF Cells
  <2>5. \A i \in 1 .. Len(left) : left[i] # Nothing =>
           i \in 1 .. Len(cells[a]) /\ i \notin is /\ left[i] = cells[a][i]
    BY <2>3, <2>4
  <2> HIDE DEF left
  <2>6. /\ wide \in Cells /\ n <= Len(wide) /\ Len(wide) <= Cap
        /\ \A i \in 1 .. Len(wide) : wide[i] # Nothing => i \in 1 .. Len(left) /\ wide[i] = left[i]
    BY <1>1, <2>4, ResizedFacts
  <2> HIDE DEF wide
  <2>7. Len(wide) \in Nat /\ DOMAIN wide = 1 .. Len(wide)
    BY <2>6 DEF Cells
  <2>8. memory \in Cells /\ Len(memory) = Len(wide)
    <3>1. \A i \in 1 .. Len(wide) :
             (IF i \in size[a] + 1 .. n THEN Nothing ELSE wide[i]) \in Thing \union {Nothing}
      BY <2>6, <2>7 DEF Cells
    <3> QED
      BY <2>7, <3>1 DEF Cells
  <2>9. \A i \in 1 .. Len(memory) : i \notin {} /\ memory[i] # Nothing =>
           i \in 1 .. Len(cells[a]) /\ i \notin is /\ memory[i] = cells[a][i]
    <3>1. \A i \in 1 .. Len(wide) : memory[i] # Nothing => wide[i] # Nothing /\ memory[i] = wide[i]
      BY <2>7
    <3> QED
      BY <2>5, <2>6, <2>8, <3>1
  <2> HIDE DEF memory
  <2>10. /\ strong' \in [Thing -> Int]
         /\ \A x \in Thing : strong'[x] >=
               strong[x] - Cardinality(At(cells[a], is, x)) + Cardinality(At(memory, {}, x))
    BY <1>4, <2>1, <2>2
  <2> QED
    BY <1>1, <2>1, <2>2, <2>6, <2>8, <2>9, <2>10, ArrayStep
<1>6. CASE n > 0 /\ Reserve(a, n)
  <2> DEFINE memory == Reserved(cells[a], n)
  <2>1. /\ size' = [size EXCEPT ![a] = size[a]] /\ cells' = [cells EXCEPT ![a] = memory]
        /\ size[a] <= n /\ strong' = strong /\ UNCHANGED <<inner, handle>>
    BY <1>1, <1>6 DEF Reserve, ArraysShape
  <2>2. memory = [i \in 1 .. n |-> IF i <= Len(cells[a]) THEN cells[a][i] ELSE Nothing]
    BY DEF Reserved
  <2>3. memory \in Cells /\ Len(memory) = n
    <3>1. \A i \in 1 .. n :
             (IF i <= Len(cells[a]) THEN cells[a][i] ELSE Nothing) \in Thing \union {Nothing}
      BY <1>1 DEF Cells
    <3> QED
      BY <1>1, <2>2, <3>1 DEF Cells
  <2>4. \A i \in 1 .. Len(memory) : i \notin {} /\ memory[i] # Nothing =>
           i \in 1 .. Len(cells[a]) /\ i \notin {} /\ memory[i] = cells[a][i]
    BY <1>1, <2>2, <2>3
  <2> HIDE DEF memory
  <2>5. /\ strong' \in [Thing -> Int]
        /\ \A x \in Thing : strong'[x] >=
              strong[x] - Cardinality(At(cells[a], {}, x)) + Cardinality(At(memory, {}, x))
    BY <1>1, <1>2, <1>3, <2>1 DEF ArraysShape
  <2>6. size[a] \in 0 .. MaxSize /\ size[a] <= Len(memory) /\ Len(memory) <= Cap
    BY <1>1, <2>1, <2>3, CapIsNat
  <2> QED
    BY <2>1, <2>3, <2>4, <2>5, <2>6, ArrayStep
<1>7. CASE DestroyArray(a)
  <2> DEFINE is == 1 .. size[a]
  <2>1. /\ size' = [size EXCEPT ![a] = 0] /\ cells' = [cells EXCEPT ![a] = <<>>]
        /\ strong' = Counted(Part(cells[a], is), <<>>) /\ UNCHANGED <<inner, handle>>
    BY <1>7 DEF DestroyArray, InUse
  <2>2. is \in SUBSET (1 .. Len(cells[a]))
    BY <1>1
  <2> HIDE DEF is
  <2> DEFINE memory == <<>>
  <2>3. /\ memory \in Cells /\ Len(memory) = 0 /\ Len(memory) <= Cap /\ 0 \in 0 .. MaxSize
        /\ 0 <= Len(memory) /\ cells' = [cells EXCEPT ![a] = memory]
    BY <1>1, <2>1, CapIsNat DEF Cells
  <2> HIDE DEF memory
  <2>4. \A i \in 1 .. Len(memory) : FALSE
    BY <2>3
  <2>5. /\ strong' \in [Thing -> Int]
        /\ \A x \in Thing : strong'[x] >=
              strong[x] - Cardinality(At(cells[a], is, x)) + Cardinality(At(memory, {}, x))
    BY <1>4, <2>1, <2>2
  <2> QED
    BY <2>1, <2>2, <2>3, <2>4, <2>5, ArrayStep
<1> QED
  BY <1>5, <1>6, <1>7

(***************************************************************************)
(* Setting an array from another: the entries that are set give up what    *)
(* they had, also what was left in them past the array's size, and take a  *)
(* reference each.                                                         *)
(***************************************************************************)
LEMMA SetArrayKeeps ==
  ASSUME ArraysInv, NEW a \in Array, NEW s \in Array, NEW done \in 0 .. MaxSize,
         SetArray(a, s, done)
  PROVE  ArraysInv'
<1> DEFINE n == size[s]
           wide == Resized(cells[a], n)
           js == 1 .. done
           is == js \cap 1 .. Len(cells[a])
<1>1. /\ cells[a] \in Cells /\ Len(cells[a]) \in Nat /\ Len(cells[a]) <= Cap
      /\ cells[s] \in Cells /\ n \in 0 .. MaxSize /\ n <= Len(cells[s]) /\ Len(cells[s]) \in Nat
      /\ Nothing \notin Thing /\ done \in Nat /\ MaxSize \in Nat /\ ArraysShape
  BY UnrealArrayAssumption DEF ArraysInv, ArraysShape, Cells
<1>2. PICK value \in Values(s, done) :
        /\ size' = [size EXCEPT ![a] = n]
        /\ cells' = [cells EXCEPT ![a] =
                        [i \in DOMAIN wide |-> IF i \in 1 .. done THEN value[i] ELSE wide[i]]]
        /\ strong' = Counted(IF inner = "str" THEN <<>> ELSE Part(wide, 1 .. done), value)
  BY DEF SetArray
<1>3. done <= n /\ UNCHANGED <<inner, handle>>
  BY DEF SetArray
<1>4. value \in [1 .. done -> Thing \union {Nothing}]
  <2>1. CASE inner = "inline"
    <3>1. value = [i \in 1 .. done |-> cells[s][i]]
      BY <1>2, <2>1 DEF Values, Part
    <3>2. \A i \in 1 .. done : cells[s][i] \in Thing \union {Nothing}
      BY <1>1, <1>3 DEF Cells
    <3> QED
      BY <3>1, <3>2
  <2>2. CASE inner # "inline"
    BY <1>2, <2>2 DEF Values
  <2> QED
    BY <2>1, <2>2
<1>5. /\ wide \in Cells /\ n <= Len(wide) /\ Len(wide) <= Cap
      /\ \A i \in 1 .. Len(wide) : wide[i] # Nothing =>
            i \in 1 .. Len(cells[a]) /\ wide[i] = cells[a][i]
  <2> HIDE DEF n
  <2> QED
    BY <1>1, ResizedFacts
<1> HIDE DEF wide, n
<1>6. Len(wide) \in Nat /\ DOMAIN wide = 1 .. Len(wide) /\ done <= Len(wide)
  BY <1>1, <1>3, <1>5 DEF Cells
<1> DEFINE memory == [i \in DOMAIN wide |-> IF i \in 1 .. done THEN value[i] ELSE wide[i]]
<1>7. memory \in Cells /\ Len(memory) = Len(wide)
  <2>1. \A i \in 1 .. Len(wide) :
           (IF i \in 1 .. done THEN value[i] ELSE wide[i]) \in Thing \union {Nothing}
    BY <1>4, <1>5, <1>6 DEF Cells
  <2> QED
    BY <1>6, <2>1 DEF Cells
<1>8. js \in SUBSET (1 .. Len(memory)) /\ is \in SUBSET (1 .. Len(cells[a])) /\ is \subseteq js
  BY <1>6, <1>7
<1>9. \A i \in 1 .. Len(memory) : i \notin js /\ memory[i] # Nothing =>
         i \in 1 .. Len(cells[a]) /\ i \notin is /\ memory[i] = cells[a][i]
  BY <1>5, <1>6, <1>7
<1>10. ASSUME NEW x \in Thing
       PROVE  /\ Count(value, x) \in Nat /\ Count(value, x) = Cardinality(At(memory, js, x))
              /\ Count(Part(wide, js), x) \in Nat /\ Cardinality(At(cells[a], is, x)) \in Nat
              /\ Count(Part(wide, js), x) <= Cardinality(At(cells[a], is, x))
  <2>1. {i \in DOMAIN value : value[i] = x} = At(memory, js, x)
    BY <1>4, <1>6 DEF At
  <2>2. Cardinality(At(memory, js, x)) \in Nat
    <3> HIDE DEF memory, js
    <3> QED
      BY <1>6, <1>7, <1>8, AtIsFinite
  <2>3. /\ IsFiniteSet(At(cells[a], is, x)) /\ Cardinality(At(cells[a], is, x)) \in Nat
    <3> HIDE DEF is
    <3> QED
      BY <1>1, <1>8, AtIsFinite
  <2>4. Count(Part(wide, js), x) = Cardinality(At(wide, js, x))
    BY CountsOfFew
  <2>5. At(wide, js, x) \in SUBSET At(cells[a], is, x)
    BY <1>1, <1>5, <1>6 DEF At
  <2> HIDE DEF js, is, memory
  <2>6. /\ Cardinality(At(wide, js, x)) \in Nat
        /\ Cardinality(At(wide, js, x)) <= Cardinality(At(cells[a], is, x))
    BY <2>3, <2>5, FS_Subset, FS_CardinalityType
  <2> QED
    BY <2>1, <2>2, <2>3, <2>4, <2>6 DEF Count
<1>11. cells' = [cells EXCEPT ![a] = memory]
  BY <1>2
<1>12. strong' = Counted(<<>>, value) \/ strong' = Counted(Part(wide, js), value)
  BY <1>2
<1> HIDE DEF memory, is, js
<1>13. \A x \in Thing : strong[x] \in Int
  BY <1>1 DEF ArraysShape
<1>14. /\ strong' \in [Thing -> Int]
       /\ \A x \in Thing :
             \/ strong'[x] = strong[x] - 0 + Count(value, x)
             \/ strong'[x] = strong[x] - Count(Part(wide, js), x) + Count(value, x)
  <2>1. CASE strong' = Counted(<<>>, value)
    <3>1. \A x : Count(<<>>, x) = 0
      BY CountsOfFew
    <3> QED
      BY <1>1, <1>10, <2>1, <3>1, CountedFacts
  <2>2. CASE strong' = Counted(Part(wide, js), value)
    BY <1>1, <1>10, <2>2, CountedFacts
  <2> QED
    BY <1>12, <2>1, <2>2
<1>15. ASSUME NEW x \in Thing
       PROVE  strong'[x] >=
                 strong[x] - Cardinality(At(cells[a], is, x)) + Cardinality(At(memory, js, x))
  BY <1>10, <1>13, <1>14
<1>16. n <= Len(memory) /\ Len(memory) <= Cap
  BY <1>5, <1>7
<1> QED
  BY <1>1, <1>2, <1>3, <1>7, <1>8, <1>9, <1>11, <1>14, <1>15, <1>16, ArrayStep

(***************************************************************************)
(* At first each array has at most one entry, and its reference.           *)
(***************************************************************************)
LEMMA ArraysStart == ArraysInit => ArraysInv
<1> SUFFICES ASSUME ArraysInit PROVE ArraysInv
  OBVIOUS
<1>1. PICK entry \in [Array -> Thing \union {Nothing}] :
        /\ cells = [a \in Array |-> IF entry[a] = Nothing THEN <<>> ELSE <<entry[a]>>]
        /\ size = [a \in Array |-> Len(cells[a])]
        /\ strong = [x \in Thing |-> Cardinality({a \in Array : entry[a] = x})]
  BY DEF ArraysInit
<1>2. inner \in {"str", "inline"} /\ handle = [h \in Handle |-> Nothing] /\ Nothing \notin Thing
  BY UnrealArrayAssumption DEF ArraysInit
<1>3. \A x : /\ IsFiniteSet({a \in Array : entry[a] = x})
             /\ Cardinality({a \in Array : entry[a] = x}) \in Nat
  <2>1. \A x : {a \in Array : entry[a] = x} \in SUBSET Array
    OBVIOUS
  <2> QED
    BY <2>1, FS_Subset, FS_CardinalityType, UnrealArrayAssumption
<1>4. \A a \in Array :
         /\ cells[a] = IF entry[a] = Nothing THEN <<>> ELSE <<entry[a]>>
         /\ size[a] = Len(cells[a])
  BY <1>1
<1>5. ASSUME NEW a \in Array
      PROVE  cells[a] \in Cells /\ Len(cells[a]) \in {0, 1}
  <2>1. CASE entry[a] = Nothing
    <3>1. cells[a] = <<>>
      BY <1>4, <2>1
    <3> QED
      BY <3>1 DEF Cells
  <2>2. CASE entry[a] # Nothing
    <3>1. cells[a] = <<entry[a]>> /\ entry[a] \in Thing \union {Nothing}
      BY <1>4, <2>2
    <3> QED
      BY <3>1 DEF Cells
  <2> QED
    BY <2>1, <2>2
<1>6. ArraysShape
  <2>1. 1 <= Cap /\ 0 <= Cap /\ 1 <= MaxSize /\ 0 <= MaxSize
    BY CapIsNat, UnrealArrayAssumption
  <2>2. cells \in [Array -> Cells]
    BY <1>1, <1>5
  <2>3. \A a \in Array : size[a] \in {0, 1} /\ size[a] = Len(cells[a])
    BY <1>4, <1>5
  <2>4. size \in [Array -> Nat]
    BY <1>1, <2>3
  <2>5. strong \in [Thing -> Int]
    <3> DEFINE Of(x) == Cardinality({a \in Array : entry[a] = x})
    <3>1. strong = [x \in Thing |-> Of(x)] /\ \A x : Of(x) \in Nat
      BY <1>1, <1>3
    <3> HIDE DEF Of
    <3> QED
      BY <3>1
  <2> QED
    BY <1>2, <2>1, <2>2, <2>3, <2>4, <2>5 DEF ArraysShape
<1>7. ASSUME NEW x \in Thing
      PROVE  Cardinality(Entries(x)) + Cardinality(Holders(x)) <= strong[x]
  <2> DEFINE S == {a \in Array : entry[a] = x}
  <2>1. Entries(x) \subseteq S \X {1}
    <3> SUFFICES ASSUME NEW p \in Entries(x) PROVE p \in S \X {1}
      OBVIOUS
    <3>1. /\ p \in Array \X (1 .. Cap) /\ p = <<p[1], p[2]>> /\ p[1] \in Array
          /\ p[2] \in DOMAIN cells[p[1]] /\ cells[p[1]][p[2]] = x
      BY DEF Entries, Cap
    <3>2. CASE entry[p[1]] = Nothing
      <4>1. cells[p[1]] = <<>>
        BY <1>4, <3>1, <3>2
      <4> QED
        BY <3>1, <4>1
    <3>3. CASE entry[p[1]] # Nothing
      <4>1. cells[p[1]] = <<entry[p[1]]>>
        BY <1>4, <3>1, <3>3
      <4>2. p[2] = 1 /\ entry[p[1]] = x
        BY <3>1, <4>1
      <4> QED
        BY <3>1, <4>2
    <3> QED
      BY <3>2, <3>3
  <2>2. IsFiniteSet(S) /\ Cardinality(S) \in Nat /\ strong[x] = Cardinality(S)
    BY <1>1, <1>3
  <2>3. IsFiniteSet(S \X {1}) /\ Cardinality(S \X {1}) = Cardinality(S)
    <3>1. IsFiniteSet({1}) /\ Cardinality({1}) = 1
      BY FS_Singleton
    <3> HIDE DEF S
    <3>2. /\ IsFiniteSet(S \X {1})
          /\ Cardinality(S \X {1}) = Cardinality(S) * Cardinality({1})
      BY <2>2, <3>1, FS_Product
    <3> QED
      BY <2>2, <3>1, <3>2
  <2>4. Cardinality(Entries(x)) <= Cardinality(S)
    BY <2>1, <2>3, FS_Subset
  <2>5. Holders(x) = {}
    BY <1>2 DEF Holders
  <2>6. Cardinality(Holders(x)) = 0
    BY <2>5, FS_EmptySet
  <2>7. Cardinality(Entries(x)) \in Nat
    BY PlacesAreFinite
  <2> QED
    BY <2>2, <2>4, <2>6, <2>7
<1>8. EntriesHaveReferences
  BY <1>7 DEF EntriesHaveReferences, Holders
<1> QED
  BY <1>6, <1>8 DEF ArraysInv

LEMMA ArraysStep == ArraysInv /\ [ArraysNext]_arrayVars => ArraysInv'
<1> SUFFICES ASSUME ArraysInv, [ArraysNext]_arrayVars PROVE ArraysInv'
  OBVIOUS
<1>1. ASSUME \/ \E a \in Array, i \in 1 .. MaxSize, h \in Handle : Get(a, i, h)
             \/ \E h, g \in Handle, x \in Thing : CopyOf(h, g, x)
             \/ \E h \in Handle : DropHandle(h)
      PROVE  ArraysInv'
  BY <1>1, HandlesKeep
<1>2. ASSUME NEW a \in Array, NEW i \in 1 .. MaxSize, NEW x \in Thing \union {Nothing},
             SetInline(a, i, x) \/ SetString(a, i, x) \/ DestroyAt(a, i)
      PROVE  ArraysInv'
  BY <1>2, EntriesKeep
<1>3. ASSUME NEW a \in Array, NEW n \in 0 .. MaxSize,
             Resize(a, n) \/ (n > 0 /\ Reserve(a, n)) \/ DestroyArray(a)
      PROVE  ArraysInv'
  BY <1>3, ResizesKeep
<1>4. ASSUME NEW a \in Array, NEW s \in Array, NEW done \in 0 .. MaxSize, SetArray(a, s, done)
      PROVE  ArraysInv'
  BY <1>4, SetArrayKeeps
<1>5. CASE UNCHANGED arrayVars
  BY <1>5 DEF arrayVars, ArraysInv, ArraysShape, EntriesHaveReferences, Entries
<1>6. 0 \in 0 .. MaxSize /\ Nothing \in Thing \union {Nothing}
  BY UnrealArrayAssumption
<1>7. CASE ArraysNext
  BY <1>1, <1>2, <1>3, <1>4, <1>6, <1>7 DEF ArraysNext
<1> QED
  BY <1>5, <1>7

\* The inductive invariant of the arrays: what the sizes and the allocations are, and that there
\* are references enough (WrappedArray::resize, PropTraits<ZArrayProperty>::set).
THEOREM ArraysInvariance == ArraysSpec => []ArraysInv
<1>1. ArraysInit => ArraysInv
  BY ArraysStart
<1>2. ArraysInv /\ [ArraysNext]_arrayVars => ArraysInv'
  BY ArraysStep
<1> QED
  BY <1>1, <1>2, PTL DEF ArraysSpec

\* Whatever the sequence of calls, each entry of an array and each value handed out has a
\* reference to what it points to (PropTraits<ZGbxInlineStructProperty>, UnmanagedFString).
THEOREM EntriesAreReferenced == ArraysSpec => []EntriesHaveReferences
<1>1. ArraysInv => EntriesHaveReferences
  BY DEF ArraysInv
<1> QED
  BY <1>1, ArraysInvariance, PTL

-----------------------------------------------------------------------------

(***************************************************************************)
(* WeakPointers: a weak pointer finds its object while that is alive, and  *)
(* no other one.  A number taken from the master is nobody else's until it *)
(* is swapped in, and an object's number never changes (NumbersAreFresh),  *)
(* so a pointer that holds a living object's number was set to it.         *)
(***************************************************************************)
USE DEF Index

Busy(t) == setter[t].at # "idle"

HasNumber(t) == setter[t].at = "swaps"

(***************************************************************************)
(* Who is assigning a pointer does so alone; its object stays.             *)
(***************************************************************************)
AssignsLivingObject ==
    \A t \in Setter : Busy(t) =>
        /\ native /\ setter[t].w \in Weak /\ Alive(setter[t].index)
        /\ weak[setter[t].w].index = setter[t].index
        /\ of[setter[t].w] = objects[setter[t].index].life
        /\ \A u \in Setter : setter[u].w = setter[t].w => u = t

IdleHasNoPointer == \A t \in Setter : ~Busy(t) => setter[t].w = NoWeak

\* Lives are given once.
LivesAreUnique ==
    /\ \A i \in Index : Alive(i) => objects[i].life \in 1 .. lives
    /\ \A i, j \in Index : Alive(i) /\ Alive(j) /\ objects[i].life = objects[j].life => i = j
    /\ \A w \in Weak : of[w] \in 0 .. lives

(***************************************************************************)
(* A number that a thread has taken, and may have to throw away, is nobody *)
(* else's: no object has it and no pointer.                                *)
(***************************************************************************)
NumbersAreFresh ==
    /\ \A i \in Index : objects[i].serial \in 0 .. master
    /\ \A w \in Weak : weak[w].serial \in 0 .. master
    /\ \A t \in Setter : HasNumber(t) =>
        /\ setter[t].serial \in 1 .. master
        /\ \A i \in Index : objects[i].serial # setter[t].serial
        /\ \A w \in Weak : weak[w].serial # setter[t].serial
        /\ \A u \in Setter : HasNumber(u) /\ setter[u].serial = setter[t].serial => u = t

\* What a pointer that nobody is assigning holds: its object's number, or none of a living object.
HoldsObject(w, i) ==
    IF native
    THEN weak[w].index = i /\ weak[w].serial # 0 /\ weak[w].serial = objects[i].serial
    ELSE weak[w].index = i /\ weak[w].object = objects[i].object /\ weak[w].looks = objects[i].looks

HoldsItsOwn(w, i) ==
    /\ objects[i].life = of[w] => HoldsObject(w, i)
    /\ native /\ HoldsObject(w, i) => objects[i].life = of[w]

Holding ==
    \A w \in Weak, i \in Index : Unused(w) /\ Alive(i) => HoldsItsOwn(w, i)

EmulatedHoldsAddress == ~native => \A w \in Weak : weak[w].object # Null => of[w] # 0

IInv ==
    /\ WeakTypeOK
    /\ AssignsLivingObject
    /\ IdleHasNoPointer
    /\ LivesAreUnique
    /\ NumbersAreFresh
    /\ Holding
    /\ EmulatedHoldsAddress

-----------------------------------------------------------------------------

\* Entries without an object, and null pointers, are what they have to be.
LEMMA EmptyType == EmptyEntry \in Entry /\ NullWeak \in Stored
<1>1. SomeLooks \in Looks
    BY WeakPointersAssumption DEF SomeLooks
<1> QED
    BY <1>1 DEF EmptyEntry, Entry, NullWeak, Stored

\* A thread with nothing to do keeps no pointer from the others.
LEMMA OthersUnused ==
    ASSUME IInv, NEW t \in Setter, NEW w \in Weak,
           \A u \in Setter : u # t => setter'[u] = setter[u],
           ~Busy(t) \/ setter[t].w # w, Unused(w)'
    PROVE  Unused(w)
    BY WeakPointersAssumption DEF IInv, IdleHasNoPointer, Unused

\* What nobody touches holds what it did.
LEMMA UntouchedHold ==
    ASSUME Holding, NEW w \in Weak, NEW i \in Index, Unused(w), Alive(i), native' = native,
           objects'[i] = objects[i], weak'[w] = weak[w], of'[w] = of[w]
    PROVE  HoldsItsOwn(w, i)'
    BY DEF Holding, HoldsItsOwn, HoldsObject

\* A new object has a new life and no number.
LEMMA CreateObjectInv ==
    ASSUME IInv, NEW i \in Index, NEW address \in Address, NEW l \in Looks,
           CreateObject(i, address, l)
    PROVE  IInv'
<1>1. WeakTypeOK'
    BY DEF IInv, WeakTypeOK, Entry, CreateObject
<1>2. AssignsLivingObject'
    BY DEF IInv, WeakTypeOK, AssignsLivingObject, Busy, Alive, CreateObject
<1>3. IdleHasNoPointer'
    BY DEF IInv, IdleHasNoPointer, Busy, CreateObject
<1>4. LivesAreUnique'
    BY DEF IInv, WeakTypeOK, LivesAreUnique, Alive, CreateObject
<1>5. NumbersAreFresh'
    BY DEF IInv, WeakTypeOK, NumbersAreFresh, HasNumber, CreateObject
<1>6. Holding'
    <2> SUFFICES ASSUME NEW x \in Weak, NEW j \in Index, Unused(x)', Alive(j)'
                 PROVE  HoldsItsOwn(x, j)'
        BY DEF Holding
    <2>1. CASE j = i
        <3>1. objects'[i].life = lives + 1 /\ objects'[i].serial = 0
            BY DEF CreateObject, IInv, WeakTypeOK
        <3>2. of'[x] \in 0 .. lives
            BY DEF CreateObject, IInv, LivesAreUnique
        <3> QED
            BY <2>1, <3>1, <3>2 DEF HoldsItsOwn, HoldsObject, CreateObject, IInv, WeakTypeOK
    <2>2. CASE j # i
        <3>1. Alive(j) /\ Unused(x)
            BY <2>2 DEF CreateObject, Alive, Unused, IInv, WeakTypeOK
        <3> QED
            BY <2>2, <3>1, UntouchedHold DEF CreateObject, IInv, WeakTypeOK
    <2> QED
        BY <2>1, <2>2
<1>7. EmulatedHoldsAddress'
    BY DEF IInv, EmulatedHoldsAddress, CreateObject
<1> QED
    BY <1>1, <1>2, <1>3, <1>4, <1>5, <1>6, <1>7 DEF IInv

\* Collecting an object disturbs no other, and nobody is assigning it.
LEMMA CollectObjectInv ==
    ASSUME IInv, NEW i \in Index, CollectObject(i)
    PROVE  IInv'
<1>1. WeakTypeOK'
    BY EmptyType DEF IInv, WeakTypeOK, CollectObject
<1>2. AssignsLivingObject'
    BY DEF IInv, AssignsLivingObject, Busy, Alive, CollectObject
<1>3. IdleHasNoPointer'
    BY DEF IInv, IdleHasNoPointer, Busy, CollectObject
<1>4. LivesAreUnique'
    BY DEF IInv, LivesAreUnique, Alive, CollectObject, EmptyEntry
<1>5. NumbersAreFresh'
    BY DEF IInv, WeakTypeOK, NumbersAreFresh, HasNumber, CollectObject, EmptyEntry
<1>6. Holding'
    <2> SUFFICES ASSUME NEW x \in Weak, NEW j \in Index, Unused(x)', Alive(j)'
                 PROVE  HoldsItsOwn(x, j)'
        BY DEF Holding
    <2>1. j # i
        BY DEF CollectObject, Alive, EmptyEntry, IInv, WeakTypeOK
    <2>2. Alive(j) /\ Unused(x)
        BY <2>1 DEF CollectObject, Alive, Unused, IInv, WeakTypeOK
    <2> QED
        BY <2>1, <2>2, UntouchedHold DEF CollectObject, IInv, WeakTypeOK
<1>7. EmulatedHoldsAddress'
    BY DEF IInv, EmulatedHoldsAddress, CollectObject
<1> QED
    BY <1>1, <1>2, <1>3, <1>4, <1>5, <1>6, <1>7 DEF IInv

\* A null pointer holds nothing.
LEMMA SetNullInv ==
    ASSUME IInv, NEW t \in Setter, NEW w \in Weak, SetNull(t, w)
    PROVE  IInv'
<1>1. WeakTypeOK'
    <2>1. weak[w] \in Stored
        BY DEF IInv, WeakTypeOK
    <2>2. [weak[w] EXCEPT !.object = Null] \in Stored
        BY <2>1 DEF Stored
    <2>3. weak' \in [Weak -> Stored]
        BY <2>2, EmptyType DEF IInv, WeakTypeOK, SetNull
    <2> QED
        BY <2>3 DEF IInv, WeakTypeOK, SetNull
<1>2. AssignsLivingObject'
    BY DEF IInv, AssignsLivingObject, Unused, Busy, Alive, SetNull
<1>3. IdleHasNoPointer'
    BY DEF IInv, IdleHasNoPointer, Busy, SetNull
<1>4. LivesAreUnique'
    BY DEF IInv, WeakTypeOK, LivesAreUnique, Alive, SetNull
<1>5. NumbersAreFresh'
    BY DEF IInv, WeakTypeOK, NumbersAreFresh, HasNumber, SetNull, NullWeak
<1>6. Holding'
    <2> SUFFICES ASSUME NEW x \in Weak, NEW j \in Index, Unused(x)', Alive(j)'
                 PROVE  HoldsItsOwn(x, j)'
        BY DEF Holding
    <2>1. Alive(j) /\ Unused(x)
        BY DEF SetNull, Alive, Unused
    <2>2. CASE x = w
        <3>1. of'[x] = 0 /\ objects'[j].life # 0
            BY <2>1, <2>2 DEF SetNull, IInv, WeakTypeOK, LivesAreUnique
        <3>2. native => weak'[x].serial = 0
            BY <2>2 DEF SetNull, IInv, WeakTypeOK, NullWeak
        <3> QED
            BY <3>1, <3>2 DEF HoldsItsOwn, HoldsObject, SetNull
    <2>3. CASE x # w
        BY <2>1, <2>3, UntouchedHold DEF SetNull, IInv, WeakTypeOK
    <2> QED
        BY <2>2, <2>3
<1>7. EmulatedHoldsAddress'
    BY DEF IInv, WeakTypeOK, EmulatedHoldsAddress, SetNull
<1> QED
    BY <1>1, <1>2, <1>3, <1>4, <1>5, <1>6, <1>7 DEF IInv

\* A copy holds what the other pointer does.
LEMMA CopyWeakInv ==
    ASSUME IInv, NEW t \in Setter, NEW w \in Weak, NEW from \in Weak, CopyWeak(t, w, from)
    PROVE  IInv'
<1>1. WeakTypeOK'
    BY DEF IInv, WeakTypeOK, CopyWeak
<1>2. AssignsLivingObject'
    BY DEF IInv, AssignsLivingObject, Unused, Busy, Alive, CopyWeak
<1>3. IdleHasNoPointer'
    BY DEF IInv, IdleHasNoPointer, Busy, CopyWeak
<1>4. LivesAreUnique'
    BY DEF IInv, LivesAreUnique, Alive, CopyWeak
<1>5. NumbersAreFresh'
    BY DEF IInv, NumbersAreFresh, HasNumber, CopyWeak
<1>6. Holding'
    <2> SUFFICES ASSUME NEW x \in Weak, NEW j \in Index, Unused(x)', Alive(j)'
                 PROVE  HoldsItsOwn(x, j)'
        BY DEF Holding
    <2>1. Alive(j) /\ Unused(x) /\ Unused(from)
        BY DEF CopyWeak, Alive, Unused
    <2>2. CASE x = w
        <3>1. weak'[x] = weak[from] /\ of'[x] = of[from] /\ objects' = objects /\ native' = native
            BY <2>2 DEF CopyWeak, IInv, WeakTypeOK
        <3>2. HoldsItsOwn(from, j)
            BY <2>1 DEF IInv, Holding
        <3> QED
            BY <3>1, <3>2 DEF HoldsItsOwn, HoldsObject
    <2>3. CASE x # w
        BY <2>1, <2>3, UntouchedHold DEF CopyWeak, IInv, WeakTypeOK
    <2> QED
        BY <2>2, <2>3
<1>7. EmulatedHoldsAddress'
    BY DEF IInv, WeakTypeOK, EmulatedHoldsAddress, CopyWeak
<1> QED
    BY <1>1, <1>2, <1>3, <1>4, <1>5, <1>6, <1>7 DEF IInv

\* An emulated pointer holds its object at once.
LEMMA SetEmulatedInv ==
    ASSUME IInv, NEW t \in Setter, NEW w \in Weak, NEW i \in Index, SetEmulated(t, w, i)
    PROVE  IInv'
<1>1. WeakTypeOK'
    <2>1. weak[w] \in Stored /\ objects[i] \in Entry
        BY DEF IInv, WeakTypeOK
    <2>0. /\ objects[i].object \in Address \union {Null} /\ objects[i].looks \in Looks
          /\ i \in Nat
        BY <2>1, WeakPointersAssumption DEF Entry
    <2>2. [weak[w] EXCEPT !.index = i, !.object = objects[i].object, !.looks = objects[i].looks]
              \in Stored
        BY <2>0, <2>1 DEF Stored
    <2>3. weak' \in [Weak -> Stored]
        BY <2>2 DEF IInv, WeakTypeOK, SetEmulated
    <2>4. of' \in [Weak -> Nat]
        BY <2>1 DEF IInv, WeakTypeOK, SetEmulated, Entry
    <2> QED
        BY <2>3, <2>4 DEF IInv, WeakTypeOK, SetEmulated
<1>2. AssignsLivingObject'
    BY DEF IInv, AssignsLivingObject, Busy, SetEmulated
<1>3. IdleHasNoPointer'
    BY DEF IInv, IdleHasNoPointer, Busy, SetEmulated
<1>4. LivesAreUnique'
    BY DEF IInv, LivesAreUnique, Alive, SetEmulated
<1>5. NumbersAreFresh'
    BY DEF IInv, NumbersAreFresh, HasNumber, SetEmulated
<1>6. Holding'
    <2> SUFFICES ASSUME NEW x \in Weak, NEW j \in Index, Unused(x)', Alive(j)'
                 PROVE  HoldsItsOwn(x, j)'
        BY DEF Holding
    <2>1. Alive(j) /\ Unused(x)
        BY DEF SetEmulated, Alive, Unused
    <2>2. CASE x = w
        <3>1. /\ weak'[x].index = i /\ weak'[x].object = objects[i].object
              /\ weak'[x].looks = objects[i].looks
            BY <2>2 DEF SetEmulated, IInv, WeakTypeOK, Stored
        <3>2. of'[x] = objects[i].life /\ Alive(i) /\ ~native' /\ objects' = objects
            BY <2>2 DEF SetEmulated, IInv, WeakTypeOK
        <3>3. objects[j].life = of'[x] => j = i
            BY <2>1, <3>2 DEF IInv, LivesAreUnique
        <3> QED
            BY <3>1, <3>2, <3>3 DEF HoldsItsOwn, HoldsObject
    <2>3. CASE x # w
        BY <2>1, <2>3, UntouchedHold DEF SetEmulated, IInv, WeakTypeOK
    <2> QED
        BY <2>2, <2>3
<1>7. EmulatedHoldsAddress'
    BY DEF IInv, WeakTypeOK, EmulatedHoldsAddress, LivesAreUnique, SetEmulated
<1> QED
    BY <1>1, <1>2, <1>3, <1>4, <1>5, <1>6, <1>7 DEF IInv

\* A pointer being assigned is nobody else's.
LEMMA SetNativeInv ==
    ASSUME IInv, NEW t \in Setter, NEW w \in Weak, NEW i \in Index, SetNative(t, w, i)
    PROVE  IInv'
<1>1. WeakTypeOK'
    <2>1. weak[w] \in Stored /\ objects[i] \in Entry
        BY DEF IInv, WeakTypeOK
    <2>2. [weak[w] EXCEPT !.index = i] \in Stored
        BY <2>1, WeakPointersAssumption DEF Stored
    <2>3. weak' \in [Weak -> Stored]
        BY <2>2 DEF IInv, WeakTypeOK, SetNative
    <2>4. of' \in [Weak -> Nat]
        BY <2>1 DEF IInv, WeakTypeOK, SetNative, Entry
    <2>5. setter' \in [Setter -> SetterState]
        BY WeakPointersAssumption DEF IInv, WeakTypeOK, SetNative, SetterState
    <2> QED
        BY <2>3, <2>4, <2>5 DEF IInv, WeakTypeOK, SetNative
<1>2. AssignsLivingObject'
    BY DEF IInv, WeakTypeOK, AssignsLivingObject, Unused, Busy, Alive, SetNative
<1>3. IdleHasNoPointer'
    BY DEF IInv, IdleHasNoPointer, Busy, SetNative
<1>4. LivesAreUnique'
    BY DEF IInv, LivesAreUnique, Alive, SetNative
<1>5. NumbersAreFresh'
    BY DEF IInv, NumbersAreFresh, HasNumber, SetNative
<1>6. Holding'
    <2> SUFFICES ASSUME NEW x \in Weak, NEW j \in Index, Unused(x)', Alive(j)'
                 PROVE  HoldsItsOwn(x, j)'
        BY DEF Holding
    <2>1. x # w
        BY DEF SetNative, Unused, IInv, WeakTypeOK
    <2>2. Alive(j) /\ ~Busy(t) /\ \A u \in Setter : u # t => setter'[u] = setter[u]
        BY DEF SetNative, Alive, Busy, IInv, WeakTypeOK
    <2>3. Unused(x)
        BY <2>2, OthersUnused
    <2> QED
        BY <2>1, <2>2, <2>3, UntouchedHold DEF SetNative, IInv, WeakTypeOK
<1>7. EmulatedHoldsAddress'
    BY DEF EmulatedHoldsAddress, SetNative
<1> QED
    BY <1>1, <1>2, <1>3, <1>4, <1>5, <1>6, <1>7 DEF IInv

\* A thread that is done leaves its pointer with its object's number.
LEMMA FinishType ==
    ASSUME IInv, NEW t \in Setter, NEW serial \in Nat, Busy(t), Finish(t, serial)
    PROVE  /\ weak' \in [Weak -> Stored]
           /\ setter' \in [Setter -> SetterState]
<1>1. setter[t].w \in Weak /\ weak[setter[t].w] \in Stored
    BY DEF IInv, AssignsLivingObject, WeakTypeOK
<1>2. [weak[setter[t].w] EXCEPT !.serial = serial] \in Stored
    BY <1>1 DEF Stored
<1>3. weak' \in [Weak -> Stored]
    BY <1>1, <1>2 DEF Finish, IInv, WeakTypeOK
<1>4. Resting \in SetterState
    BY DEF Resting, SetterState
<1> QED
    BY <1>3, <1>4 DEF Finish, IInv, WeakTypeOK

LEMMA FinishChanges ==
    ASSUME IInv, NEW t \in Setter, NEW serial \in Nat, Busy(t), Finish(t, serial)
    PROVE  /\ setter[t].w \in Weak
           /\ setter'[t] = Resting /\ setter'[t].w = NoWeak
           /\ \A u \in Setter : u # t => setter'[u] = setter[u]
           /\ \A x \in Weak : x # setter[t].w => weak'[x] = weak[x]
           /\ weak'[setter[t].w] = [weak[setter[t].w] EXCEPT !.serial = serial]
           /\ weak'[setter[t].w].serial = serial
           /\ weak'[setter[t].w].index = weak[setter[t].w].index
           /\ weak'[setter[t].w].object = weak[setter[t].w].object
           /\ \A x \in Weak : weak'[x].index = weak[x].index
           /\ \A x \in Weak : weak'[x].serial \in {weak[x].serial, serial}
<1>1. setter[t].w \in Weak /\ weak[setter[t].w] \in Stored
    BY DEF IInv, AssignsLivingObject, WeakTypeOK
<1>2. weak'[setter[t].w] = [weak[setter[t].w] EXCEPT !.serial = serial]
    BY <1>1 DEF Finish, IInv, WeakTypeOK
<1>3. \A x \in Weak : x # setter[t].w => weak'[x] = weak[x]
    BY DEF Finish, IInv, WeakTypeOK
<1>4. setter'[t] = Resting /\ \A u \in Setter : u # t => setter'[u] = setter[u]
    BY DEF Finish, IInv, WeakTypeOK
<1>5. setter'[t].w = NoWeak
    BY <1>4 DEF Resting
<1> QED
    BY <1>1, <1>2, <1>3, <1>4, <1>5 DEF Stored

\* The only pointer that is not as before is the one just assigned.
LEMMA FinishHolds ==
    ASSUME IInv, NEW t \in Setter, NEW serial \in Nat \ {0}, Busy(t), Finish(t, serial),
           NEW x \in Weak, NEW j \in Index, Unused(x)', Alive(j),
           native' = native, of' = of,
           \A i \in Index : objects'[i].life = objects[i].life,
           objects'[setter[t].index].serial = serial,
           \A i \in Index : i # setter[t].index => objects'[i] = objects[i],
           objects[setter[t].index].serial # serial =>
               /\ objects[setter[t].index].serial = 0
               /\ \A w \in Weak : weak[w].serial # serial
    PROVE  HoldsItsOwn(x, j)'
<1> DEFINE w == setter[t].w
           i == setter[t].index
<1>1. native /\ w \in Weak /\ Alive(i) /\ weak[w].index = i /\ of[w] = objects[i].life
    BY DEF IInv, AssignsLivingObject
<1>2. i \in Index
    BY <1>1, WeakPointersAssumption DEF Alive, IInv, WeakTypeOK
<1>3. CASE x = w
    <2>1. weak'[x].index = i /\ weak'[x].serial = serial
        BY <1>1, <1>3, FinishChanges
    <2>2. objects[j].life = of[w] => j = i
        BY <1>1, <1>2 DEF IInv, LivesAreUnique
    <2> QED
        BY <1>1, <1>2, <1>3, <2>1, <2>2 DEF HoldsItsOwn, HoldsObject
<1>4. CASE x # w
    <2>1. weak'[x] = weak[x] /\ \A u \in Setter : u # t => setter'[u] = setter[u]
        BY <1>4, FinishChanges
    <2>2. Unused(x)
        BY <1>4, <2>1, OthersUnused
    <2>3. HoldsItsOwn(x, j)
        BY <2>2 DEF IInv, Holding
    <2>4. CASE j # i
        BY <2>1, <2>2, <2>4, UntouchedHold DEF IInv
    <2>5. CASE j = i
        BY <1>1, <1>2, <2>1, <2>3, <2>5 DEF HoldsItsOwn, HoldsObject
    <2> QED
        BY <2>4, <2>5
<1> QED
    BY <1>3, <1>4

LEMMA FinishOthers ==
    ASSUME IInv, NEW t \in Setter, NEW serial \in Nat, Busy(t), Finish(t, serial)
    PROVE  /\ \A u \in Setter : Busy(u)' => Busy(u) /\ u # t /\ setter'[u] = setter[u]
           /\ \A u \in Setter : HasNumber(u)' => HasNumber(u) /\ u # t /\ setter'[u] = setter[u]
           /\ IdleHasNoPointer'
<1>1. setter'[t] = Resting /\ \A u \in Setter : u # t => setter'[u] = setter[u]
    BY FinishChanges
<1>2. setter'[t].at = "idle" /\ setter'[t].w = NoWeak
    BY <1>1 DEF Resting
<1>3. \A u \in Setter : Busy(u)' => Busy(u) /\ u # t /\ setter'[u] = setter[u]
    BY <1>1, <1>2 DEF Busy
<1>4. \A u \in Setter : HasNumber(u)' => HasNumber(u) /\ u # t /\ setter'[u] = setter[u]
    BY <1>1, <1>2 DEF HasNumber
<1>5. IdleHasNoPointer'
    BY <1>1, <1>2 DEF IdleHasNoPointer, Busy, IInv
<1> QED
    BY <1>3, <1>4, <1>5

\* An object that has a number gives it to the pointer.
LEMMA LoadSerialInv ==
    ASSUME IInv, NEW t \in Setter, LoadSerial(t)
    PROVE  IInv'
<1> DEFINE serial == objects[setter[t].index].serial
<1>0. /\ Busy(t) /\ setter[t].index \in Index /\ serial \in Nat
    BY WeakPointersAssumption
       DEF LoadSerial, Busy, IInv, AssignsLivingObject, Alive, WeakTypeOK, Entry
<1>1. CASE serial = 0
    <2>0. /\ \A u \in Setter : setter'[u].w = setter[u].w /\ setter'[u].index = setter[u].index
          /\ \A u \in Setter : Busy(u)' <=> Busy(u)
          /\ \A u \in Setter : HasNumber(u)' <=> HasNumber(u)
          /\ \A u \in Setter : HasNumber(u) => setter'[u] = setter[u]
          /\ UNCHANGED <<native, objects, count, master, weak, lives, of>>
        <3>1. /\ setter' = [setter EXCEPT ![t].at = "increments"]
              /\ UNCHANGED <<native, objects, count, master, weak, lives, of>>
            BY <1>1 DEF LoadSerial
        <3>2. \A u \in Setter : u # t => setter'[u] = setter[u]
            BY <3>1 DEF IInv, WeakTypeOK
        <3>3. /\ setter'[t].w = setter[t].w /\ setter'[t].index = setter[t].index
              /\ setter[t].at = "loads" /\ setter'[t].at = "increments"
            BY <3>1 DEF LoadSerial, IInv, WeakTypeOK, SetterState
        <3> QED
            BY <3>1, <3>2, <3>3 DEF Busy, HasNumber
    <2>1. WeakTypeOK'
        <3>1. setter[t] \in SetterState
            BY DEF IInv, WeakTypeOK
        <3>2. [setter[t] EXCEPT !.at = "increments"] \in SetterState
            BY <3>1 DEF SetterState
        <3>3. setter' \in [Setter -> SetterState]
            BY <1>1, <3>2 DEF LoadSerial, IInv, WeakTypeOK
        <3> QED
            BY <2>0, <3>3 DEF IInv, WeakTypeOK
    <2>2. AssignsLivingObject'
        BY <2>0 DEF IInv, AssignsLivingObject, Alive
    <2>3. IdleHasNoPointer'
        BY <2>0 DEF IInv, IdleHasNoPointer
    <2>4. LivesAreUnique'
        BY <2>0 DEF IInv, LivesAreUnique, Alive
    <2>5. NumbersAreFresh'
        BY <2>0 DEF IInv, NumbersAreFresh
    <2>6. Holding'
        BY <2>0 DEF IInv, Holding, HoldsItsOwn, HoldsObject, Unused, Alive
    <2>7. EmulatedHoldsAddress'
        BY <2>0 DEF IInv, EmulatedHoldsAddress
    <2> QED
        BY <2>1, <2>2, <2>3, <2>4, <2>5, <2>6, <2>7 DEF IInv
<1>2. CASE serial # 0
    <2>0. Finish(t, serial) /\ UNCHANGED <<native, objects, count, master, lives, of>>
        BY <1>2 DEF LoadSerial
    <2>1. WeakTypeOK'
        BY <1>0, <2>0, FinishType DEF IInv, WeakTypeOK
    <2>2. AssignsLivingObject'
        <3>1. /\ \A u \in Setter : Busy(u)' => Busy(u) /\ u # t /\ setter'[u] = setter[u]
              /\ \A u \in Setter : u # t => setter'[u] = setter[u]
              /\ setter'[t].w = NoWeak
              /\ \A x \in Weak : weak'[x].index = weak[x].index
            BY <1>0, <2>0, FinishChanges, FinishOthers
        <3> QED
            BY <2>0, <3>1, WeakPointersAssumption DEF IInv, AssignsLivingObject, Alive
    <2>3. IdleHasNoPointer'
        BY <1>0, <2>0, FinishOthers
    <2>4. LivesAreUnique'
        BY <2>0 DEF IInv, LivesAreUnique, Alive
    <2>5. NumbersAreFresh'
        <3>1. \A w \in Weak : weak'[w].serial \in {weak[w].serial, serial}
            BY <1>0, <2>0, FinishChanges
        <3> QED
            BY <1>0, <2>0, <3>1, FinishOthers DEF IInv, NumbersAreFresh
    <2>6. Holding'
        <3> SUFFICES ASSUME NEW x \in Weak, NEW j \in Index, Unused(x)', Alive(j)'
                     PROVE  HoldsItsOwn(x, j)'
            BY DEF Holding
        <3>1. Alive(j)
            BY <2>0 DEF Alive
        <3> QED
            BY <1>0, <1>2, <2>0, <3>1, FinishHolds
    <2>7. EmulatedHoldsAddress'
        BY <1>0, <2>0 DEF IInv, EmulatedHoldsAddress, AssignsLivingObject
    <2> QED
        BY <2>1, <2>2, <2>3, <2>4, <2>5, <2>6, <2>7 DEF IInv
<1> QED
    BY <1>1, <1>2

\* A number taken is above all others.
LEMMA IncrementMasterInv ==
    ASSUME IInv, NEW t \in Setter, IncrementMaster(t)
    PROVE  IInv'
<1>1. WeakTypeOK'
    <2>1. setter[t] \in SetterState /\ master + 1 \in Nat
        BY DEF IInv, WeakTypeOK
    <2>2. [[setter[t] EXCEPT !.at = "swaps"] EXCEPT !.serial = master + 1] \in SetterState
        BY <2>1 DEF SetterState
    <2>3. setter' \in [Setter -> SetterState]
        BY <2>2 DEF IInv, WeakTypeOK, IncrementMaster
    <2> QED
        BY <2>1, <2>3 DEF IInv, WeakTypeOK, IncrementMaster
<1>2. AssignsLivingObject'
    BY DEF IInv, WeakTypeOK, AssignsLivingObject, Busy, Alive, IncrementMaster
<1>3. IdleHasNoPointer'
    BY DEF IInv, WeakTypeOK, IdleHasNoPointer, Busy, IncrementMaster
<1>4. LivesAreUnique'
    BY DEF IInv, LivesAreUnique, Alive, IncrementMaster
<1>5. NumbersAreFresh'
    BY DEF IInv, WeakTypeOK, NumbersAreFresh, HasNumber, IncrementMaster
<1>6. Holding'
    <2> SUFFICES ASSUME NEW x \in Weak, NEW j \in Index, Unused(x)', Alive(j)'
                 PROVE  HoldsItsOwn(x, j)'
        BY DEF Holding
    <2>1. Alive(j) /\ Unused(x)
        BY DEF IncrementMaster, Alive, Unused, IInv, WeakTypeOK, SetterState
    <2> QED
        BY <2>1, UntouchedHold DEF IncrementMaster, IInv
<1>7. EmulatedHoldsAddress'
    BY DEF IInv, EmulatedHoldsAddress, IncrementMaster
<1> QED
    BY <1>1, <1>2, <1>3, <1>4, <1>5, <1>6, <1>7 DEF IInv

\* The first number swapped in is the object's, and every pointer gets that.
LEMMA SwapInSerialInv ==
    ASSUME IInv, NEW t \in Setter, SwapInSerial(t)
    PROVE  IInv'
<1> DEFINE i == setter[t].index
           serial == IF objects[i].serial = 0 THEN setter[t].serial ELSE objects[i].serial
<1>1. /\ Busy(t) /\ HasNumber(t) /\ i \in Index /\ serial \in Nat \ {0}
      /\ setter[t].serial \in Nat
    BY WeakPointersAssumption
       DEF SwapInSerial, Busy, HasNumber, IInv, AssignsLivingObject, Alive, WeakTypeOK, Entry,
           NumbersAreFresh
<1>2. /\ Finish(t, serial) /\ UNCHANGED <<native, count, master, lives, of>>
      /\ objects' = [objects EXCEPT ![i].serial = serial]
    BY DEF SwapInSerial
<1>3. /\ \A j \in Index : /\ objects'[j].life = objects[j].life
                          /\ objects'[j].object = objects[j].object
                          /\ objects'[j].looks = objects[j].looks
      /\ \A j \in Index : j # i => objects'[j] = objects[j]
      /\ objects'[i].serial = serial /\ objects' \in [Index -> Entry]
    <2>1. objects[i] \in Entry
        BY <1>1 DEF IInv, WeakTypeOK
    <2>2. [objects[i] EXCEPT !.serial = serial] \in Entry
        BY <1>1, <2>1 DEF Entry
    <2>3. objects'[i] = [objects[i] EXCEPT !.serial = serial]
        BY <1>1, <1>2 DEF IInv, WeakTypeOK
    <2>4. objects' \in [Index -> Entry] /\ \A j \in Index : j # i => objects'[j] = objects[j]
        BY <1>2, <2>2 DEF IInv, WeakTypeOK
    <2> QED
        BY <2>1, <2>3, <2>4 DEF Entry
<1>4. \A j \in Index : Alive(j)' <=> Alive(j)
    BY <1>2, <1>3 DEF Alive
<1>5. objects[i].serial # serial =>
          /\ objects[i].serial = 0 /\ serial = setter[t].serial
          /\ \A w \in Weak : weak[w].serial # serial
    BY <1>1 DEF IInv, NumbersAreFresh
<1>6. WeakTypeOK'
    BY <1>1, <1>2, <1>3, FinishType DEF IInv, WeakTypeOK
<1>7. AssignsLivingObject'
    <2>1. \A u \in Setter : Busy(u) => setter[u].index \in Index
        BY WeakPointersAssumption DEF IInv, AssignsLivingObject, Alive, WeakTypeOK
    <2>2. \A u \in Setter : Busy(u)' =>
              /\ Busy(u) /\ u # t /\ setter'[u] = setter[u]
              /\ setter[u].w \in Weak /\ setter[u].index \in Index
        BY <1>1, <1>2, <2>1, FinishOthers DEF IInv, AssignsLivingObject
    <2>3. /\ \A x \in Weak : weak'[x].index = weak[x].index
          /\ \A u \in Setter : u # t => setter'[u] = setter[u]
          /\ setter'[t].w = NoWeak
        BY <1>1, <1>2, FinishChanges
    <2> SUFFICES ASSUME NEW u \in Setter, Busy(u)'
                 PROVE  /\ native' /\ setter'[u].w \in Weak /\ Alive(setter[u].index)'
                        /\ weak'[setter'[u].w].index = setter'[u].index
                        /\ of'[setter'[u].w] = objects'[setter'[u].index].life
                        /\ \A v \in Setter : setter'[v].w = setter'[u].w => v = u
        BY DEF AssignsLivingObject
    <2>4. /\ Busy(u) /\ setter'[u] = setter[u]
          /\ setter[u].w \in Weak /\ setter[u].index \in Index
        BY <2>2
    <2>5. /\ native /\ Alive(setter[u].index) /\ weak[setter[u].w].index = setter[u].index
          /\ of[setter[u].w] = objects[setter[u].index].life
          /\ \A v \in Setter : setter[v].w = setter[u].w => v = u
        BY <2>4 DEF IInv, AssignsLivingObject
    <2>6. \A v \in Setter : setter'[v].w = setter'[u].w => v = u
        <3>1. setter'[t].w # setter'[u].w
            BY <2>3, <2>4, WeakPointersAssumption
        <3>2. \A v \in Setter \ {t} : setter'[v].w = setter[v].w
            BY <2>3
        <3>3. setter'[u].w = setter[u].w
            BY <2>4
        <3> QED
            BY <2>5, <3>1, <3>2, <3>3
    <2> QED
        BY <1>2, <1>3, <1>4, <2>3, <2>4, <2>5, <2>6, WeakPointersAssumption
<1>8. IdleHasNoPointer'
    BY <1>1, <1>2, FinishOthers
<1>9. LivesAreUnique'
    <2>1. LivesAreUnique /\ lives' = lives /\ of' = of
        BY <1>2 DEF IInv
    <2>2. \A j \in Index : objects'[j].life = objects[j].life
        BY <1>3
    <2> QED
        BY <1>4, <2>1, <2>2 DEF LivesAreUnique
<1>10. NumbersAreFresh'
    <2>1. \A w \in Weak : weak'[w].serial \in {weak[w].serial, serial}
        BY <1>1, <1>2, FinishChanges
    <2>2. \A j \in Index : objects'[j].serial = objects[j].serial \/ objects'[j].serial = serial
        BY <1>3
    <2>3. serial \in 0 .. master
        BY <1>1 DEF IInv, NumbersAreFresh
    <2>4. \A u \in Setter : HasNumber(u)' =>
              HasNumber(u) /\ setter'[u] = setter[u] /\ setter[u].serial # serial
        BY <1>1, <1>2, FinishOthers DEF IInv, NumbersAreFresh
    <2>5. NumbersAreFresh /\ master' = master
        BY <1>2 DEF IInv
    <2> HIDE DEF serial
    <2> QED
        BY <2>1, <2>2, <2>3, <2>4, <2>5 DEF NumbersAreFresh
<1>11. Holding'
    <2> SUFFICES ASSUME NEW x \in Weak, NEW j \in Index, Unused(x)', Alive(j)'
                 PROVE  HoldsItsOwn(x, j)'
        BY DEF Holding
    <2> QED
        BY <1>1, <1>2, <1>3, <1>4, <1>5, FinishHolds
<1>12. EmulatedHoldsAddress'
    BY <1>1, <1>2 DEF IInv, EmulatedHoldsAddress, AssignsLivingObject
<1> QED
    BY <1>6, <1>7, <1>8, <1>9, <1>10, <1>11, <1>12 DEF IInv

-----------------------------------------------------------------------------

LEMMA InitIInv == WeakInit => IInv
<1> SUFFICES ASSUME WeakInit PROVE IInv
    OBVIOUS
<1>1. WeakTypeOK
    BY EmptyType, WeakPointersAssumption DEF WeakInit, WeakTypeOK, SetterState, Resting
<1>2. \A i : ~Alive(i)
    BY DEF WeakInit, Alive
<1> QED
    BY <1>1, <1>2
       DEF WeakInit, IInv, AssignsLivingObject, IdleHasNoPointer, LivesAreUnique, NumbersAreFresh,
           HasNumber, Holding, EmulatedHoldsAddress, Busy, Resting, EmptyEntry, NullWeak

LEMMA NextIInv == IInv /\ [WeakNext]_weakVars => IInv'
<1> SUFFICES ASSUME IInv, [WeakNext]_weakVars PROVE IInv'
    OBVIOUS
<1>1. CASE WeakNext
    BY <1>1, CreateObjectInv, CollectObjectInv, SetNullInv, CopyWeakInv, SetEmulatedInv,
       SetNativeInv, LoadSerialInv, IncrementMasterInv, SwapInSerialInv DEF WeakNext, ForgetIfGone
<1>2. CASE UNCHANGED weakVars
    BY <1>2
       DEF weakVars, IInv, WeakTypeOK, AssignsLivingObject, IdleHasNoPointer, LivesAreUnique,
           NumbersAreFresh, HasNumber, Holding, HoldsItsOwn, HoldsObject, EmulatedHoldsAddress,
           Unused, Busy, Alive
<1> QED
    BY <1>1, <1>2

\* The inductive invariant of the weak pointers holds in every behaviour.
THEOREM WeakInvariance == WeakSpec => []IInv
<1> QED
    BY InitIInv, NextIInv, PTL DEF WeakSpec

(***************************************************************************)
(* As long as an object is alive the weak pointers set to it find it,      *)
(* whichever threads raced to give it its serial number.                   *)
(***************************************************************************)
THEOREM LiveFound == WeakSpec => []LiveObjectsAreFound
<1>1. IInv => LiveObjectsAreFound
    <2> SUFFICES ASSUME IInv, NEW w \in Weak, NEW i \in Index,
                        Unused(w), Alive(i), objects[i].life = of[w]
                 PROVE  Found(w) = i
        BY DEF LiveObjectsAreFound
    <2>1. HoldsObject(w, i)
        BY DEF IInv, Holding, HoldsItsOwn
    <2> QED
        BY <2>1 DEF HoldsObject, Found, Alive
<1> QED
    BY <1>1, WeakInvariance, PTL

(***************************************************************************)
(* A weak pointer finds no object that took the place of its own; an       *)
(* emulated one only a valid object that looks the same.                   *)
(***************************************************************************)
THEOREM OnlyItsObject == WeakSpec => []OnlyItsObjectIsFound
<1>1. IInv => OnlyItsObjectIsFound
    <2> SUFFICES ASSUME IInv, NEW w \in Weak, Unused(w), Found(w) # 0
                 PROVE  /\ of[w] # 0 /\ Alive(Found(w))
                        /\ native => objects[Found(w)].life = of[w]
                        /\ ~native => objects[Found(w)].looks = weak[w].looks
        BY DEF OnlyItsObjectIsFound
    <2>1. Alive(Found(w)) /\ Found(w) = weak[w].index
        BY DEF Found
    <2>2. Found(w) \in Index
        BY <2>1, WeakPointersAssumption DEF Alive, IInv, WeakTypeOK
    <2>3. CASE native
        <3>1. HoldsObject(w, Found(w))
            BY <2>1, <2>3 DEF Found, HoldsObject
        <3>2. objects[Found(w)].life = of[w]
            BY <2>1, <2>2, <2>3, <3>1 DEF IInv, Holding, HoldsItsOwn
        <3>3. objects[Found(w)].life # 0
            BY <2>1, <2>2 DEF IInv, LivesAreUnique
        <3> QED
            BY <2>1, <2>3, <3>2, <3>3
    <2>4. CASE ~native
        BY <2>1, <2>4 DEF Found, IInv, EmulatedHoldsAddress
    <2> QED
        BY <2>3, <2>4
<1> QED
    BY <1>1, WeakInvariance, PTL

\* Every state has its type.
THEOREM WeakTyping == WeakSpec => []WeakTypeOK
<1>1. IInv => WeakTypeOK
    BY DEF IInv
<1> QED
    BY <1>1, WeakInvariance, PTL
=============================================================================

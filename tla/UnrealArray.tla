------------------------------ MODULE UnrealArray ------------------------------
(***************************************************************************)
(* Arrays of properties that own something, and the values handed out for  *)
(* them.  The entries are either strings, each with a buffer of its own,   *)
(* or inline structs, shared with a strong reference count.  What is in    *)
(* the part of the allocation past the array's size stays there until it   *)
(* is overwritten.                                                         *)
(***************************************************************************)
EXTENDS Integers, Sequences, FiniteSets

CONSTANTS
    Array,
    Handle,     \* WrappedInlineStructs
    Thing,      \* addresses of string buffers and of inline structs
    Nothing,    \* a null pointer
    MinGrow,    \* 4 in the code
    Slack,      \* what growing past MinGrow adds, 3/8 and 16 in the code
    MaxSize,    \* bound on the size of an array, and on what is reserved
    MaxRefs     \* bound on a strong reference count

ASSUME UnrealArrayAssumption ==
    /\ IsFiniteSet(Array) /\ IsFiniteSet(Handle) /\ Nothing \notin Thing
    /\ MinGrow \in Nat \ {0} /\ Slack \in Nat /\ MaxSize \in Nat \ {0} /\ MaxRefs \in Nat

VARIABLES
    inner,      \* the entries' property: "str" or "inline"
    size,       \* size[a]
    cells,      \* cells[a]: the whole allocation, empty if data is null
    strong,     \* strong[x]: references to x, zero when it is not allocated
    handle      \* handle[h]: the struct h has a reference to

arrayVars == <<inner, size, cells, strong, handle>>

\* The game has filled some of the arrays with an entry each.
ArraysInit ==
    /\ inner \in {"str", "inline"}
    /\ \E entry \in [Array -> Thing \union {Nothing}] :
        /\ \A a, b \in Array : entry[a] = entry[b] /\ entry[a] # Nothing => a = b
        /\ cells = [a \in Array |-> IF entry[a] = Nothing THEN <<>> ELSE <<entry[a]>>]
        /\ size = [a \in Array |-> Len(cells[a])]
        /\ strong = [x \in Thing |-> Cardinality({a \in Array : entry[a] = x})]
    /\ handle = [h \in Handle |-> Nothing]

(***************************************************************************)
(* TArray: resize grows the allocation but never shrinks it, reserve does  *)
(* both.  New memory is zeroed.                                            *)
(***************************************************************************)
Grown(n) == IF n <= MinGrow THEN MinGrow ELSE n + Slack

Reserved(memory, cap) ==
    [i \in 1 .. cap |-> IF i <= Len(memory) THEN memory[i] ELSE Nothing]

Resized(memory, n) == IF Len(memory) < n THEN Reserved(memory, Grown(n)) ELSE memory

(***************************************************************************)
(* References are given up and taken by the entry: destroying an entry     *)
(* frees its string or removes its strong reference, and nulls it.         *)
(***************************************************************************)
Count(things, x) == Cardinality({i \in DOMAIN things : things[i] = x})

\* The counts once the references in `dropped` are removed and those in `added` taken.
Counted(dropped, added) == [x \in Thing |-> strong[x] - Count(dropped, x) + Count(added, x)]

\* Slip: the entry is left as it was.
DestroyKeeping(a, is) == cells[a]

Destroyed(a, is) == [i \in DOMAIN cells[a] |-> IF i \in is THEN Nothing ELSE cells[a][i]]

InUse(a) == 1 .. size[a]

Part(memory, is) == [i \in is |-> memory[i]]

(***************************************************************************)
(* PropTraits<ZGbxInlineStructProperty>: what is read has a reference of   *)
(* its own; a null one gives no value.  A copy is a new struct.            *)
(***************************************************************************)
Get(a, i, h) ==
    /\ inner = "inline" /\ i \in InUse(a) /\ handle[h] = Nothing /\ cells[a][i] # Nothing
    /\ handle' = [handle EXCEPT ![h] = cells[a][i]]
    /\ strong' = Counted(<<>>, <<cells[a][i]>>)
    /\ UNCHANGED <<inner, size, cells>>

\* The copy constructor.
CopyOf(h, g, x) ==
    /\ handle[h] = Nothing /\ handle[g] # Nothing /\ strong[x] = 0
    /\ handle' = [handle EXCEPT ![h] = x]
    /\ strong' = Counted(<<>>, <<x>>)
    /\ UNCHANGED <<inner, size, cells>>

DropHandle(h) ==
    /\ handle[h] # Nothing
    /\ handle' = [handle EXCEPT ![h] = Nothing]
    /\ strong' = Counted(<<handle[h]>>, <<>>)
    /\ UNCHANGED <<inner, size, cells>>

\* The old reference goes first; the value has one of its own.
SetInline(a, i, x) ==
    /\ inner = "inline" /\ i \in InUse(a) /\ x \in {Nothing} \union {handle[h] : h \in Handle}
    /\ cells' = [cells EXCEPT ![a][i] = x]
    /\ strong' = Counted(<<cells[a][i]>>, <<x>>)
    /\ UNCHANGED <<inner, size, handle>>

\* UnmanagedFString's assignment: a new buffer, none for an empty string; the old one stays.
SetString(a, i, x) ==
    /\ inner = "str" /\ i \in InUse(a) /\ (x # Nothing => strong[x] = 0)
    /\ cells' = [cells EXCEPT ![a][i] = x]
    /\ strong' = Counted(<<>>, <<x>>)
    /\ UNCHANGED <<inner, size, handle>>

DestroyAt(a, i) ==
    /\ i \in InUse(a)
    /\ cells' = [cells EXCEPT ![a] = Destroyed(a, {i})]
    /\ strong' = Counted(<<cells[a][i]>>, <<>>)
    /\ UNCHANGED <<inner, size, handle>>

\* WrappedArray::resize: destroys what is dropped and zeroes what is new.
Resize(a, n) ==
    LET dropped == n + 1 .. size[a]
        memory == Resized(Destroyed(a, dropped), n)
    IN
    /\ size' = [size EXCEPT ![a] = n]
    /\ cells' = [cells EXCEPT ![a] =
                    [i \in DOMAIN memory |-> IF i \in size[a] + 1 .. n THEN Nothing ELSE memory[i]]]
    /\ strong' = Counted(Part(cells[a], dropped), <<>>)
    /\ UNCHANGED <<inner, handle>>

Reserve(a, cap) ==
    /\ cap >= size[a]
    /\ cells' = [cells EXCEPT ![a] = Reserved(@, cap)]
    /\ UNCHANGED <<inner, size, strong, handle>>

(***************************************************************************)
(* PropTraits<ZArrayProperty>::set: the array is resized as it is and its  *)
(* entries are set one by one, up to one that throws.  Inline structs are  *)
(* shared by the two arrays, strings copied.                               *)
(***************************************************************************)
Values(s, done) ==
    IF inner = "inline" THEN {Part(cells[s], 1 .. done)}
    ELSE {f \in [1 .. done -> Thing \union {Nothing}] :
             /\ \A i \in 1 .. done : (cells[s][i] = Nothing <=> f[i] = Nothing)
                                     /\ (f[i] # Nothing => strong[f[i]] = 0)
             /\ \A i, j \in 1 .. done : f[i] = f[j] /\ f[i] # Nothing => i = j}

SetArray(a, s, done) ==
    LET n == size[s]
        memory == Resized(cells[a], n)
    IN
    /\ done <= n
    /\ ~(a = s /\ cells[a] # <<>>)
    /\ \E value \in Values(s, done) :
        /\ size' = [size EXCEPT ![a] = n]
        /\ cells' = [cells EXCEPT ![a] =
                        [i \in DOMAIN memory |-> IF i \in 1 .. done THEN value[i] ELSE memory[i]]]
        /\ strong' = Counted(IF inner = "str" THEN <<>> ELSE Part(memory, 1 .. done), value)
    /\ UNCHANGED <<inner, handle>>

\* PropTraits<ZArrayProperty>::destroy, with the struct the array is in.
DestroyArray(a) ==
    /\ size' = [size EXCEPT ![a] = 0]
    /\ cells' = [cells EXCEPT ![a] = <<>>]
    /\ strong' = Counted(Part(cells[a], InUse(a)), <<>>)
    /\ UNCHANGED <<inner, handle>>

ArraysNext ==
    /\ \/ \E a \in Array, i \in 1 .. MaxSize, h \in Handle : Get(a, i, h)
       \/ \E h, g \in Handle, x \in Thing : CopyOf(h, g, x)
       \/ \E h \in Handle : DropHandle(h)
       \/ \E a \in Array, i \in 1 .. MaxSize, x \in Thing \union {Nothing} :
             SetInline(a, i, x) \/ SetString(a, i, x)
       \/ \E a \in Array, i \in 1 .. MaxSize : DestroyAt(a, i)
       \/ \E a \in Array, n \in 0 .. MaxSize : Resize(a, n) \/ (n > 0 /\ Reserve(a, n))
       \/ \E a, s \in Array, done \in 0 .. MaxSize : SetArray(a, s, done)
       \/ \E a \in Array : DestroyArray(a)
    /\ \A x \in Thing : strong'[x] <= MaxRefs

ArraysSpec == ArraysInit /\ [][ArraysNext]_arrayVars

-----------------------------------------------------------------------------

ArraysTypeOK ==
    /\ inner \in {"str", "inline"}
    /\ size \in [Array -> 0 .. MaxSize]
    /\ \A a \in Array : cells[a] \in Seq(Thing \union {Nothing}) /\ size[a] <= Len(cells[a])
    /\ strong \in [Thing -> Nat]
    /\ handle \in [Handle -> Thing \union {Nothing}]

(***************************************************************************)
(* Whatever the sequence of calls, also those that throw half way through, *)
(* each pointer has a reference that keeps what it points to, those in the *)
(* entries past an array's size included, which a later set gives up.  For *)
(* a string this says that a single entry has it: nothing is used after it *)
(* was freed, and nothing is freed twice.                                  *)
(***************************************************************************)
Entries(x) ==
    {at \in Array \X (1 .. MaxSize + Slack + MinGrow) :
        at[2] \in DOMAIN cells[at[1]] /\ cells[at[1]][at[2]] = x}

EntriesHaveReferences ==
    \A x \in Thing : Cardinality(Entries(x)) + Cardinality({h \in Handle : handle[h] = x}) <= strong[x]
=============================================================================

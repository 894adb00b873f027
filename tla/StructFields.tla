---------------------------- MODULE StructFields ----------------------------
(***************************************************************************)
(* Finding a member of a struct or class by its name.  Each struct has a   *)
(* list of fields and, where properties are FFields, one of properties,    *)
(* and a super struct.  FieldIterator goes through the fields from the     *)
(* struct up; PropertyIterator does so through the properties, or follows  *)
(* the list the game links through all of them.                            *)
(***************************************************************************)
EXTENDS Naturals, Sequences, SequencesExt, FiniteSetsExt

CONSTANTS
    Depth,          \* the structs 1 .. Depth: the super of each is the next
    MaxMembers      \* bound on the members of all structs

Struct == 1 .. Depth

End == 0            \* a null struct, or field

ASSUME StructsAssumption == Depth \in Nat \ {0} /\ MaxMembers \in Nat

VARIABLES
    ffield,         \* UNREALSDK_PROPERTIES_ARE_FFIELD
    linked,         \* UNREALSDK_USTRUCT_PROPERTY_ITER is PROPERTYLINK
    members,        \* those of struct 1, then those of its super, and so on
    via,            \* the function called on struct 1
    list,           \* the list it iterates over
    iterator,       \* and how far it got: <<this_struct, field>>
    outcome         \* Searching, FoundMember(a member) or NotFound

structVars == <<ffield, linked, members, via, list, iterator, outcome>>

Searching == <<"searching">>
FoundMember(m) == <<"found", m>>
NotFound == <<"throws">>

\* In ChildProperties there may be FFields that are no properties.  A member has
\* the name looked for or another.
Member ==
    [struct : Struct, in : {"Children", "ChildProperties"},
     kind : {"property", "function", "other"}, named : BOOLEAN]

\* The list that begins at a struct, as the places its members have among all: the
\* game links properties of super structs too.
Listed(l, s) ==
    {j \in DOMAIN members :
        IF l = "PropertyLink" THEN members[j].kind = "property"
        ELSE members[j].struct = s /\ members[j].in = l}

\* What is not a property is passed over in ChildProperties.
Passes(l, j) == l = "ChildProperties" /\ members[j].kind # "property"

Least(places) == IF places = {} THEN End ELSE Min(places)

\* The next after i, the first of all if i is null, or null.
NextIn(l, s, i) == Least({j \in Listed(l, s) : j > i /\ ~Passes(l, j)})

\* Slip: a super struct without any ends the iteration.
FollowOnce(l, s, i) ==
    LET next == IF i = End THEN End ELSE NextIn(l, s, i)
    IN  IF next # End THEN <<s, next>>
        ELSE IF s + 1 \notin Struct \/ l = "PropertyLink" \/ NextIn(l, s + 1, End) = End
             THEN <<End, End>>
        ELSE <<s + 1, NextIn(l, s + 1, End)>>

(***************************************************************************)
(* operator++: the next in this struct's list, or the first of the next    *)
(* super struct that has one, or end().  PropertyLink has a single list.   *)
(***************************************************************************)
Follow(l, s, i) ==
    LET next == IF i = End THEN End ELSE NextIn(l, s, i)
        supers == {t \in Struct : t > s /\ l # "PropertyLink" /\ NextIn(l, t, End) # End}
    IN  IF next # End THEN <<s, next>>
        ELSE IF supers = {} THEN <<End, End>>
        ELSE <<Min(supers), NextIn(l, Min(supers), End)>>

First(l) == Least(Listed(l, 1))

(***************************************************************************)
(* fields() and properties(): begin() is the head of the struct's own list *)
(* and is incremented once if that is null or to be passed over.           *)
(***************************************************************************)
Begin(l) ==
    IF First(l) = End \/ Passes(l, First(l)) THEN Follow(l, 1, First(l))
    ELSE <<1, First(l)>>

PropertyList == IF linked THEN "PropertyLink" ELSE "ChildProperties"

\* find() looks at all properties first if they are not among the fields.
FirstList == IF ffield \/ via = "find_prop" THEN PropertyList ELSE "Children"

StructsInit ==
    /\ ffield \in BOOLEAN /\ linked \in BOOLEAN
    /\ ~ffield => linked
    /\ members \in BoundedSeq(Member, MaxMembers)
    /\ \A i, j \in DOMAIN members : i < j => members[i].struct <= members[j].struct
    /\ \A j \in DOMAIN members :
        /\ members[j].in = "ChildProperties" => ffield /\ members[j].kind # "function"
        /\ members[j].in = "Children" /\ ffield => members[j].kind # "property"
    /\ via \in {"find", "find_prop", "find_func_and_validate"}
    /\ list = FirstList
    /\ iterator = Begin(list)
    /\ outcome = Searching

Here == members[iterator[2]]

\* What find_func_and_validate does with the member found.
Validated(m) ==
    IF via = "find_func_and_validate" /\ m.kind # "function" THEN NotFound ELSE FoundMember(m)

Look ==
    /\ outcome = Searching /\ iterator # <<End, End>>
    /\ IF Here.named THEN outcome' = Validated(Here) /\ UNCHANGED iterator
       ELSE iterator' = Follow(list, iterator[1], iterator[2]) /\ UNCHANGED outcome
    /\ UNCHANGED <<ffield, linked, members, via, list>>

GoOnWithFields ==
    /\ outcome = Searching /\ iterator = <<End, End>>
    /\ via # "find_prop" /\ list # "Children"
    /\ list' = "Children"
    /\ iterator' = Begin("Children")
    /\ UNCHANGED <<ffield, linked, members, via, outcome>>

GiveUp ==
    /\ outcome = Searching /\ iterator = <<End, End>>
    /\ via = "find_prop" \/ list = "Children"
    /\ outcome' = NotFound
    /\ UNCHANGED <<ffield, linked, members, via, list, iterator>>

StructsNext == Look \/ GoOnWithFields \/ GiveUp

StructsSpec == StructsInit /\ [][StructsNext]_structVars

-----------------------------------------------------------------------------
FirstNamed(S) ==
    LET place == Least({j \in S : members[j].named})
    IN  IF place = End THEN NotFound ELSE FoundMember(members[place])

Properties == {j \in DOMAIN members : members[j].kind = "property"}
Fields == {j \in DOMAIN members : members[j].in = "Children"}

\* A search finds the most derived member of the name: a property before a field
\* where the two are kept apart, and never what find_prop or a caller that wants
\* a function did not ask for.  It throws only if there is none.
FindsMostDerived ==
    outcome # Searching =>
        outcome = LET property == FirstNamed(Properties)
                      field == FirstNamed(Fields)
                      found == IF via = "find_prop" \/ (ffield /\ property # NotFound)
                               THEN property
                               ELSE field
                  IN  IF via = "find_func_and_validate" /\ found # NotFound /\ found[2].kind # "function"
                      THEN NotFound ELSE found
=============================================================================

--------------------------- MODULE SharedOwnership ---------------------------
(***************************************************************************)
(* What unreal_pointer.h promises of its smart pointers: a block of memory *)
(* stays as long as some pointer owns it, its object is destroyed when the *)
(* last owner gives it up, and only then, and nobody can come to own it    *)
(* again until it has been freed and allocated anew.                       *)
(***************************************************************************)
CONSTANTS Ptr, Block

VARIABLES
    owners,     \* owners[b]: the pointers that own block b
    dying       \* the blocks without owners whose object is being destroyed

OwnershipInit ==
    /\ owners = [b \in Block |-> {}]
    /\ dying = {}

Create(p, b) ==
    /\ owners[b] = {} /\ b \notin dying
    /\ \A c \in Block : p \notin owners[c]
    /\ owners' = [owners EXCEPT ![b] = {p}]
    /\ UNCHANGED dying

Share(p, b) ==
    /\ owners[b] # {}
    /\ \A c \in Block : p \notin owners[c]
    /\ owners' = [owners EXCEPT ![b] = @ \union {p}]
    /\ UNCHANGED dying

GiveUp(p, b) ==
    /\ p \in owners[b]
    /\ owners' = [owners EXCEPT ![b] = @ \ {p}]
    /\ dying' = IF owners[b] = {p} THEN dying \union {b} ELSE dying

\* p and q exchange what they own, if anything.
Exchange(p, q) ==
    /\ owners' = [b \in Block |-> {r \in Ptr : CASE r = p -> q \in owners[b]
                                                 [] r = q -> p \in owners[b]
                                                 [] OTHER -> r \in owners[b]}]
    /\ UNCHANGED dying

Freed(b) ==
    /\ b \in dying
    /\ dying' = dying \ {b}
    /\ UNCHANGED owners

OwnershipNext ==
    \/ \E p \in Ptr, b \in Block : Create(p, b) \/ Share(p, b) \/ GiveUp(p, b)
    \/ \E p, q \in Ptr : p # q /\ Exchange(p, q)
    \/ \E b \in Block : Freed(b)

OwnershipSpec == OwnershipInit /\ [][OwnershipNext]_<<owners, dying>>
=============================================================================

----------------------------- MODULE Allocator -----------------------------
(***************************************************************************)
(* What malloc, free and realloc promise: a block is memory of the process *)
(* that no other block has, and it stays where it is, with the size it was *)
(* asked for, until the application itself gives it back or resizes it.    *)
(***************************************************************************)
EXTENDS Integers

VARIABLES blocks,  \* address -> size, of the blocks the application holds
          owned    \* the addresses that are memory of the allocator

Extent(p) == p..(p + blocks[p] - 1)

Sound ==
    /\ \A p, q \in DOMAIN blocks : p < q => p + blocks[p] <= q
    /\ UNION {Extent(p) : p \in DOMAIN blocks} \subseteq owned

(* Every block of set P is in both states what it was.                     *)
Keeps(P) ==
    \A p \in P : p \in DOMAIN blocks /\ p \in DOMAIN blocks' /\ blocks'[p] = blocks[p]

Allocate == Keeps(DOMAIN blocks)

Release == Keeps(DOMAIN blocks')

(* The block p is now at q. *)
Resize ==
    \E p \in DOMAIN blocks, q \in DOMAIN blocks' :
        Keeps(DOMAIN blocks \ {p}) /\ Keeps(DOMAIN blocks' \ {q})

Init == DOMAIN blocks = {} /\ owned = {}

Next == Allocate \/ Release \/ Resize

Spec == Init /\ [][Next]_blocks /\ []Sound
=============================================================================

-------------------------------- MODULE Heap --------------------------------
(***************************************************************************)
(* What malloc and free promise: a block is a run of pages of the pool     *)
(* that no other block has, from the allocation until it is freed.         *)
(***************************************************************************)
EXTENDS Integers

CONSTANT N                  \* pages in the pool
VARIABLE live               \* the blocks that are allocated

Blocks == [first : 0..(N - 1), pages : 1..N]
PagesOf(b) == b.first .. (b.first + b.pages - 1)

Init == live = {}

Allocate(b) ==
    /\ PagesOf(b) \subseteq 0..(N - 1)
    /\ \A c \in live : PagesOf(b) \cap PagesOf(c) = {}
    /\ live' = live \cup {b}

Release(b) == live' = live \ {b}

Next == (\E b \in Blocks : Allocate(b)) \/ (\E b \in live : Release(b))

Spec == Init /\ [][Next]_live
=============================================================================

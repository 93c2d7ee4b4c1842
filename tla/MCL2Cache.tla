------------------------------ MODULE MCL2Cache ------------------------------
(***************************************************************************)
(* Instances of L2Cache for TLC.  The candidate lists are those that       *)
(* delta_correlation yields for an instruction that walks memory with a    *)
(* constant stride d and has now requested block b: (n-1)(n-2)/2 addresses *)
(* after n deltas (DeltaCorrelation), modulo the address space.            *)
(***************************************************************************)
EXTENDS L2Cache

Walk(b, d, n) == [k \in 1 .. ((n - 1) * (n - 2)) \div 2 |-> (b + k * d) % 64]

(* A stride of one block upwards, to beyond the last physical address, or  *)
(* downwards, to address 0 and then around.                                *)
UpAndDown == [b \in Block |-> {<< >>, Walk(b, 2, 4), Walk(b, -2, 4)}]

Up == [b \in Block |-> {<< >>, Walk(b, 2, 4)}]
=============================================================================

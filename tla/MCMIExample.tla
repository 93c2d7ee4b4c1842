---------------------------- MODULE MCMIExample ----------------------------
(***************************************************************************)
(* An instance of MIExample for TLC: three caches that pass the block      *)
(* around; a cache and a DMA controller; two of each over a network that   *)
(* does not keep the order.                                                *)
(***************************************************************************)
EXTENDS MIExample

CONSTANTS c1, c2, c3, d1, d2

System(n1, n2, n3, m1, m2, words, ordered) ==
    [requests |-> [x \in Caches \cup Dmas |->
                      CASE x = c1 -> n1 [] x = c2 -> n2 [] x = c3 -> n3
                        [] x = d1 -> m1 [] x = d2 -> m2],
     words    |-> words,
     ordered  |-> ordered]

SmallSystems == {System(2, 2, 1, 0, 0, {1}, TRUE),
                 System(3, 0, 0, 1, 0, {1, 2}, TRUE),
                 System(1, 1, 0, 1, 1, {1}, FALSE)}
=============================================================================

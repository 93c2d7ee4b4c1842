---------------------------- MODULE MCPrefetchers ----------------------------
(***************************************************************************)
(* The two prefetchers of the repository for TLC: the table of DCPT with   *)
(* its history, and the sequential prefetcher.  Each is explored while the *)
(* other has seen no access.  The sequential prefetcher serves programs    *)
(* that access a few blocks in any order, at the beginning or at the end   *)
(* of memory, and one that walks through memory.                           *)
(***************************************************************************)
EXTENDS MCDCPTTable

VARIABLES program, blk, mshr, pf, accessed, misses, count, fatal

seqVars == <<program, blk, mshr, pf, accessed, misses, count, fatal>>

Random(start, end, onAccess) ==
  [start |-> start, end |-> end, accesses |-> 4, walk |-> FALSE,
   prefetchOnAccess |-> onAccess]

SmallPrograms ==
  {Random(0, 2, TRUE), Random(8, 9, FALSE),
   [start |-> 1, end |-> 7, accesses |-> 7, walk |-> TRUE, prefetchOnAccess |-> FALSE]}

Seq54 == INSTANCE SequentialPrefetcher WITH
           Last <- 11, DEGREE <- 3, DISTANCE <- 2, mshrs <- 2, prefetcher_size <- 3,
           Programs <- SmallPrograms

(* Which program would run makes no difference to the table.               *)
SequentialUnused == count = 0 /\ program.walk

TableUnused == \A i \in Slot : hist[i] = <<0>>

BothInit == MCInit /\ Seq54!Init

BothNext ==
  \/ SequentialUnused /\ MCNext /\ UNCHANGED seqVars
  \/ TableUnused /\ Seq54!Next /\ UNCHANGED mcVars

BothSpec == BothInit /\ [][BothNext]_<<mcVars, seqVars>>

(***************************************************************************)
(* The properties of the sequential prefetcher, stated in module           *)
(* SequentialPrefetcher: what is queued, on its way or marked is what the  *)
(* accesses called for; a program that walks through memory misses in the  *)
(* first DISTANCE blocks only.                                             *)
(***************************************************************************)
SequentialInv == Seq54!SequentialInv
OnlyFirstMiss == Seq54!OnlyFirstMiss
=============================================================================

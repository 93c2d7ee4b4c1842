----------------------------- MODULE DCPTFilter -----------------------------
(***************************************************************************)
(* How the DCPT prefetcher turns candidate addresses into prefetch         *)
(* requests (prefetcher/prefetcher.cc): the filter that consults and grows *)
(* the set in_flight, and the bounded issue loop.  The simulator's side of *)
(* the interface (prefetch/proxy.cc) is reduced to what the loops ask of   *)
(* it: which blocks are cached, which have an MSHR, how long the queue is. *)
(***************************************************************************)
EXTENDS Integers, Sequences, FiniteSets

CONSTANTS
  BLOCK_SIZE,          \* bytes of a cache block
  MAX_QUEUE_SIZE,      \* bound on in_flight and on the simulator's queue
  MAX_PHYS_MEM_ADDR,   \* largest address that may be prefetched
  MAX_DEGREE           \* prefetches issued by one access

ASSUME BlockSizeAssumption == BLOCK_SIZE \in Nat \ {0}
ASSUME MaxQueueSizeAssumption == MAX_QUEUE_SIZE \in Nat
ASSUME MaxPhysAssumption == MAX_PHYS_MEM_ADDR \in Nat
ASSUME MaxDegreeAssumption == MAX_DEGREE \in Nat

to_block(addr) == (addr \div BLOCK_SIZE) * BLOCK_SIZE

Block == {to_block(a) : a \in 0 .. MAX_PHYS_MEM_ADDR}

\* Mutant: accepted blocks are not entered in in_flight.
FilterStepForgets(s, a, unwanted) ==
  LET b      == to_block(a)
      accept == /\ a <= MAX_PHYS_MEM_ADDR
                /\ b \notin s.in_flight
                /\ b \notin unwanted
                /\ Cardinality(s.in_flight) < MAX_QUEUE_SIZE
  IN  IF accept THEN [s EXCEPT !.prefetches = Append(@, b)] ELSE s

(* One turn of the loop of prefetch_filter, for candidate a.  `unwanted'   *)
(* holds the blocks that are in the cache or in the MSHR queue.  The       *)
(* prefetches collected so far are dropped when the candidate is the last  *)
(* prefetch of the entry, which is 0 for every entry of the table; what    *)
(* was added to in_flight stays there.                                     *)
FilterStep(s, a, unwanted) ==
  LET b       == to_block(a)
      accept  == /\ a <= MAX_PHYS_MEM_ADDR
                 /\ b \notin s.in_flight
                 /\ b \notin unwanted
                 /\ Cardinality(s.in_flight) < MAX_QUEUE_SIZE
      found   == IF accept THEN Append(s.prefetches, b) ELSE s.prefetches
  IN  [prefetches |-> IF a = 0 THEN << >> ELSE found,
       in_flight  |-> IF accept THEN s.in_flight \cup {b} ELSE s.in_flight]

prefetch_filter(cands, inFlight, unwanted) ==
  LET run[i \in 0 .. Len(cands)] ==
        IF i = 0 THEN [prefetches |-> << >>, in_flight |-> inFlight]
                 ELSE FilterStep(run[i - 1], cands[i], unwanted)
  IN  run[Len(cands)]

(* The blocks handed to the simulator, in order.  The queue length the     *)
(* loop compares with MAX_QUEUE_SIZE does not change while it runs: the    *)
(* proxy only collects the addresses, notify queues them afterwards.       *)
issue_prefetches(prefetches, current_queue_size) ==
  IF current_queue_size >= MAX_QUEUE_SIZE THEN << >>
  ELSE SubSeq(prefetches, 1,
              IF Len(prefetches) <= MAX_DEGREE THEN Len(prefetches) ELSE MAX_DEGREE)
=============================================================================

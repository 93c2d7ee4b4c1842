-------------------------- MODULE DeltaCorrelation --------------------------
(***************************************************************************)
(* The pure part of the DCPT prefetcher (prefetcher/prefetcher.cc): the    *)
(* bounded buffer of address deltas kept for one instruction, and the      *)
(* pattern search that turns it into candidate addresses.                  *)
(*                                                                         *)
(* A delta buffer is a sequence whose last element is the newest delta,    *)
(* as in the code's deque.  Addr is an unsigned and Delta a signed machine *)
(* integer; their widths are constants, so that wrap-around is part of the *)
(* model.                                                                  *)
(***************************************************************************)
EXTENDS Integers, Sequences

CONSTANTS
  NUM_DELTAS,   \* capacity of a delta buffer
  DELTA_BITS,   \* bits stored for one delta
  ADDR_MOD,     \* 2^w for the w bits of Addr  (uint64_t)
  INT_MOD       \* 2^w for the w bits of Delta (int)

ASSUME NumDeltasAssumption == NUM_DELTAS \in Nat \ {0}
ASSUME DeltaBitsAssumption == DELTA_BITS \in Nat \ {0}
ASSUME WidthAssumption ==
  /\ INT_MOD \in Nat \ {0} /\ INT_MOD % 2 = 0
  /\ ADDR_MOD \in Nat \ {0} /\ ADDR_MOD % INT_MOD = 0

LOCAL INSTANCE SequencesExt

DELTA_MIN == -(2^(DELTA_BITS - 1))
DELTA_MAX == 2^(DELTA_BITS - 1) - 1

StoredDelta == DELTA_MIN .. DELTA_MAX

(* The value of addr - last_address: an unsigned subtraction, narrowed to  *)
(* the signed type Delta when it is passed to insert_delta.                *)
ToDelta(addr, last) ==
  LET low == ((addr - last) % ADDR_MOD) % INT_MOD
  IN  IF low < INT_MOD \div 2 THEN low ELSE low - INT_MOD

\* Mutant: off by one in the capacity.
insert_delta_late_pop(deltas, delta) ==
  IF delta < DELTA_MIN \/ delta > DELTA_MAX THEN deltas
  ELSE LET pushed == Append(deltas, delta)
       IN  IF Len(pushed) > NUM_DELTAS + 1 THEN Tail(pushed) ELSE pushed

insert_delta(deltas, delta) ==
  IF delta < DELTA_MIN \/ delta > DELTA_MAX THEN deltas
  ELSE LET pushed == Append(deltas, delta)
       IN  IF Len(pushed) > NUM_DELTAS THEN Tail(pushed) ELSE pushed

\* Mutant: every match starts again from the last address.
delta_correlation_restarts(last_address, deltas) ==
  LET recent == Reverse(deltas)
      n      == Len(deltas)
      Sum(k, m) == FoldLeft(LAMBDA a, d : (a + d) % ADDR_MOD, last_address,
                            SubSeq(recent, k, m))
  IN  FlattenSeq([k \in 1 .. n |->
        IF k >= 3 /\ recent[k - 1] = recent[1] /\ recent[k] = recent[2]
        THEN [j \in 1 .. n - k + 1 |-> Sum(k, k + j - 1)] ELSE << >>])

(* The iterators u and v of the code walk the buffer from its newest end,  *)
(* so position k of the reversed buffer is what v points to when u points  *)
(* to k - 1.  Every match of the two newest deltas starts a walk from v    *)
(* towards the oldest delta; address is carried over from one walk to the  *)
(* next.                                                                   *)
delta_correlation(last_address, deltas) ==
  LET recent == Reverse(deltas)
      n      == Len(deltas)
      Walk(k) == IF k >= 3 /\ recent[k - 1] = recent[1] /\ recent[k] = recent[2]
                 THEN SubSeq(recent, k, n)
                 ELSE << >>
      walked == FlattenSeq([k \in 1 .. n |-> Walk(k)])
      Step(s, d) == LET a == (s.address + d) % ADDR_MOD
                    IN  [address |-> a, candidates |-> Append(s.candidates, a)]
  IN  FoldLeft(Step, [address |-> last_address, candidates |-> << >>], walked).candidates
=============================================================================

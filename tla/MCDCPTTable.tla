----------------------------- MODULE MCDCPTTable -----------------------------
(***************************************************************************)
(* The DCPT table with a history variable: for every slot, the addresses   *)
(* its current instruction has requested since it took the slot.  The      *)
(* delta buffer is an optimised representation of that history, and the    *)
(* properties below say so.                                                *)
(***************************************************************************)
EXTENDS DCPTTable, FiniteSets

CONSTANT MaxAccesses   \* bound on the number of accesses of a behaviour

LOCAL INSTANCE SequencesExt
LOCAL INSTANCE FiniteSetsExt

VARIABLE hist          \* hist[i]: addresses requested by the owner of slot i

mcVars == <<table, candidates, hist>>

(* The static table looks as if program counter 0 had requested address 0. *)
MCInit == Init /\ hist = [i \in Slot |-> <<0>>]

MCNext ==
  \E pc \in PC, addr \in Addr :
    LET i == table_lookup(pc) IN
    /\ MapThenSumSet(LAMBDA j : Len(hist[j]), Slot) < MaxAccesses + TABLE_SIZE
    /\ prefetch_access(pc, addr)
    /\ hist' = [hist EXCEPT ![i] = IF table[i].pc # pc THEN <<addr>>
                                   ELSE Append(@, addr)]

MCSpec == MCInit /\ [][MCNext]_mcVars

-----------------------------------------------------------------------------
(* The deltas between successive different addresses of a history, without *)
(* those that do not fit DELTA_BITS.                                       *)
DeltasOf(h) ==
  LET d == [k \in 1 .. Len(h) - 1 |-> h[k + 1] - h[k]]
  IN  SelectSeq(d, LAMBDA x : x # 0 /\ x \in StoredDelta)

LastN(s, n) == IF Len(s) <= n THEN s ELSE SubSeq(s, Len(s) - n + 1, Len(s))

(* What prefetch_access and insert_delta maintain: the buffer of a slot is *)
(* the last NUM_DELTAS storable deltas of the requests its owner has made  *)
(* since it took the slot, and last_address is the latest request.  No     *)
(* delta survives the eviction of the instruction it belonged to, and none *)
(* is measured across two instructions.                                    *)
RingIsRecentHistory ==
  \A i \in Slot :
    /\ table[i].last_address = Last(hist[i])
    /\ table[i].deltas = LastN(DeltasOf(hist[i]), NUM_DELTAS)

(* An instruction that walks memory with a constant stride d is predicted  *)
(* exactly: delta_correlation returns the next addresses of the walk, in   *)
(* order and without a gap, (n-1)(n-2)/2 of them for n recorded deltas.    *)
ConstantStridePredicted ==
  \A i \in Slot :
    LET ring == table[i].deltas
        n    == Len(ring)
        c    == delta_correlation(table[i].last_address, ring)
    IN  n >= 3 /\ Cardinality({ring[k] : k \in 1 .. n}) = 1 =>
          /\ Len(c) = ((n - 1) * (n - 2)) \div 2
          /\ \A k \in 1 .. Len(c) :
               c[k] = (table[i].last_address + k * ring[1]) % ADDR_MOD

(* report/background.tex: the found delta pattern is added to the current  *)
(* address "to obtain the predicted stream of future accesses".  For an    *)
(* instruction that has gone twice through a cycle of three deltas, the    *)
(* first prediction should be the address the cycle leads to next.         *)
PeriodicPatternPredicted ==
  \A i \in Slot :
    LET ring == table[i].deltas
        n    == Len(ring)
    IN  n >= 6 /\ (\A k \in 1 .. n - 3 : ring[k] = ring[k + 3]) =>
          LET c == delta_correlation(table[i].last_address, ring)
          IN  c # << >> /\ c[1] = (table[i].last_address + ring[n - 2]) % ADDR_MOD
=============================================================================

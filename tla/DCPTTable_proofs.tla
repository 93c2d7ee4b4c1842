-------------------------- MODULE DCPTTable_proofs --------------------------
(***************************************************************************)
(* The DCPT table keeps its type and its storage budget for every table    *)
(* size, buffer capacity, delta width and access pattern.                  *)
(***************************************************************************)
EXTENDS DCPTTable, SequenceTheorems, TLAPS

(* What insert_delta stores fits the bits and the capacity of the buffer,  *)
(* whatever integer it is given.                                           *)
LEMMA InsertDeltaType ==
  ASSUME NEW ring \in Seq(StoredDelta), Len(ring) <= NUM_DELTAS, NEW delta \in Int
  PROVE  /\ insert_delta(ring, delta) \in Seq(StoredDelta)
         /\ Len(insert_delta(ring, delta)) <= NUM_DELTAS
<1>1. CASE delta < DELTA_MIN \/ delta > DELTA_MAX
  BY <1>1, Zenon DEF insert_delta
<1>2. CASE ~(delta < DELTA_MIN \/ delta > DELTA_MAX)
  <2> DEFINE pushed == Append(ring, delta)
  <2>1. DELTA_MIN \in Int /\ DELTA_MAX \in Int
    BY DeltaBitsAssumption, SMT DEF DELTA_MIN, DELTA_MAX
  <2>2. delta \in StoredDelta
    BY <1>2, <2>1 DEF StoredDelta
  <2>3. pushed \in Seq(StoredDelta) /\ Len(pushed) = Len(ring) + 1
    BY <2>2
  <2>4. Len(pushed) > NUM_DELTAS =>
          Tail(pushed) \in Seq(StoredDelta) /\ Len(Tail(pushed)) = Len(ring)
    BY <2>3
  <2>5. NUM_DELTAS \in Nat /\ Len(ring) \in Nat
    BY NumDeltasAssumption
  <2> HIDE DEF pushed
  <2>6. insert_delta(ring, delta) = IF Len(pushed) > NUM_DELTAS THEN Tail(pushed) ELSE pushed
    BY <1>2, Zenon DEF insert_delta, pushed
  <2> QED BY <2>3, <2>4, <2>5, <2>6
<1> QED BY <1>1, <1>2, Zenon

LEMMA ToDeltaType ==
  ASSUME NEW addr \in 0 .. ADDR_MOD - 1, NEW last \in 0 .. ADDR_MOD - 1
  PROVE  ToDelta(addr, last) \in Int
BY WidthAssumption DEF ToDelta

LEMMA LookupType == ASSUME NEW pc \in Nat PROVE table_lookup(pc) \in Slot
BY TableSizeAssumption DEF table_lookup, Slot

(* Init and every access establish the inductive invariant TableInv.       *)
LEMMA InitTableInv == Init => TableInv
<1> SUFFICES ASSUME Init PROVE TableInv
  OBVIOUS
<1>1. Entry(0, 0) \in EntryType
  BY WidthAssumption DEF Entry, EntryType
<1>2. TypeOK
  BY <1>1, Zenon DEF Init, TypeOK, Slot
<1>3. EntriesWellPlaced
  BY NumDeltasAssumption DEF Init, EntriesWellPlaced, Slot, Entry
<1> QED BY <1>2, <1>3, Zenon DEF TableInv

LEMMA NextTableInv == TableInv /\ [Next]_vars => TableInv'
<1> SUFFICES ASSUME TableInv, [Next]_vars PROVE TableInv'
  OBVIOUS
<1> USE DEF TableInv
<1>1. CASE UNCHANGED vars
  BY <1>1, Zenon DEF vars, TypeOK, EntriesWellPlaced
<1>2. ASSUME NEW pc \in PC, NEW addr \in Addr, prefetch_access(pc, addr)
      PROVE  TableInv'
  <2> DEFINE i == table_lookup(pc)
  <2>1. pc \in Nat /\ addr \in 0 .. ADDR_MOD - 1
    BY PCAssumption, AddrAssumption, Zenon
  <2>2. i \in Slot
    BY <2>1, LookupType, Zenon
  <2>3. table[i] \in EntryType /\ Len(table[i].deltas) <= NUM_DELTAS
    BY <2>2, Zenon DEF TypeOK, EntriesWellPlaced
  <2>4. CASE Replace(pc, addr)
    <3>1. Entry(pc, addr) \in EntryType
      BY <2>1 DEF Entry, EntryType
    <3>2. TypeOK'
      BY <2>2, <2>4, <3>1, Zenon DEF TypeOK, Replace
    <3>3. EntriesWellPlaced'
      BY <2>2, <2>4, NumDeltasAssumption DEF TypeOK, EntriesWellPlaced, Replace, Entry
    <3> QED BY <3>2, <3>3, Zenon
  <2>5. CASE Train(pc, addr)
    <3> DEFINE ring == insert_delta(table[i].deltas, ToDelta(addr, table[i].last_address))
               e    == [table[i] EXCEPT !.deltas = ring, !.last_address = addr]
    <3>1. ring \in Seq(StoredDelta) /\ Len(ring) <= NUM_DELTAS
      <4>1. table[i].deltas \in Seq(StoredDelta) /\ table[i].last_address \in 0 .. ADDR_MOD - 1
        BY <2>3, Zenon DEF EntryType
      <4> QED BY <2>1, <2>3, <4>1, InsertDeltaType, ToDeltaType, Zenon
    <3> HIDE DEF ring
    <3>2. e \in EntryType /\ e.deltas = ring /\ e.pc = table[i].pc
      BY <2>1, <2>3, <3>1, Zenon DEF EntryType
    <3>3. table' = [table EXCEPT ![i] = e]
      BY <2>2, <2>3, <2>5, Zenon DEF Train, ring, TypeOK, EntryType
    <3> HIDE DEF e, i
    <3>4. TypeOK'
      BY <2>2, <3>2, <3>3, Zenon DEF TypeOK
    <3>5. EntriesWellPlaced'
      BY <2>2, <3>1, <3>2, <3>3, Zenon DEF TypeOK, EntriesWellPlaced
    <3> QED BY <3>4, <3>5, Zenon
  <2>6. CASE Repeat(pc, addr)
    BY <2>6, Zenon DEF Repeat, TypeOK, EntriesWellPlaced
  <2> QED BY <1>2, <2>4, <2>5, <2>6, Zenon DEF prefetch_access
<1> QED BY <1>1, <1>2, Zenon DEF Next

(* prefetch_access keeps every entry within the storage budget (the deltas *)
(* stay in insert_delta's range, its single pop_front is enough) and in    *)
(* the slot its pc selects, so that the deltas of one load are never       *)
(* trained with the addresses of another.                                  *)
THEOREM TableSafe == Spec => []TableInv
BY InitTableInv, NextTableInv, PTL DEF Spec
=============================================================================

------------------------------ MODULE DCPTTable ------------------------------
(***************************************************************************)
(* The DCPT table (prefetcher/prefetcher.cc): one Entry per slot, indexed  *)
(* by the program counter of the access.  An access trains its entry and   *)
(* hands a list of candidate addresses to prefetch_filter; what becomes of *)
(* the list is modelled in L2Cache.                                        *)
(***************************************************************************)
EXTENDS DeltaCorrelation

CONSTANTS
  TABLE_SIZE,   \* number of slots
  PC,           \* program counters of the accesses the proxy passes on
  Addr          \* addresses those accesses request

ASSUME TableSizeAssumption == TABLE_SIZE \in Nat \ {0}
ASSUME PCAssumption == PC \subseteq Nat
ASSUME AddrAssumption == Addr \subseteq 0 .. ADDR_MOD - 1

VARIABLES
  table,        \* the global Entry table[TABLE_SIZE]
  candidates    \* what the last access passed to prefetch_filter

vars == <<table, candidates>>

Entry(pc, addr) ==
  [pc |-> pc, last_address |-> addr, last_prefetch |-> 0, deltas |-> << >>]

table_lookup(pc) == pc % TABLE_SIZE

Init ==
  /\ table = [i \in 0 .. TABLE_SIZE - 1 |-> Entry(0, 0)]
  /\ candidates = << >>

\* Mutant: the deltas of the previous owner survive.
ReplaceKeepsDeltas(pc, addr) ==
  /\ table[table_lookup(pc)].pc # pc
  /\ table' = [table EXCEPT ![table_lookup(pc)].pc = pc,
                            ![table_lookup(pc)].last_address = addr]
  /\ candidates' = << >>

(* The slot belongs to another instruction: it is taken over.              *)
Replace(pc, addr) ==
  /\ table[table_lookup(pc)].pc # pc
  /\ table' = [table EXCEPT ![table_lookup(pc)] = Entry(pc, addr)]
  /\ candidates' = << >>

(* The instruction moved to another address: the delta is recorded and the *)
(* candidates are computed from the updated entry.                         *)
Train(pc, addr) ==
  LET i    == table_lookup(pc)
      ring == insert_delta(table[i].deltas, ToDelta(addr, table[i].last_address))
  IN  /\ table[i].pc = pc
      /\ addr # table[i].last_address
      /\ table' = [table EXCEPT ![i].deltas = ring, ![i].last_address = addr]
      /\ candidates' = delta_correlation(addr, ring)

(* The same address again: prefetch_access falls through.                  *)
Repeat(pc, addr) ==
  /\ table[table_lookup(pc)].pc = pc
  /\ addr = table[table_lookup(pc)].last_address
  /\ candidates' = << >>
  /\ UNCHANGED table

prefetch_access(pc, addr) ==
  Replace(pc, addr) \/ Train(pc, addr) \/ Repeat(pc, addr)

Next == \E pc \in PC, addr \in Addr : prefetch_access(pc, addr)

Spec == Init /\ [][Next]_vars

-----------------------------------------------------------------------------
Slot == 0 .. TABLE_SIZE - 1

EntryType ==
  [pc : Nat, last_address : 0 .. ADDR_MOD - 1, last_prefetch : {0},
   deltas : Seq(StoredDelta)]

(* Every slot holds an entry whose deltas fit the bits reserved for them.  *)
TypeOK == table \in [Slot -> EntryType]

(* The buffer never outgrows the storage budgeted for it, and the entry    *)
(* found in a slot belongs to an instruction that maps to that slot (or to *)
(* the zero program counter the static table starts with): table_lookup    *)
(* and prefetch_access never mix up two slots.                             *)
EntriesWellPlaced ==
  \A i \in Slot :
    /\ Len(table[i].deltas) <= NUM_DELTAS
    /\ table[i].pc = 0 \/ table_lookup(table[i].pc) = i

TableInv == TypeOK /\ EntriesWellPlaced
=============================================================================

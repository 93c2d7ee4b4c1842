------------------------------- MODULE MCLocks -------------------------------
(***************************************************************************)
(* An instance of the two places that keep load-locks, memory and the      *)
(* first-level cache, for TLC.  They are alternatives (a system without    *)
(* caches, one with); each is explored while the other has seen no access. *)
(***************************************************************************)
EXTENDS PhysicalMemory

CONSTANTS
  Blocks, assoc,   \* the blocks that map to one set of the cache, and its frames
  None             \* no locked address

VARIABLES set, lockAddr, success, recent, loaded, happened

cacheVars == <<set, lockAddr, success, recent, loaded, happened>>

Cache == INSTANCE CacheLocks

(* Bound: the events of the history that a behaviour goes on after.        *)
MaxHappened == 1

CacheUnused == recent = << >> /\ lockAddr = [c \in Contexts |-> None]

MemoryUnused == Init /\ pmem = [a \in Addrs |-> 0] /\ resp = [context |-> 1, val |-> 0, ok |-> TRUE]

MCInit == MemoryUnused /\ Cache!Init

MCNext ==
  \/ CacheUnused /\ Next /\ UNCHANGED cacheVars
  \/ /\ MemoryUnused /\ Cardinality(happened) <= MaxHappened
     /\ Cache!Next /\ UNCHANGED vars

MCSpec == MCInit /\ [][MCNext]_<<vars, cacheVars>>

(***************************************************************************)
(* The properties of the cache, stated in module CacheLocks: the set is in *)
(* order, with one frame per block, the most recently used blocks present  *)
(* and a lock found at the block it belongs to; and a conditional store    *)
(* that succeeds is atomic.                                                *)
(***************************************************************************)
CacheInv == Cache!SetInv
CacheSuccessIsAtomic == Cache!SuccessIsAtomic
=============================================================================

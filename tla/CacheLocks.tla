----------------------------- MODULE CacheLocks -----------------------------
(***************************************************************************)
(* Load-locked and store-conditional in a first-level cache: the lockList  *)
(* of every block (mem/cache/blk.hh), the accesses that use it             *)
(* (satisfyCpuSideRequest, access and handleFill of cache_impl.hh, in      *)
(* atomic mode, where a miss is filled within the access), the frames of   *)
(* one set under LRU, and the lock registers of an Alpha processor, which  *)
(* sends a conditional store to the cache only for the address it loaded   *)
(* locked last (arch/alpha/locked_mem.hh).  Other caches write a block     *)
(* after taking it away from this one.  Data is left out: what matters is  *)
(* which writes happen.                                                    *)
(***************************************************************************)
EXTENDS LRU, FiniteSets

CONSTANTS
  Contexts,   \* hardware contexts of the processor
  Blocks,     \* blocks that map to the set
  assoc,      \* frames of the set
  None        \* no locked address

VARIABLES
  set,        \* the frames, most recently used first
  lockAddr,   \* per context: LOCKADDR, or None when LOCKFLAG is clear
  success,    \* the last access was a conditional store that succeeded
  recent,     \* history: the blocks used so far, the last one first
  loaded,     \* history: per context, the blocks loaded locked and not
              \* written since, by anyone
  happened    \* history: a locked block was "replaced" by another one or
              \* "swapped", or a block was "taken" by another cache

vars == <<set, lockAddr, success, recent, loaded, happened>>

TypeOK ==
  /\ set \in [1..assoc -> [tag : Blocks \cup {None}, valid : BOOLEAN,
                           lockList : SUBSET Contexts]]
  /\ lockAddr \in [Contexts -> Blocks \cup {None}]
  /\ success \in BOOLEAN
  /\ loaded \in [Contexts -> SUBSET Blocks]
  /\ Len(recent) <= Cardinality(Blocks)
  /\ happened \subseteq {"replaced", "swapped", "taken"}

Init ==
  /\ set = [i \in 1..assoc |-> Frame(None, FALSE, {})]
  /\ lockAddr = [c \in Contexts |-> None]
  /\ success = FALSE
  /\ recent = << >>
  /\ loaded = [c \in Contexts |-> {}]
  /\ happened = {}

-----------------------------------------------------------------------------
\* The set after access and, on a miss, handleFill: block b is at the head
Accessed(b) ==
  IF Holds(set, b) # {} THEN accessBlock(set, b)
                        ELSE insertBlock(set, findVictim(set), b)

\* What the history notes of an access to b, and of a swap there
Used(b, swap) ==
  LET replaced == Holds(set, b) = {} /\ set[findVictim(set)].lockList # {}
  IN  /\ recent' = <<b>> \o SelectSeq(recent, LAMBDA x : x # b)
      /\ happened' = happened
            \cup {e \in {"replaced"} : replaced}
            \cup {e \in {"swapped"} : swap /\ Accessed(b)[1].lockList # {}}

trackLoadLocked(s, c) == [s EXCEPT ![1].lockList = @ \cup {c}]
clearLoadLocks(s) == [s EXCEPT ![1].lockList = {}]

Written(b) == loaded' = [c \in Contexts |-> loaded[c] \ {b}]

Load(b) ==
  /\ set' = Accessed(b) /\ Used(b, FALSE)
  /\ success' = FALSE
  /\ UNCHANGED <<lockAddr, loaded>>

\* handleLockedRead of the processor, then trackLoadLocked
LoadLocked(c, b) ==
  /\ lockAddr' = [lockAddr EXCEPT ![c] = b]
  /\ set' = trackLoadLocked(Accessed(b), c) /\ Used(b, FALSE)
  /\ loaded' = [loaded EXCEPT ![c] = @ \cup {b}]
  /\ success' = FALSE

\* A bug it might have: an ordinary store does not look at the lockList
StoreKeepsLocks(b) ==
  /\ set' = Accessed(b) /\ Used(b, FALSE)
  /\ Written(b)
  /\ success' = FALSE
  /\ UNCHANGED lockAddr

\* checkWrite of a store that is not conditional
Store(b) ==
  /\ set' = clearLoadLocks(Accessed(b)) /\ Used(b, FALSE)
  /\ Written(b)
  /\ success' = FALSE
  /\ UNCHANGED lockAddr

\* handleLockedWrite: the processor fails the store itself
StoreCondUnsent(c, b) ==
  /\ lockAddr[c] # b
  /\ lockAddr' = [lockAddr EXCEPT ![c] = None]
  /\ success' = FALSE
  /\ UNCHANGED <<set, recent, loaded, happened>>

\* "complete miss on store conditional... just give up now"
StoreCondMiss(c, b) ==
  /\ lockAddr[c] = b /\ Holds(set, b) = {}
  /\ success' = FALSE
  /\ UNCHANGED <<set, lockAddr, recent, loaded, happened>>

\* A bug checkWrite might have: any context's lock will do
HasAnyLock(s, c) == s[1].lockList # {}

HasLock(s, c) == c \in s[1].lockList

\* checkWrite of a conditional store to a block that is present
StoreCond(c, b) ==
  /\ lockAddr[c] = b /\ Holds(set, b) # {}
  /\ set' = clearLoadLocks(Accessed(b)) /\ Used(b, FALSE)
  /\ success' = HasLock(Accessed(b), c)
  /\ IF success' THEN Written(b) ELSE UNCHANGED loaded
  /\ UNCHANGED lockAddr

\* cmpAndSwap, which writes the block or not and leaves its lockList alone
Swap(b, writes) ==
  /\ set' = Accessed(b) /\ Used(b, writes)
  /\ IF writes THEN Written(b) ELSE UNCHANGED loaded
  /\ success' = FALSE
  /\ UNCHANGED lockAddr

\* handleSnoop of another cache's exclusive request, and the store it is for
ExternalStore(b) ==
  /\ set' = invalidateBlk(set, b)
  /\ Written(b)
  /\ happened' = happened \cup {e \in {"taken"} : Holds(set, b) # {}}
  /\ success' = FALSE
  /\ UNCHANGED <<lockAddr, recent>>

Next ==
  \E b \in Blocks :
     \/ Load(b) \/ Store(b) \/ ExternalStore(b)
     \/ \E writes \in BOOLEAN : Swap(b, writes)
     \/ \E c \in Contexts : \/ LoadLocked(c, b) \/ StoreCond(c, b)
                            \/ StoreCondUnsent(c, b) \/ StoreCondMiss(c, b)

Spec == Init /\ [][Next]_vars

-----------------------------------------------------------------------------
\* A block has one frame at most.
OneFrame == \A b \in Blocks : Cardinality(Holds(set, b)) <= 1

\* The LRU promise: the last assoc blocks used are the ones in the set.  It
\* needs a cache nobody takes blocks from: findVictim looks at the last frame
\* only, so a block that comes back evicts another although its old frame is
\* free.
RecentPresent ==
  "taken" \notin happened =>
     \A k \in 1..Len(recent) : k <= assoc <=> Holds(set, recent[k]) # {}

\* The lockLists are what blk.hh says, "List of thread contexts that have
\* performed a load-locked (LL) on the block since the last store", until a
\* locked block is swapped or loses its frame: cmpAndSwap and insertBlock leave
\* the list as it is.
LocksAreOfBlock ==
  happened \subseteq {"taken"} =>
     \A i \in 1..assoc : set[i].valid =>
        \A c \in set[i].lockList : set[i].tag \in loaded[c]

\* The set is in order: its type, one frame for a block, the blocks in it the
\* last ones used, the locks those of the blocks.
SetInv == TypeOK /\ OneFrame /\ RecentPresent /\ LocksAreOfBlock

\* Until a locked block is swapped or replaced, a conditional store that
\* succeeds had its block loaded locked by its context, and nobody has written
\* to the block in between.
SuccessIsAtomic ==
  [][\A c \in Contexts, b \in Blocks :
        happened \subseteq {"taken"} /\ StoreCond(c, b) /\ success'
           => b \in loaded[c]]_vars
=============================================================================

------------------------ MODULE SequentialPrefetcher ------------------------
(***************************************************************************)
(* The sequential prefetcher of prefetcher/ts_54.cc behind the simulator's *)
(* interface (prefetch/proxy.cc) and its queue of prefetch requests        *)
(* (BasePrefetcher).  The cache around them is reduced to what they ask    *)
(* and hear of it: which blocks are present and with which prefetch marks, *)
(* which blocks have an MSHR, and when fills and evictions happen.  Blocks *)
(* are numbered; block b starts at address b * BLOCK_SIZE.                 *)
(***************************************************************************)
EXTENDS BasePrefetcher, FiniteSets

CONSTANTS
  Last,               \* the last block of physical memory
  DEGREE, DISTANCE,   \* blocks fetched by one access, and how far ahead
  mshrs,              \* entries of the MSHR queue
  Programs            \* what runs: the blocks it accesses, start to end; how
                      \* often; whether it walks through them in order, each
                      \* once the memory is quiet, with nothing evicted; and
                      \* whether the cache is set to prefetchOnAccess, to
                      \* notify the prefetcher of every access

VARIABLES
  program,   \* the member of Programs, which does not change
  blk,       \* per block: absent, or the marks of the block in the cache
  mshr,      \* per block: "free", or who asked for it first
  pf,        \* the queue of prefetch requests
  accessed,  \* history: the blocks accessed so far
  misses,    \* history: those that were neither cached nor on their way
  count,     \* accesses so far
  fatal      \* the interface ended the simulation

vars == <<program, blk, mshr, pf, accessed, misses, count, fatal>>

Block == 0 .. Last

(* HWPrefetched is the cache's own mark, cleared by the first access; Flag *)
(* is the bit of set_prefetch_bit.                                         *)
Marks == {"HWPrefetched", "Flag"}
Absent == {"absent"}

in_cache(b) == b \in Block /\ blk[b] # Absent

Busy == {b \in Block : mshr[b] # "free"}
isFull == Cardinality(Busy) >= mshrs

TypeOK ==
  /\ program \in Programs
  /\ blk \in [Block -> {Absent} \cup SUBSET Marks]
  /\ mshr \in [Block -> {"free", "demand", "prefetch"}]
  /\ Len(pf) <= prefetcher_size /\ InSeq(pf) \subseteq Block
  /\ accessed \subseteq Block /\ misses \subseteq accessed
  /\ count \in 0 .. program.accesses
  /\ fatal \in BOOLEAN

Init ==
  /\ program \in Programs
  /\ blk = [b \in Block |-> Absent]
  /\ mshr = [b \in Block |-> "free"]
  /\ pf = << >>
  /\ accessed = {} /\ misses = {} /\ count = 0
  /\ fatal = FALSE

-----------------------------------------------------------------------------
(* The addresses of prefetch_several, in order.                            *)
prefetch_several(b) ==
  SelectSeq([i \in 1 .. DEGREE |-> b + (i - 1 + DISTANCE)], LAMBDA c : ~in_cache(c))

(* prefetch_access: a miss, or a hit on a block with the prefetch bit.     *)
prefetch_access(b) ==
  IF ~in_cache(b) \/ "Flag" \in blk[b] THEN prefetch_several(b) ELSE << >>

(* issue_prefetch hands a block on, or ends the simulation.                *)
TooLarge(cands) == \E i \in 1 .. Len(cands) : cands[i] > Last

(* BasePrefetcher::notify for an access to block b.                        *)
notify(b) ==
  LET cands == prefetch_access(b)
  IN  IF TooLarge(cands) THEN fatal' = TRUE /\ UNCHANGED pf
      ELSE fatal' = FALSE /\ pf' = Enqueue(DropQueued(pf, b), cands)

(* External: the program.                                                  *)
Issues(b) ==
  /\ ~fatal /\ count < program.accesses /\ b \in program.start .. program.end
  /\ program.walk => b = program.start + count /\ pf = << >> /\ Busy = {}
  /\ count' = count + 1
  /\ accessed' = accessed \cup {b}

\* A bug the cache might have: the prefetcher does not hear of the first use
HitUnheard(b) ==
  /\ Issues(b) /\ in_cache(b)
  /\ IF program.prefetchOnAccess THEN notify(b) ELSE UNCHANGED <<pf, fatal>>
  /\ blk' = [blk EXCEPT ![b] = @ \ {"HWPrefetched"}]
  /\ UNCHANGED <<mshr, misses>>

(* timingAccess of a cached block: the prefetcher hears of every access,   *)
(* or of the first one to a block that a prefetch brought in.              *)
Hit(b) ==
  /\ Issues(b) /\ in_cache(b)
  /\ IF program.prefetchOnAccess \/ "HWPrefetched" \in blk[b]
     THEN notify(b) ELSE UNCHANGED <<pf, fatal>>
  /\ blk' = [blk EXCEPT ![b] = @ \ {"HWPrefetched"}]
  /\ UNCHANGED <<mshr, misses>>

(* The block is on its way already: the prefetcher hears nothing.          *)
MSHRHit(b) ==
  /\ Issues(b) /\ ~in_cache(b) /\ mshr[b] # "free"
  /\ UNCHANGED <<blk, mshr, pf, misses, fatal>>

Miss(b) ==
  /\ ~in_cache(b) /\ mshr[b] = "free" /\ ~isFull
  /\ Issues(b)
  /\ mshr' = [mshr EXCEPT ![b] = "demand"]
  /\ misses' = misses \cup {b}
  /\ notify(b)
  /\ UNCHANGED blk

(* getNextMSHR: prefetches leave the queue until one is for a block that   *)
(* is neither cached nor has an MSHR; it gets one.                         *)
Wanted(b) == ~in_cache(b) /\ mshr[b] = "free"

SendPrefetch(n) ==
  /\ ~fatal /\ ~isFull
  /\ Wanted(pf[n]) /\ \A i \in 1 .. n - 1 : ~Wanted(pf[i])
  /\ mshr' = [mshr EXCEPT ![pf[n]] = "prefetch"]
  /\ pf' = SubSeq(pf, n + 1, Len(pf))
  /\ UNCHANGED <<blk, accessed, misses, count, fatal>>

DropUnwanted ==
  /\ ~fatal /\ ~isFull /\ pf # << >>
  /\ \A i \in 1 .. Len(pf) : ~Wanted(pf[i])
  /\ pf' = << >>
  /\ UNCHANGED <<blk, mshr, accessed, misses, count, fatal>>

\* A bug prefetch_complete might have: the bit is not set
MarksWithoutFlag(who) == IF who = "prefetch" THEN {"HWPrefetched"} ELSE {}

(* The fill of a prefetch marks the block, and prefetch_complete sets its  *)
(* bit.                                                                    *)
FillMarks(who) == IF who = "prefetch" THEN {"HWPrefetched", "Flag"} ELSE {}

Fill(b) ==
  /\ ~fatal /\ mshr[b] # "free"
  /\ blk' = [blk EXCEPT ![b] = FillMarks(mshr[b])]
  /\ mshr' = [mshr EXCEPT ![b] = "free"]
  /\ UNCHANGED <<pf, accessed, misses, count, fatal>>

(* External: the replacement of a block.                                   *)
Evict(b) ==
  /\ ~fatal /\ ~program.walk /\ in_cache(b)
  /\ blk' = [blk EXCEPT ![b] = Absent]
  /\ UNCHANGED <<mshr, pf, accessed, misses, count, fatal>>

Next ==
  /\ UNCHANGED program
  /\ \/ \E b \in Block : Hit(b) \/ MSHRHit(b) \/ Miss(b) \/ Fill(b) \/ Evict(b)
     \/ \E n \in 1 .. Len(pf) : SendPrefetch(n)
     \/ DropUnwanted

Spec == Init /\ [][Next]_vars

-----------------------------------------------------------------------------
(* Every block the prefetcher asks for, queued or on its way, lies         *)
(* DISTANCE to DISTANCE + DEGREE - 1 blocks beyond one the program has     *)
(* accessed, and is asked for once (inPrefetch: "Guaranteed to only be one *)
(* match, we always check before inserting").                              *)
AheadOfProgram ==
  /\ NoRepeats(pf)
  /\ \A b \in InSeq(pf) \cup {c \in Block : mshr[c] = "prefetch"} :
        \E a \in accessed : b - a \in DISTANCE .. DISTANCE + DEGREE - 1

(* A program that walks memory in order, each access once the memory is    *)
(* quiet, misses in the first DISTANCE blocks only: the first use of a     *)
(* prefetched block, through the bit of prefetch_complete, keeps the       *)
(* prefetcher ahead for good.                                              *)
OnlyFirstMiss ==
  program.walk => misses \subseteq program.start .. program.start + DISTANCE - 1

(* The bit of prefetch_complete marks blocks that a prefetch brought in    *)
(* and nobody has taken out: a bit without the cache's own mark has been   *)
(* used by an access.                                                      *)
FlagMeansPrefetched ==
  \A b \in Block : in_cache(b) =>
     /\ "HWPrefetched" \in blk[b] => "Flag" \in blk[b]
     /\ "Flag" \in blk[b] /\ "HWPrefetched" \notin blk[b] => b \in accessed

(* A program that stays DISTANCE + DEGREE - 1 blocks away from the end of  *)
(* physical memory does not end the simulation through an address that is  *)
(* too large (fatal "physical address too large" of issue_prefetch).       *)
NoFatal == program.end + DISTANCE + DEGREE - 1 <= Last => ~fatal

(* What is queued, on its way or marked is what the program's accesses     *)
(* called for, and the simulation goes on.                                 *)
SequentialInv == TypeOK /\ AheadOfProgram /\ FlagMeansPrefetched /\ NoFatal
=============================================================================

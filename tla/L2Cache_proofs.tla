---------------------------- MODULE L2Cache_proofs ----------------------------
(***************************************************************************)
(* The theorems about the L2.  First those about its queues, from the      *)
(* inductive invariant of module L2Steps_proofs.  Then what the tags, the  *)
(* MSHR, the first-level caches and the write buffer say of one block: the *)
(* invariant on which the assertions of the L2 and the safety of modified  *)
(* data rest, why every event preserves it, and the theorems that follow.  *)
(***************************************************************************)
EXTENDS L2Steps_proofs, FiniteSetTheorems, WellFoundedInduction

LEMMA BlockFinite == IsFiniteSet(Block)
<1> DEFINE f == [a \in 0 .. MAX_PHYS_MEM_ADDR |-> to_block(a)]
<1>1. f \in Surjection(0 .. MAX_PHYS_MEM_ADDR, Block)
  BY Zenon DEF Block, Surjection
<1>2. IsFiniteSet(0 .. MAX_PHYS_MEM_ADDR)
  BY MaxPhysAssumption, FS_Interval
<1> QED BY <1>1, <1>2, FS_Surjection, Zenon

LEMMA SetFactsHold == SetFacts
<1>1. ASSUME NEW T \in SUBSET Nat, T # {} PROVE \E x \in T : \A y \in T : x <= y
  <2>1. IsWellFoundedOn(OpToRel(<, Nat), Nat)
    BY NatLessThanWellFounded, Zenon
  <2>2. PICK x \in T : \A y \in T : ~(<<y, x>> \in OpToRel(<, Nat))
    BY <1>1, <2>1, WFMin, Zenon
  <2>3. \A y \in T : ~(y < x)
    BY <2>2, Zenon DEF OpToRel
  <2> QED BY <2>3
<1>2. ASSUME NEW S \in SUBSET Block
      PROVE  /\ Cardinality(S) \in Nat
             /\ \A b \in Block \ S : Cardinality(S \cup {b}) = Cardinality(S) + 1
             /\ \A b \in S : Cardinality(S \ {b}) = Cardinality(S) - 1
             /\ \A R \in SUBSET S : Cardinality(R) <= Cardinality(S)
  <2>1. IsFiniteSet(S)
    BY BlockFinite, FS_Subset, Zenon
  <2>2. Cardinality(S) \in Nat
    BY <2>1, FS_CardinalityType, Zenon
  <2>3. \A b \in Block \ S : Cardinality(S \cup {b}) = Cardinality(S) + 1
    BY <2>1, FS_AddElement, Zenon
  <2>4. \A b \in S : Cardinality(S \ {b}) = Cardinality(S) - 1
    BY <2>1, FS_RemoveElement, Zenon
  <2>5. \A R \in SUBSET S : Cardinality(R) <= Cardinality(S)
    BY <2>1, FS_Subset, Zenon
  <2> QED BY <2>2, <2>3, <2>4, <2>5, Zenon
<1>3. Cardinality({}) = 0
  BY FS_EmptySet, Zenon
<1> QED BY <1>1, <1>2, <1>3, Zenon DEF SetFacts

-----------------------------------------------------------------------------
LEMMA SpecIInv == Spec => []IInv
<1>1. Init => IInv
  BY InitIInv, SetFactsHold, Zenon
<1>2. IInv /\ [Next]_vars => IInv'
  BY NextIInv, SetFactsHold, Zenon
<1> QED BY <1>1, <1>2, PTL DEF Spec

(* Every queue of the L2 stays within its capacity, whatever the requests,  *)
(* writebacks and responses; _readyList holds exactly the MSHRs that wait;  *)
(* the cpu side is closed whenever MSHRs, targets or write buffer are       *)
(* exhausted, so that no handler of cache_impl.hh allocates an entry that   *)
(* is not there; and inFlight stays within MAX_QUEUE_SIZE.                  *)
THEOREM L2QueuesSafe == Spec => []QueuesInv
<1>1. IInv => QueuesInv
  BY Zenon DEF IInv, PrefetchInv, QueuesInv
<1> QED BY <1>1, SpecIInv, PTL

(* The prefetch queue and the MSHRs agree that no block has two prefetches  *)
(* (issue_prefetch drops a duplicate; getPrefetch removes what it sends).   *)
THEOREM L2OnePrefetchPerBlock == Spec => []OnePrefetchPerBlock
<1>1. IInv => OnePrefetchPerBlock
  BY Zenon DEF IInv, PrefetchInv
<1> QED BY <1>1, SpecIInv, PTL

(* If every access is reported to the prefetcher (prefetch_on_access), a    *)
(* queued prefetch is worth sending at any time: handleFill and MSHR        *)
(* allocation never leave one behind for a block they bring in.             *)
THEOREM L2QueuedStillWanted == Spec => []QueuedStillWanted
<1>1. IInv => QueuedStillWanted
  BY Zenon DEF IInv, PrefetchInv
<1> QED BY <1>1, SpecIInv, PTL

-----------------------------------------------------------------------------
(* A read cannot be waiting for a block that a first-level cache has       *)
(* modified, and modified data is in one place only; so a writeback that   *)
(* puts its block into the tags never finds demand reads in the MSHR of    *)
(* that block, at most a prefetch.                                         *)
BlockInv(b) ==
  /\ blk[b] # {} => Valid(b)
  /\ Valid(b) /\ ~HasMSHR(b) => "Readable" \in blk[b]
  /\ Valid(b) /\ HasMSHR(b) => "Writable" \notin blk[b]
  /\ Valid(b) /\ mshr[b].cmd = "pending" =>
        IF mshr[b].pf THEN "Readable" \in blk[b] /\ mshr[b].reads = 0
                      ELSE mshr[b].excl # "none" \/ mshr[b].wb
  /\ mshr[b].cmd = "Upgrade" => Valid(b)
  /\ mshr[b].cmd = "Forward" => mshr[b].excl # "none" /\ ~Valid(b)
  /\ HasMSHR(b) => mshr[b].pf \/ mshr[b].reads # 0 \/ mshr[b].excl # "none" \/ mshr[b].wb
  /\ HasMSHR(b) /\ mshr[b].reads # 0 => above[b] # "modified"
  /\ "Dirty" \in blk[b] => above[b] # "modified"
  /\ prefetchOnAccess /\ b \in InSeq(writeBuffer) =>
        ~Valid(b) /\ ~InService(b) /\ above[b] # "modified"
  /\ ~WritebackRaces =>
        /\ ~mshr[b].wb
        /\ Valid(b) /\ HasMSHR(b) =>
              mshr[b].excl # "none" /\ mshr[b].cmd \in {"pending", "Upgrade"}

CopiesInv == /\ \A b \in Block : BlockInv(b)
             /\ ~WritebackRaces => aborted = "no"

LEMMA InitCopiesInv == Init => CopiesInv
<1> SUFFICES ASSUME Init PROVE CopiesInv
  OBVIOUS
<1>1. aborted = "no" /\ InSeq(writeBuffer) = {}
  BY DEF Init, InSeq
<1>2. ASSUME NEW b \in Block PROVE BlockInv(b)
  <2>1. blk[b] = {} /\ mshr[b].cmd = "free" /\ ~mshr[b].wb
    BY Zenon DEF Init, NoMSHR
  <2> QED BY <1>1, <2>1, Zenon DEF BlockInv, Valid, HasMSHR
<1> QED BY <1>1, <1>2, Zenon DEF CopiesInv

(* The MSHR that getNextMSHR chooses is the head of readyList.             *)
LEMMA ReadyHead ==
  ASSUME TypeOK, ReadyListExact,
         \E miss, write \in BOOLEAN : ReadyTimes(miss, write) /\ NextIsMiss(miss, write)
  PROVE  /\ readyList # << >> /\ Head(readyList) \in Block
         /\ mshr[Head(readyList)].cmd = "pending"
<1>1. readyList # << >>
  BY Zenon DEF ReadyTimes, NextIsMiss
<1>2. Len(readyList) \in Nat /\ Len(readyList) # 0 /\ Head(readyList) = readyList[1]
  BY <1>1 DEF TypeOK
<1>3. Head(readyList) \in InSeq(readyList)
  BY <1>2 DEF InSeq
<1> QED BY <1>1, <1>3, Zenon DEF ReadyListExact

LEMMA AppendInSeq ==
  ASSUME NEW s \in Seq(Block), NEW x \in Block
  PROVE  InSeq(Append(s, x)) = InSeq(s) \cup {x}
<1> DEFINE t == Append(s, x)
<1>1. Len(s) \in Nat /\ Len(t) = Len(s) + 1 /\ t[Len(s) + 1] = x /\ \A i \in 1 .. Len(s) : t[i] = s[i]
  OBVIOUS
<1> HIDE DEF t
<1>2. ASSUME NEW y \in InSeq(t) PROVE y \in InSeq(s) \cup {x}
  <2>1. PICK i \in 1 .. Len(t) : y = t[i] BY DEF InSeq
  <2> QED BY <1>1, <2>1 DEF InSeq
<1>3. ASSUME NEW y \in InSeq(s) PROVE y \in InSeq(t)
  <2>1. PICK i \in 1 .. Len(s) : y = s[i] BY DEF InSeq
  <2>2. i \in 1 .. Len(t) /\ y = t[i] BY <1>1, <2>1
  <2> QED BY <2>2, Zenon DEF InSeq
<1>4. x \in InSeq(t)
  <2>1. Len(s) + 1 \in 1 .. Len(t) BY <1>1
  <2> QED BY <1>1, <2>1, Zenon DEF InSeq
<1> QED BY <1>2, <1>3, <1>4, Zenon DEF t

LEMMA EraseInSeq ==
  ASSUME NEW s \in Seq(Block), NEW k \in 1 .. Len(s)
  PROVE  InSeq(erase(s, k)) \subseteq InSeq(s)
<1>1. /\ Len(erase(s, k)) = Len(s) - 1
      /\ \A i \in 1 .. Len(s) - 1 : erase(s, k)[i] = s[IF i < k THEN i ELSE i + 1]
  BY EraseAt, Zenon
<1>2. ASSUME NEW i \in 1 .. Len(s) - 1 PROVE erase(s, k)[i] \in InSeq(s)
  <2>1. (IF i < k THEN i ELSE i + 1) \in 1 .. Len(s)
    BY <1>1
  <2> QED BY <1>1, <2>1, Zenon DEF InSeq
<1> QED BY <1>1, <1>2, Zenon DEF InSeq

(* A block whose tags, MSHR and copy above stay as they are.               *)
LEMMA BlockKept ==
  ASSUME NEW x \in Block, BlockInv(x), blk'[x] = blk[x], mshr'[x] = mshr[x],
         above'[x] = above[x], x \in InSeq(writeBuffer') => x \in InSeq(writeBuffer)
  PROVE  BlockInv(x)'
BY Zenon DEF BlockInv, Valid, HasMSHR, InService

(* What the type invariant says of one block.                              *)
LEMMA BlockType ==
  ASSUME TypeOK, NEW x \in Block
  PROVE  /\ blk[x] \in SUBSET Status /\ mshr[x] \in MSHRType
         /\ mshr[x].pf \in BOOLEAN /\ mshr[x].reads \in Nat /\ mshr[x].wb \in BOOLEAN
         /\ mshr[x].excl \in {"none", "ReadEx", "Upgrade"}
         /\ mshr[x].cmd \in {"free", "pending", "Read", "ReadEx", "Upgrade", "Forward"}
<1>1. blk[x] \in SUBSET Status /\ mshr[x] \in MSHRType
  BY Zenon DEF TypeOK
<1> QED BY <1>1, NumTargetAssumption DEF MSHRType

LEMMA NoMSHRFields ==
  /\ NoMSHR.pf = FALSE /\ NoMSHR.reads = 0 /\ NoMSHR.excl = "none"
  /\ NoMSHR.wb = FALSE /\ NoMSHR.cmd = "free"
BY Zenon DEF NoMSHR

LEMMA HitCopies ==
  ASSUME TypeOK, CopiesInv, NEW b \in Block, NEW kind \in Kind, NEW cands, Hit(b, kind, cands)
  PROVE  CopiesInv'
<1>1. Satisfies(b, kind) /\ UNCHANGED <<mshr, writeBuffer, aborted>>
  BY Zenon DEF Hit
<1>2. /\ blk'[b] = AfterHit(blk[b], kind) \ {"HWPrefetched"}
      /\ kind = "Read" => above'[b] = "shared"
      /\ \A x \in Block \ {b} : blk'[x] = blk[x] /\ above'[x] = above[x]
  <2>1. /\ blk' = [[blk EXCEPT ![b] = AfterHit(@, kind)] EXCEPT ![b] = @ \ {"HWPrefetched"}]
        /\ above' = [above EXCEPT ![b] = IF kind = "Read" THEN "shared" ELSE "modified"]
    BY Zenon DEF Hit
  <2> QED BY <2>1, Zenon DEF TypeOK
<1>3. ASSUME NEW x \in Block \ {b} PROVE BlockInv(x)'
  BY <1>1, <1>2, BlockKept, Zenon DEF CopiesInv
<1>4. BlockInv(b)'
  <2>0. BlockInv(b)
    BY Zenon DEF CopiesInv
  <2>1. CASE kind = "Read"
    <3>1. Valid(b) /\ "Readable" \in blk[b] /\ above'[b] = "shared"
          /\ blk'[b] = (blk[b] \ {"Writable"}) \ {"HWPrefetched"}
      BY <1>1, <1>2, <2>1, Zenon DEF Satisfies, AfterHit
    <3> QED BY <1>1, <2>0, <3>1, Zenon DEF BlockInv, Valid, HasMSHR, InService
  <2>2. CASE kind # "Read"
    <3>1. Valid(b) /\ "Writable" \in blk[b] /\ blk'[b] = {}
      BY <1>1, <1>2, <2>2, Zenon DEF Satisfies, AfterHit
    <3>2. ~HasMSHR(b) /\ (prefetchOnAccess => b \notin InSeq(writeBuffer))
      BY <2>0, <3>1, Zenon DEF BlockInv
    <3> QED BY <1>1, <2>0, <3>1, <3>2, Zenon DEF BlockInv, Valid, HasMSHR, InService
  <2> QED BY <2>1, <2>2, Zenon
<1> QED BY <1>1, <1>3, <1>4, Zenon DEF CopiesInv

LEMMA MSHRHitCopies ==
  ASSUME TypeOK, CopiesInv, NEW b \in Block, NEW kind \in Kind, MSHRHit(b, kind)
  PROVE  CopiesInv'
<1> DEFINE target == IF kind = "Read" THEN [mshr[b] EXCEPT !.reads = @ + 1]
                                      ELSE [mshr[b] EXCEPT !.excl = kind]
<1>1. /\ MayRequest(b, kind) /\ ~Satisfies(b, kind) /\ HasMSHR(b)
      /\ mshr' = [mshr EXCEPT ![b] = target]
      /\ UNCHANGED <<blk, writeBuffer, above, aborted>>
  BY Zenon DEF MSHRHit, AddTarget
<1>2. mshr[b] \in MSHRType /\ mshr[b].reads \in Nat /\ BlockInv(b) /\ mshr[b].excl = "none"
  BY <1>1, BlockType, Zenon DEF CopiesInv, MayRequest
<1>3. /\ target.pf = mshr[b].pf /\ target.wb = mshr[b].wb /\ target.cmd = mshr[b].cmd
      /\ kind = "Read" => target.reads = mshr[b].reads + 1 /\ target.excl = mshr[b].excl
      /\ kind # "Read" => target.reads = mshr[b].reads /\ target.excl = kind
  BY <1>2, Zenon DEF MSHRType
<1> HIDE DEF target
<1>4. mshr'[b] = target /\ \A x \in Block \ {b} : mshr'[x] = mshr[x]
  BY <1>1, Zenon DEF TypeOK
<1>5. ASSUME NEW x \in Block \ {b} PROVE BlockInv(x)'
  BY <1>1, <1>4, BlockKept, Zenon DEF CopiesInv
<1>6. BlockInv(b)'
  <2>1. CASE kind = "Read"
    <3>1. above[b] # "modified" /\ (Valid(b) => "Readable" \notin blk[b])
      BY <1>1, <2>1, Zenon DEF MayRequest, Satisfies
    <3>2. Valid(b) => ~(mshr[b].cmd = "pending" /\ mshr[b].pf)
      BY <1>2, <3>1, Zenon DEF BlockInv
    <3>3. mshr'[b].reads # 0
      BY <1>2, <1>3, <1>4, <2>1
    <3>4. /\ mshr'[b].pf = mshr[b].pf /\ mshr'[b].wb = mshr[b].wb /\ mshr'[b].cmd = mshr[b].cmd
          /\ mshr'[b].excl = mshr[b].excl
      BY <1>3, <1>4, <2>1, Zenon
    <3> QED BY <1>1, <1>2, <3>1, <3>2, <3>3, <3>4, Zenon DEF BlockInv, Valid, HasMSHR, InService
  <2>2. CASE kind # "Read"
    <3>1. kind # "none"
      BY Zenon DEF Kind
    <3> QED BY <1>1, <1>2, <1>3, <1>4, <2>2, <3>1, Zenon DEF BlockInv, Valid, HasMSHR, InService
  <2> QED BY <2>1, <2>2, Zenon
<1> QED BY <1>1, <1>5, <1>6, Zenon DEF CopiesInv

LEMMA MissCopies ==
  ASSUME TypeOK, CopiesInv, NEW b \in Block, NEW kind \in Kind, NEW cands, Miss(b, kind, cands)
  PROVE  CopiesInv'
<1> DEFINE m == IF kind = "Read" THEN [NoMSHR EXCEPT !.reads = 1, !.cmd = "pending"]
                                 ELSE [NoMSHR EXCEPT !.excl = kind, !.cmd = "pending"]
<1>1. /\ MayRequest(b, kind) /\ ~Satisfies(b, kind) /\ ~HasMSHR(b)
      /\ blk' = [blk EXCEPT ![b] = @ \ {"Readable"}]
      /\ mshr' = [mshr EXCEPT ![b] = m]
      /\ UNCHANGED <<writeBuffer, above, aborted>>
  BY Zenon DEF Miss
<1>2. /\ m.pf = FALSE /\ m.wb = FALSE /\ m.cmd = "pending"
      /\ kind = "Read" => m.reads = 1 /\ m.excl = "none"
      /\ kind # "Read" => m.reads = 0 /\ m.excl = kind /\ kind # "none"
  BY Zenon DEF NoMSHR, Kind
<1> HIDE DEF m
<1>3. /\ mshr'[b] = m /\ blk'[b] = blk[b] \ {"Readable"}
      /\ \A x \in Block \ {b} : mshr'[x] = mshr[x] /\ blk'[x] = blk[x]
  BY <1>1, Zenon DEF TypeOK
<1>4. ASSUME NEW x \in Block \ {b} PROVE BlockInv(x)'
  BY <1>1, <1>3, BlockKept, Zenon DEF CopiesInv
<1>5. BlockInv(b)'
  <2>0. BlockInv(b)
    BY Zenon DEF CopiesInv
  <2>1. CASE kind = "Read"
    <3>1. ~Valid(b) /\ above[b] # "modified"
      BY <1>1, <2>0, <2>1, Zenon DEF MayRequest, Satisfies, BlockInv
    <3>2. blk'[b] = {}
      BY <1>3, <2>0, <3>1, Zenon DEF BlockInv
    <3>3. /\ "Valid" \notin blk'[b] /\ "Readable" \notin blk'[b] /\ "Dirty" \notin blk'[b]
          /\ mshr'[b].cmd = "pending" /\ mshr'[b].reads = 1 /\ mshr'[b].wb = FALSE
          /\ 1 # 0 /\ above'[b] # "modified"
      BY <1>1, <1>2, <1>3, <2>1, <3>1, <3>2
    <3> QED BY <1>1, <3>2, <3>3, Zenon DEF BlockInv, Valid, HasMSHR, InService
  <2>2. CASE kind # "Read"
    <3>1. Valid(b) => "Writable" \notin blk[b]
      BY <1>1, <2>2, Zenon DEF Satisfies
    <3> QED BY <1>1, <1>2, <1>3, <2>0, <2>2, <3>1, Zenon DEF BlockInv, Valid, HasMSHR, InService
  <2> QED BY <2>1, <2>2, Zenon
<1> QED BY <1>1, <1>4, <1>5, Zenon DEF CopiesInv

(* The tags and the write buffer when block b takes the frame of v.        *)
LEMMA InstallFact ==
  ASSUME TypeOK, NEW b \in Block, NEW v \in Block, NEW status, blk' = Install(b, v, status)
  PROVE  /\ blk'[b] = status /\ (v # b => blk'[v] = {})
         /\ \A x \in Block \ {b, v} : blk'[x] = blk[x]
BY Zenon DEF Install, TypeOK

LEMMA VictimQueued ==
  ASSUME TypeOK, NEW b \in Block, NEW v \in Block, NEW clear, WritebackVictim(b, v, clear)
  PROVE  IF v # b /\ "Dirty" \in blk[v]
         THEN InSeq(writeBuffer') = InSeq(writeBuffer) \cup {v}
         ELSE writeBuffer' = writeBuffer
<1>1. writeBuffer \in Seq(Block)
  BY Zenon DEF TypeOK
<1>2. writeBuffer' = IF v # b /\ "Dirty" \in blk[v] THEN Append(writeBuffer, v) ELSE writeBuffer
  BY Zenon DEF WritebackVictim
<1>3. InSeq(Append(writeBuffer, v)) = InSeq(writeBuffer) \cup {v}
  BY <1>1, AppendInSeq, Zenon
<1> QED BY <1>2, <1>3, Zenon

(* Every block but b, when b takes the frame of v.                         *)
LEMMA EvictCopies ==
  ASSUME TypeOK, CopiesInv, NEW b \in Block, NEW v \in Block, NEW status, NEW clear,
         Replaceable(b, v), blk' = Install(b, v, status), WritebackVictim(b, v, clear),
         \A x \in Block \ {b} : mshr'[x] = mshr[x] /\ above'[x] = above[x]
  PROVE  \A x \in Block \ {b} : BlockInv(x)'
<1>1. TAKE x \in Block \ {b}
<1>2. BlockInv(x) /\ mshr'[x] = mshr[x] /\ above'[x] = above[x]
  BY Zenon DEF CopiesInv
<1>3. CASE x # v
  <2>1. blk'[x] = blk[x]
    BY <1>3, InstallFact
  <2>2. x \in InSeq(writeBuffer') => x \in InSeq(writeBuffer)
    BY <1>3, VictimQueued, Zenon
  <2> QED BY <1>2, <2>1, <2>2, BlockKept, Zenon
<1>4. CASE x = v
  <2>1. blk'[x] = {} /\ ~HasMSHR(x)
    BY <1>4, InstallFact, Zenon DEF Replaceable
  <2>2. x \in InSeq(writeBuffer') => x \in InSeq(writeBuffer) \/ "Dirty" \in blk[x]
    BY <1>4, VictimQueued, Zenon
  <2> QED BY <1>2, <2>1, <2>2, Zenon DEF BlockInv, Valid, HasMSHR, InService
<1> QED BY <1>3, <1>4, Zenon

LEMMA WritebackHitCopies ==
  ASSUME TypeOK, CopiesInv, NEW b \in Block, WritebackHit(b)
  PROVE  CopiesInv'
<1>1. Valid(b) /\ UNCHANGED <<mshr, writeBuffer, aborted>>
  BY Zenon DEF WritebackHit
<1>2. /\ blk'[b] = (blk[b] \cup {"Dirty"}) \ {"HWPrefetched"} /\ above'[b] = "none"
      /\ \A x \in Block \ {b} : blk'[x] = blk[x] /\ above'[x] = above[x]
  <2>1. /\ blk' = [[blk EXCEPT ![b] = @ \cup {"Dirty"}] EXCEPT ![b] = @ \ {"HWPrefetched"}]
        /\ above' = [above EXCEPT ![b] = "none"]
    BY Zenon DEF WritebackHit
  <2> QED BY <2>1, Zenon DEF TypeOK
<1>3. ASSUME NEW x \in Block \ {b} PROVE BlockInv(x)'
  BY <1>1, <1>2, BlockKept, Zenon DEF CopiesInv
<1>4. BlockInv(b)'
  <2>1. BlockInv(b)
    BY Zenon DEF CopiesInv
  <2> QED BY <1>1, <1>2, <2>1, Zenon DEF BlockInv, Valid, HasMSHR, InService
<1> QED BY <1>1, <1>3, <1>4, Zenon DEF CopiesInv

LEMMA WritebackInsertCopies ==
  ASSUME TypeOK, CopiesInv, NEW b \in Block, NEW v \in Victims(b), WritebackInsert(b, v)
  PROVE  CopiesInv'
<1>0. v \in Block
  BY VictimsType, Zenon
<1>1. /\ MayWriteBack(b) /\ ~Valid(b) /\ Replaceable(b, v) /\ WritebackVictim(b, v, {})
      /\ blk' = Install(b, v, {"Valid", "Readable", "Dirty"})
      /\ UNCHANGED <<mshr, aborted>>
  BY Zenon DEF WritebackInsert
<1>2. above'[b] = "none" /\ \A x \in Block \ {b} : above'[x] = above[x]
  BY Zenon DEF WritebackInsert, TypeOK
<1>3. \A x \in Block \ {b} : BlockInv(x)'
  BY <1>0, <1>1, <1>2, EvictCopies, Zenon
<1>4. BlockInv(b)'
  <2>1. blk'[b] = {"Valid", "Readable", "Dirty"}
    BY <1>0, <1>1, InstallFact, Zenon
  <2>2. BlockInv(b) /\ above[b] = "modified" /\ mshr[b].excl = "none"
        /\ (WritebackRaces \/ ~HasMSHR(b))
    BY <1>1, Zenon DEF CopiesInv, MayWriteBack
  <2>3. prefetchOnAccess => b \notin InSeq(writeBuffer')
    <3>1. prefetchOnAccess => b \notin InSeq(writeBuffer)
      BY <2>2, Zenon DEF BlockInv
    <3> QED BY <1>0, <1>1, <3>1, VictimQueued, Zenon
  <2>4. HasMSHR(b) => mshr[b].reads = 0 /\ (mshr[b].pf \/ mshr[b].wb) /\ mshr[b].cmd # "Forward"
    BY <2>2, Zenon DEF BlockInv, HasMSHR
  <2> QED BY <1>1, <1>2, <2>1, <2>2, <2>3, <2>4, Zenon DEF BlockInv, Valid, HasMSHR, InService
<1> QED BY <1>1, <1>3, <1>4, Zenon DEF CopiesInv

LEMMA WritebackForwardCopies ==
  ASSUME TypeOK, CopiesInv, NEW b \in Block, NEW v \in Victims(b), WritebackForward(b, v)
  PROVE  CopiesInv'
<1>1. MayWriteBack(b) /\ ~Valid(b) /\ UNCHANGED <<blk, aborted>>
  BY Zenon DEF WritebackForward
<1>2. above'[b] = "none" /\ \A x \in Block \ {b} : above'[x] = above[x]
  BY Zenon DEF WritebackForward, TypeOK
<1>3. BlockInv(b) /\ mshr[b] \in MSHRType /\ blk[b] = {}
  BY <1>1, BlockType, Zenon DEF CopiesInv, BlockInv
<1>4. CASE HasMSHR(b)
  <2> DEFINE target == [mshr[b] EXCEPT !.wb = TRUE]
  <2>1. mshr' = [mshr EXCEPT ![b] = target] /\ UNCHANGED writeBuffer
    BY <1>4, Zenon DEF WritebackForward, AddTarget
  <2>2. /\ target.cmd = mshr[b].cmd /\ target.pf = mshr[b].pf /\ target.wb = TRUE
        /\ target.reads = mshr[b].reads /\ target.excl = mshr[b].excl
    BY <1>3, Zenon DEF MSHRType
  <2> HIDE DEF target
  <2>3. mshr'[b] = target /\ \A x \in Block \ {b} : mshr'[x] = mshr[x]
    BY <2>1, Zenon DEF TypeOK
  <2>4. WritebackRaces
    BY <1>1, <1>4, Zenon DEF MayWriteBack
  <2>5. ASSUME NEW x \in Block \ {b} PROVE BlockInv(x)'
    BY <1>1, <1>2, <2>1, <2>3, BlockKept, Zenon DEF CopiesInv
  <2>6. BlockInv(b)'
    BY <1>1, <1>2, <1>3, <2>1, <2>2, <2>3, <2>4, Zenon DEF BlockInv, Valid, HasMSHR, InService
  <2> QED BY <1>1, <2>5, <2>6, Zenon DEF CopiesInv
<1>5. CASE ~HasMSHR(b)
  <2>1. writeBuffer' = Append(writeBuffer, b) /\ UNCHANGED mshr
    BY <1>5, Zenon DEF WritebackForward
  <2>2. InSeq(writeBuffer') = InSeq(writeBuffer) \cup {b}
    BY <2>1, AppendInSeq, Zenon DEF TypeOK
  <2>3. ASSUME NEW x \in Block \ {b} PROVE BlockInv(x)'
    BY <1>1, <1>2, <2>1, <2>2, BlockKept, Zenon DEF CopiesInv
  <2>4. BlockInv(b)'
    BY <1>1, <1>2, <1>3, <1>5, <2>1, Zenon DEF BlockInv, Valid, HasMSHR, InService
  <2> QED BY <1>1, <2>3, <2>4, Zenon DEF CopiesInv
<1> QED BY <1>4, <1>5, Zenon

LEMMA SendMissCopies ==
  ASSUME TypeOK, ReadyListExact, CopiesInv, NEW accept \in BOOLEAN, SendMiss(accept)
  PROVE  CopiesInv'
<1>1. /\ \E miss, write \in BOOLEAN : ReadyTimes(miss, write) /\ NextIsMiss(miss, write)
      /\ UNCHANGED <<blk, writeBuffer, above, aborted>>
  BY Zenon DEF SendMiss
<1>2. PICK c \in Block : c = Head(readyList) /\ mshr[c].cmd = "pending" /\ readyList # << >>
  BY <1>1, ReadyHead, Zenon
<1>3. ~(Valid(c) /\ mshr[c].pf) /\ UNCHANGED <<blk, writeBuffer, above, aborted>>
  BY <1>2, Zenon DEF SendMiss
<1>4. mshr[c] \in MSHRType /\ BlockInv(c)
  BY <1>2, BlockType, Zenon DEF CopiesInv
<1>5. prefetchOnAccess => c \notin InSeq(writeBuffer)
  <2>1. PICK miss, write \in BOOLEAN : ReadyTimes(miss, write) /\ NextIsMiss(miss, write)
    BY <1>1, Zenon
  <2>2. prefetchOnAccess => ~Queued(writeBuffer, c)
    BY <1>2, <2>1, Zenon DEF ReadyTimes, NextIsMiss
  <2> QED BY <2>2, Zenon DEF Queued, InSeq
<1>6. CASE accept
  <2>1. mshr' = [mshr EXCEPT ![c].cmd = getBusPacket(c)]
    BY <1>2, <1>6, Zenon DEF SendMiss
  <2>2. /\ mshr'[c].cmd = getBusPacket(c) /\ mshr'[c].pf = mshr[c].pf
        /\ mshr'[c].reads = mshr[c].reads /\ mshr'[c].excl = mshr[c].excl
        /\ mshr'[c].wb = mshr[c].wb
        /\ \A x \in Block \ {c} : mshr'[x] = mshr[x]
    BY <1>2, <1>4, <2>1, Zenon DEF TypeOK, MSHRType
  <2>3. ASSUME NEW x \in Block \ {c} PROVE BlockInv(x)'
    BY <1>3, <2>2, BlockKept, Zenon DEF CopiesInv
  <2>4. BlockInv(c)'
    <3>1. CASE Valid(c)
      <4>1. getBusPacket(c) = "Upgrade"
        BY <3>1, Zenon DEF getBusPacket
      <4> QED BY <1>2, <1>3, <1>4, <1>5, <2>2, <3>1, <4>1, Zenon DEF BlockInv, Valid, HasMSHR, InService
    <3>2. CASE ~Valid(c)
      <4>1. /\ getBusPacket(c) \in {"Forward", "ReadEx", "Read"}
            /\ getBusPacket(c) = "Forward" => mshr[c].excl = "Upgrade"
        BY <3>2, Zenon DEF getBusPacket
      <4> QED BY <1>2, <1>3, <1>4, <1>5, <2>2, <3>2, <4>1, Zenon DEF BlockInv, Valid, HasMSHR, InService
    <3> QED BY <3>1, <3>2, Zenon
  <2> QED BY <1>3, <2>3, <2>4, Zenon DEF CopiesInv
<1>7. CASE ~accept
  <2>1. UNCHANGED mshr
    BY <1>7, Zenon DEF SendMiss
  <2> QED BY <1>3, <2>1, BlockKept, Zenon DEF CopiesInv
<1> QED BY <1>6, <1>7, Zenon

LEMMA BailOutCopies == ASSUME TypeOK, ReadyListExact, CopiesInv, BailOut PROVE CopiesInv'
<1>1. PICK c \in Block : c = Head(readyList) /\ mshr[c].cmd = "pending"
  BY ReadyHead, Zenon DEF BailOut
<1> DEFINE rest == [mshr[c] EXCEPT !.pf = FALSE]
<1>2. /\ Valid(c) /\ mshr[c].pf /\ UNCHANGED <<blk, writeBuffer, above, aborted>>
      /\ IF getNumTargets(rest) = 0 THEN mshr' = [mshr EXCEPT ![c] = NoMSHR]
                                    ELSE mshr' = [mshr EXCEPT ![c] = rest]
  BY <1>1, Zenon DEF BailOut
<1>3. mshr[c] \in MSHRType /\ BlockInv(c) /\ mshr[c].reads \in Nat /\ mshr[c].wb \in BOOLEAN
  BY <1>1, BlockType, Zenon DEF CopiesInv
<1>4. /\ rest.pf = FALSE /\ rest.reads = mshr[c].reads /\ rest.excl = mshr[c].excl
      /\ rest.wb = mshr[c].wb /\ rest.cmd = mshr[c].cmd
  BY <1>3, Zenon DEF MSHRType
<1> HIDE DEF rest
<1>5. "Readable" \in blk[c] /\ mshr[c].reads = 0 /\ "Writable" \notin blk[c]
  BY <1>1, <1>2, <1>3, Zenon DEF BlockInv, HasMSHR
<1>6. getNumTargets(rest) = 0 <=> mshr[c].excl = "none" /\ ~mshr[c].wb
  BY <1>3, <1>4, <1>5 DEF getNumTargets
<1>7. \A x \in Block \ {c} : mshr'[x] = mshr[x]
  BY <1>2, Zenon DEF TypeOK
<1>8. ASSUME NEW x \in Block \ {c} PROVE BlockInv(x)'
  BY <1>2, <1>7, BlockKept, Zenon DEF CopiesInv
<1>9. BlockInv(c)'
  <2>1. CASE getNumTargets(rest) = 0
    <3>1. mshr'[c] = NoMSHR
      BY <1>1, <1>2, <2>1, Zenon DEF TypeOK
    <3> QED BY <1>1, <1>2, <1>3, <1>5, <3>1, NoMSHRFields, Zenon DEF BlockInv, Valid, HasMSHR, InService
  <2>2. CASE getNumTargets(rest) # 0
    <3>1. mshr'[c] = rest
      BY <1>1, <1>2, <2>2, Zenon DEF TypeOK
    <3> QED BY <1>1, <1>2, <1>3, <1>4, <1>5, <1>6, <2>2, <3>1, Zenon DEF BlockInv, Valid, HasMSHR, InService
  <2> QED BY <2>1, <2>2, Zenon
<1> QED BY <1>2, <1>8, <1>9, Zenon DEF CopiesInv

LEMMA SendWriteCopies ==
  ASSUME TypeOK, CopiesInv, NEW accept \in BOOLEAN, SendWrite(accept)
  PROVE  CopiesInv'
<1>1. UNCHANGED <<blk, mshr, above, aborted>>
  BY Zenon DEF SendWrite
<1>2. InSeq(writeBuffer') \subseteq InSeq(writeBuffer)
  <2>1. PICK i \in 1 .. Len(writeBuffer) :
          writeBuffer' = erase(writeBuffer, i) \/ writeBuffer' = writeBuffer
    BY Zenon DEF SendWrite
  <2>2. InSeq(erase(writeBuffer, i)) \subseteq InSeq(writeBuffer)
    BY EraseInSeq, Zenon DEF TypeOK
  <2> QED BY <2>1, <2>2, Zenon
<1> QED BY <1>1, <1>2, BlockKept, Zenon DEF CopiesInv

LEMMA SendPrefetchCopies ==
  ASSUME TypeOK, ReadyListExact, CopiesInv, NEW n \in 1 .. Len(pf), NEW accept \in BOOLEAN, SendPrefetch(n, accept)
  PROVE  CopiesInv'
<1>1. PICK c \in Block : c = pf[n]
  BY DEF TypeOK
<1> DEFINE m == [NoMSHR EXCEPT !.pf = TRUE, !.cmd = IF accept THEN "Read" ELSE "pending"]
<1>2. /\ PrefetchTurn(n) /\ Wanted(c) /\ mshr' = [mshr EXCEPT ![c] = m]
      /\ UNCHANGED <<blk, writeBuffer, above, aborted>>
  BY <1>1, Zenon DEF SendPrefetch
<1>3. prefetchOnAccess => c \notin InSeq(writeBuffer)
  <2>1. n \in 1 .. n
    BY DEF TypeOK
  <2> QED BY <1>1, <1>2, <2>1, Zenon DEF PrefetchTurn, Queued, InSeq
<1>4. /\ m.pf = TRUE /\ m.reads = 0 /\ m.excl = "none" /\ m.wb = FALSE
      /\ m.cmd \in {"Read", "pending"}
  BY Zenon DEF NoMSHR
<1> HIDE DEF m
<1>5. mshr'[c] = m /\ \A x \in Block \ {c} : mshr'[x] = mshr[x]
  BY <1>1, <1>2, Zenon DEF TypeOK
<1>6. ASSUME NEW x \in Block \ {c} PROVE BlockInv(x)'
  BY <1>2, <1>5, BlockKept, Zenon DEF CopiesInv
<1>7. BlockInv(c)'
  <2>1. BlockInv(c) /\ ~Valid(c)
    BY <1>1, <1>2, Zenon DEF CopiesInv, Wanted
  <2> QED BY <1>2, <1>3, <1>4, <1>5, <2>1, Zenon DEF BlockInv, Valid, HasMSHR, InService
<1> QED BY <1>2, <1>6, <1>7, Zenon DEF CopiesInv

(* The block that is answered, when handleResponse has freed its MSHR.     *)
LEMMA FinishCopies ==
  ASSUME TypeOK, CopiesInv, NEW b \in Block, Answered(b), Finish(b),
         blk'[b] = {} \/ blk'[b] = Filled(mshr[b]),
         b \in InSeq(writeBuffer') => b \in InSeq(writeBuffer)
  PROVE  /\ BlockInv(b)'
         /\ \A x \in Block \ {b} : mshr'[x] = mshr[x] /\ above'[x] = above[x]
         /\ aborted' = aborted
<1>1. /\ mshr'[b] = NoMSHR /\ \A x \in Block \ {b} : mshr'[x] = mshr[x] /\ above'[x] = above[x]
      /\ aborted' = aborted
  BY Zenon DEF Finish, TypeOK
<1>2. /\ blk'[b] # {} => "Valid" \in blk'[b] /\ "Readable" \in blk'[b]
      /\ "Dirty" \notin blk'[b]
  BY DEF Filled
<1>3. prefetchOnAccess => b \notin InSeq(writeBuffer')
  BY Zenon DEF CopiesInv, BlockInv, Answered
<1>4. BlockInv(b)'
  BY <1>1, <1>2, <1>3, NoMSHRFields, Zenon DEF BlockInv, Valid, HasMSHR, InService
<1> QED BY <1>1, <1>4, Zenon

LEMMA RespondCopies ==
  ASSUME TypeOK, CopiesInv, NEW b \in Block, Respond(b)
  PROVE  CopiesInv'
<1>0. BlockInv(b)
  BY Zenon DEF CopiesInv
<1>1. CASE RespondInPlace(b)
  <2>1. /\ Answered(b) /\ Finish(b) /\ UNCHANGED writeBuffer
        /\ blk' = IF mshr[b].cmd = "Forward" THEN blk ELSE [blk EXCEPT ![b] = Filled(mshr[b])]
    BY <1>1, Zenon DEF RespondInPlace
  <2>2. /\ blk'[b] = {} \/ blk'[b] = Filled(mshr[b])
        /\ \A x \in Block \ {b} : blk'[x] = blk[x]
    <3>1. mshr[b].cmd = "Forward" => blk[b] = {}
      BY <1>0, Zenon DEF BlockInv
    <3> QED BY <2>1, <3>1, Zenon DEF TypeOK
  <2>3. /\ BlockInv(b)' /\ aborted' = aborted
        /\ \A x \in Block \ {b} : mshr'[x] = mshr[x] /\ above'[x] = above[x]
    BY <2>1, <2>2, FinishCopies, Zenon
  <2>4. ASSUME NEW x \in Block \ {b} PROVE BlockInv(x)'
    BY <2>1, <2>2, <2>3, BlockKept, Zenon DEF CopiesInv
  <2> QED BY <2>3, <2>4, Zenon DEF CopiesInv
<1>2. ASSUME NEW v \in Victims(b), RespondAndFill(b, v) PROVE CopiesInv'
  <2>0. v \in Block
    BY VictimsType, Zenon
  <2>1. /\ Answered(b) /\ Finish(b) /\ Replaceable(b, v) /\ WritebackVictim(b, v, Unblocks(b))
        /\ blk' = Install(b, v, Filled(mshr[b]))
    BY <1>2, Zenon DEF RespondAndFill
  <2>2. blk'[b] = Filled(mshr[b])
    BY <2>0, <2>1, InstallFact, Zenon
  <2>3. b \in InSeq(writeBuffer') => b \in InSeq(writeBuffer)
    BY <2>0, <2>1, VictimQueued, Zenon
  <2>4. /\ BlockInv(b)' /\ aborted' = aborted
        /\ \A x \in Block \ {b} : mshr'[x] = mshr[x] /\ above'[x] = above[x]
    BY <2>1, <2>2, <2>3, FinishCopies, Zenon
  <2>5. \A x \in Block \ {b} : BlockInv(x)'
    BY <2>0, <2>1, <2>4, EvictCopies, Zenon
  <2> QED BY <2>4, <2>5, Zenon DEF CopiesInv
<1>3. ASSUME NEW v \in Victims(b), RespondUncached(b, v) PROVE CopiesInv'
  <2>1. Answered(b) /\ Finish(b) /\ ~Valid(b) /\ UNCHANGED <<blk, writeBuffer>>
    BY <1>3, Zenon DEF RespondUncached, NeedsFrame
  <2>2. blk'[b] = {}
    BY <1>0, <2>1, Zenon DEF BlockInv
  <2>3. /\ BlockInv(b)' /\ aborted' = aborted
        /\ \A x \in Block \ {b} : mshr'[x] = mshr[x] /\ above'[x] = above[x]
    BY <2>1, <2>2, FinishCopies, Zenon
  <2>4. ASSUME NEW x \in Block \ {b} PROVE BlockInv(x)'
    BY <2>1, <2>3, BlockKept, Zenon DEF CopiesInv
  <2> QED BY <2>3, <2>4, Zenon DEF CopiesInv
<1> QED BY <1>1, <1>2, <1>3, Zenon DEF Respond

(* Without races, a victim with an MSHR always waits for an upgrade.       *)
LEMMA NoAllocationAbort ==
  ASSUME CopiesInv, ~WritebackRaces, NEW b \in Block, NEW v \in Victims(b)
  PROVE  ~AllocationAborts(b, v)
<1> SUFFICES ASSUME v # b, HasMSHR(v) PROVE ReplacementAsserts(v)
  BY Zenon DEF AllocationAborts, Replaceable
<1>1. v \in Block /\ Valid(v)
  BY Zenon DEF Victims
<1>2. BlockInv(v)
  BY <1>1, Zenon DEF CopiesInv
<1> QED BY <1>1, <1>2, Zenon DEF BlockInv, ReplacementAsserts, needsExclusive

LEMMA AbortCopies ==
  ASSUME CopiesInv, WritebackRaces, NEW where, Abort(where)
  PROVE  CopiesInv'
<1>1. UNCHANGED <<blk, mshr, above, writeBuffer>>
  BY Zenon DEF Abort
<1> QED BY <1>1, BlockKept, Zenon DEF CopiesInv

LEMMA NextCopiesInv ==
  ASSUME TypeOK, ReadyListExact, CopiesInv, [Next]_vars
  PROVE  CopiesInv'
<1>1. CASE Request
  <2>1. CASE RefuseRequest
    <3>1. UNCHANGED <<blk, mshr, above, writeBuffer, aborted>>
      BY <2>1, Zenon DEF RefuseRequest
    <3> QED BY <3>1, BlockKept, Zenon DEF CopiesInv
  <2> QED BY <1>1, <2>1, HitCopies, MSHRHitCopies, MissCopies, Zenon DEF Request
<1>2. CASE Writeback
  <2>1. ASSUME NEW b \in Block, NEW v \in Victims(b), WritebackAborts(b, v) PROVE CopiesInv'
    BY <2>1, NoAllocationAbort, AbortCopies, Zenon DEF WritebackAborts
  <2> QED BY <1>2, <2>1, WritebackHitCopies, WritebackInsertCopies, WritebackForwardCopies, Zenon
          DEF Writeback
<1>3. CASE sendPacket
  <2>1. ASSUME NEW n \in 1 .. Len(pf), DiscardPrefetches(n) PROVE CopiesInv'
    <3>1. UNCHANGED <<blk, mshr, above, writeBuffer, aborted>>
      BY <2>1, Zenon DEF DiscardPrefetches
    <3> QED BY <3>1, BlockKept, Zenon DEF CopiesInv
  <2> QED BY <1>3, <2>1, BailOutCopies, SendMissCopies, SendWriteCopies, SendPrefetchCopies, Zenon
          DEF sendPacket
<1>4. CASE handleResponse
  <2>1. ASSUME NEW b \in Block, NEW v \in Victims(b), ResponseAborts(b, v) PROVE CopiesInv'
    <3>1. BlockInv(b)
      BY Zenon DEF CopiesInv
    <3>2. WritebackRaces
      BY <2>1, <3>1, NoAllocationAbort, Zenon DEF ResponseAborts, BlockInv
    <3> QED BY <2>1, <3>2, AbortCopies, Zenon DEF ResponseAborts
  <2> QED BY <1>4, <2>1, RespondCopies, Zenon DEF handleResponse
<1>5. CASE UNCHANGED vars
  <2>1. UNCHANGED <<blk, mshr, above, writeBuffer, aborted>>
    BY <1>5, Zenon DEF vars
  <2> QED BY <2>1, BlockKept, Zenon DEF CopiesInv
<1> QED BY <1>1, <1>2, <1>3, <1>4, <1>5, Zenon DEF Next

(* Without races, a block that is no longer dirty has been put into the    *)
(* write buffer or handed to a first-level cache.                          *)
LEMMA NextKeepsDirty ==
  ASSUME TypeOK, CopiesInv, ~WritebackRaces, Next
  PROVE  \A b \in Block : "Dirty" \in blk[b] /\ "Dirty" \notin blk'[b]
                           => b \in InSeq(writeBuffer') \/ above'[b] = "modified"
<1> DEFINE Kept(x) == "Dirty" \in blk[x] /\ "Dirty" \notin blk'[x]
                      => x \in InSeq(writeBuffer') \/ above'[x] = "modified"
<1> SUFFICES \A x \in Block : Kept(x)
  OBVIOUS
<1>1. ASSUME NEW b \in Block, NEW kind \in Kind, NEW cands, Hit(b, kind, cands)
      PROVE  \A x \in Block : Kept(x)
  <2>1. /\ blk' = [[blk EXCEPT ![b] = AfterHit(@, kind)] EXCEPT ![b] = @ \ {"HWPrefetched"}]
        /\ above' = [above EXCEPT ![b] = IF kind = "Read" THEN "shared" ELSE "modified"]
    BY <1>1, Zenon DEF Hit
  <2>2. /\ blk'[b] = AfterHit(blk[b], kind) \ {"HWPrefetched"}
        /\ kind # "Read" => above'[b] = "modified"
        /\ \A x \in Block \ {b} : blk'[x] = blk[x]
    BY <2>1, Zenon DEF TypeOK
  <2> QED BY <2>2, Zenon DEF AfterHit
<1>2. ASSUME NEW b \in Block, NEW kind \in Kind, NEW cands, Miss(b, kind, cands)
      PROVE  \A x \in Block : Kept(x)
  <2>1. blk' = [blk EXCEPT ![b] = @ \ {"Readable"}]
    BY <1>2, Zenon DEF Miss
  <2> QED BY <2>1, Zenon DEF TypeOK
<1>3. ASSUME NEW b \in Block, WritebackHit(b) PROVE \A x \in Block : Kept(x)
  <2>1. blk' = [[blk EXCEPT ![b] = @ \cup {"Dirty"}] EXCEPT ![b] = @ \ {"HWPrefetched"}]
    BY <1>3, Zenon DEF WritebackHit
  <2> QED BY <2>1, Zenon DEF TypeOK
<1>4. ASSUME NEW b \in Block, NEW v \in Victims(b), NEW status, NEW clear, ~Valid(b),
             blk' = Install(b, v, status), WritebackVictim(b, v, clear)
      PROVE  \A x \in Block : Kept(x)
  <2>0. v \in Block
    BY VictimsType, Zenon
  <2>1. blk[b] = {}
    BY <1>4, Zenon DEF CopiesInv, BlockInv
  <2>2. \A x \in Block \ {b, v} : blk'[x] = blk[x]
    BY <1>4, <2>0, InstallFact, Zenon
  <2>3. v # b /\ "Dirty" \in blk[v] => v \in InSeq(writeBuffer')
    BY <1>4, <2>0, VictimQueued, Zenon
  <2> QED BY <2>1, <2>2, <2>3, Zenon
<1>5. ASSUME NEW b \in Block, RespondInPlace(b) PROVE \A x \in Block : Kept(x)
  <2>1. /\ Answered(b) /\ Finish(b)
        /\ blk' = IF mshr[b].cmd = "Forward" THEN blk ELSE [blk EXCEPT ![b] = Filled(mshr[b])]
    BY <1>5, Zenon DEF RespondInPlace
  <2>2. \A x \in Block \ {b} : blk'[x] = blk[x]
    BY <2>1, Zenon DEF TypeOK
  <2>3. "Dirty" \in blk[b] => above'[b] = "modified"
    <3>1. "Dirty" \in blk[b] => mshr[b].excl # "none"
      BY <2>1, Zenon DEF CopiesInv, BlockInv, Answered, InService, HasMSHR
    <3> QED BY <2>1, <3>1, Zenon DEF Finish, TypeOK
  <2> QED BY <2>2, <2>3, Zenon
<1>6. ASSUME UNCHANGED blk PROVE \A x \in Block : Kept(x)
  BY <1>6, Zenon
<1>7. CASE Request
  <2>1. RefuseRequest => UNCHANGED blk
    BY Zenon DEF RefuseRequest
  <2>2. \A b \in Block, kind \in Kind : MSHRHit(b, kind) => UNCHANGED blk
    BY Zenon DEF MSHRHit
  <2> HIDE DEF Kept
  <2> QED BY <1>1, <1>2, <1>6, <1>7, <2>1, <2>2, Zenon DEF Request
<1>8. CASE Writeback
  <2>1. ASSUME NEW b \in Block, NEW v \in Victims(b), WritebackInsert(b, v)
        PROVE  \A x \in Block : Kept(x)
    <3>1. /\ ~Valid(b) /\ WritebackVictim(b, v, {})
          /\ blk' = Install(b, v, {"Valid", "Readable", "Dirty"})
      BY <2>1, Zenon DEF WritebackInsert
    <3> HIDE DEF Kept
    <3> QED BY <1>4, <3>1, Zenon
  <2>2. \A b \in Block : \A v \in Victims(b) :
          WritebackForward(b, v) \/ WritebackAborts(b, v) => UNCHANGED blk
    BY Zenon DEF WritebackForward, WritebackAborts, Abort
  <2> HIDE DEF Kept
  <2> QED BY <1>3, <1>6, <1>8, <2>1, <2>2, Zenon DEF Writeback
<1>9. CASE sendPacket
  <2>1. /\ BailOut => UNCHANGED blk
        /\ \A accept \in BOOLEAN : SendMiss(accept) \/ SendWrite(accept) => UNCHANGED blk
        /\ \A accept \in BOOLEAN, n \in 1 .. Len(pf) : SendPrefetch(n, accept) => UNCHANGED blk
        /\ \A n \in 1 .. Len(pf) : DiscardPrefetches(n) => UNCHANGED blk
    BY Zenon DEF BailOut, SendMiss, SendWrite, SendPrefetch, DiscardPrefetches
  <2> HIDE DEF Kept
  <2> QED BY <1>6, <1>9, <2>1, Zenon DEF sendPacket
<1>10. CASE handleResponse
  <2>1. ASSUME NEW b \in Block, NEW v \in Victims(b), RespondAndFill(b, v)
        PROVE  \A x \in Block : Kept(x)
    <3>1. /\ ~Valid(b) /\ WritebackVictim(b, v, Unblocks(b))
          /\ blk' = Install(b, v, Filled(mshr[b]))
      BY <2>1, Zenon DEF RespondAndFill, NeedsFrame
    <3> HIDE DEF Kept
    <3> QED BY <1>4, <3>1, Zenon
  <2>2. \A b \in Block : \A v \in Victims(b) :
          RespondUncached(b, v) \/ ResponseAborts(b, v) => UNCHANGED blk
    BY Zenon DEF RespondUncached, ResponseAborts, Abort
  <2> HIDE DEF Kept
  <2> QED BY <1>5, <1>6, <1>10, <2>1, <2>2, Zenon DEF handleResponse, Respond
<1> HIDE DEF Kept
<1> QED BY <1>7, <1>8, <1>9, <1>10, Zenon DEF Next

-----------------------------------------------------------------------------
LEMMA SpecCopiesInv == Spec => []CopiesInv
<1>1. IInv /\ CopiesInv /\ [Next]_vars => CopiesInv'
  BY NextCopiesInv, Zenon DEF IInv
<1> QED BY <1>1, InitCopiesInv, SpecIInv, PTL DEF Spec

(* The assertions of timingAccess, getBusPacket and handleFill cannot      *)
(* fail: whatever races with it, a block that is present is readable or    *)
(* waits for exclusivity, and an upgrade in service keeps its block.       *)
THEOREM L2MissAssertions == Spec => []MissAssertionsHold
<1>1. IInv /\ CopiesInv => MissAssertionsHold
  <2> SUFFICES ASSUME IInv, CopiesInv, NEW b \in Block
               PROVE  /\ Valid(b) /\ ~HasMSHR(b) => "Readable" \in blk[b]
                      /\ Valid(b) /\ mshr[b].cmd = "pending" /\ ~mshr[b].pf
                           => needsExclusive(mshr[b]) /\ "Writable" \notin blk[b]
                      /\ mshr[b].cmd = "Upgrade" => Valid(b)
    BY Zenon DEF MissAssertionsHold
  <2> QED BY Zenon DEF CopiesInv, BlockInv, needsExclusive, HasMSHR
<1> QED BY <1>1, SpecIInv, SpecCopiesInv, PTL

(* getTimingPacket never finds the block of a waiting writeback in the     *)
(* tags, if the prefetcher hears of every access.                          *)
THEOREM L2WritebacksNotCached == Spec => []WritebacksNotCached
<1>1. IInv /\ CopiesInv => WritebacksNotCached
  BY DEF CopiesInv, BlockInv, WritebacksNotCached, IInv, TypeOK, InSeq
<1> QED BY <1>1, SpecIInv, SpecCopiesInv, PTL

(* If no first-level cache writes a block back while the L2 has an MSHR    *)
(* for it, neither the assertion of allocateBlock nor the one of           *)
(* makeTimingResponse fails.                                               *)
THEOREM L2NoAbort == ASSUME ~WritebackRaces PROVE Spec => []NoAbort
<1>1. CopiesInv => NoAbort
  BY Zenon DEF CopiesInv, NoAbort
<1> QED BY <1>1, SpecCopiesInv, PTL

(* Under the same condition no step loses modified data: what leaves the   *)
(* tags dirty goes to the write buffer or to a first-level cache.          *)
THEOREM L2DirtyDataPreserved == ASSUME ~WritebackRaces PROVE Spec => DirtyDataPreserved
<1>1. IInv /\ CopiesInv /\ [Next]_vars
      => [\A b \in Block : "Dirty" \in blk[b] /\ "Dirty" \notin blk'[b]
                           => b \in InSeq(writeBuffer') \/ above'[b] = "modified"]_vars
  BY NextKeepsDirty, Zenon DEF IInv
<1> QED BY <1>1, SpecIInv, SpecCopiesInv, PTL DEF Spec, DirtyDataPreserved
=============================================================================

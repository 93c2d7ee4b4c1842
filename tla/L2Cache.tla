------------------------------ MODULE L2Cache ------------------------------
(***************************************************************************)
(* The prefetching second-level cache in timing mode: the DCPT filter, the *)
(* queue of prefetch requests, the tags, the MSHR queue, the write buffer  *)
(* and the two ports (m5/src/mem/cache).  Every action is one event of the *)
(* simulator: a request of a first-level cache, an attempt to send to the  *)
(* memory bus, a response of memory.  The simulator runs one event at a    *)
(* time; which event comes next depends on latencies and on the program,   *)
(* and is left open here, as is the readiness of what waits to be sent.    *)
(*                                                                         *)
(* There is one L2 on the memory bus, so it receives no snoops, memory's   *)
(* responses are exclusive, and a target deferred behind a read is merged  *)
(* into it when the response arrives (MSHR::handleFill).  Errors,          *)
(* uncacheable and locked accesses are not modelled.                       *)
(***************************************************************************)
EXTENDS DCPTFilter, BasePrefetcher

CONSTANTS
  Candidates,         \* lists that an access to a block can pass to prefetch_filter
  numSets, assoc,     \* geometry of the tags
  mshrs,              \* entries of the MSHR queue before it counts as full
  numTarget,          \* targets of one MSHR
  write_buffers,      \* entries of the write buffer before it counts as full
  prefetchOnAccess,   \* notify the prefetcher of every access, or misses only
  WritebackRaces      \* may a first-level cache write a block back while the
                      \* L2 has an MSHR for it?

ASSUME CandidatesAssumption == Candidates \in [Block -> SUBSET Seq(Nat)]
ASSUME GeometryAssumption == numSets \in Nat \ {0} /\ assoc \in Nat \ {0}
ASSUME MSHRsAssumption == mshrs \in Nat \ {0}
ASSUME NumTargetAssumption == numTarget \in Nat /\ numTarget >= 2
ASSUME WriteBuffersAssumption == write_buffers \in Nat \ {0}
ASSUME SwitchAssumption == prefetchOnAccess \in BOOLEAN /\ WritebackRaces \in BOOLEAN

VARIABLES
  in_flight,      \* the prefetcher's own record of outstanding prefetches
  pf,             \* queue of prefetch requests
  blk,            \* status bits of every block; {} if it is not in the tags
  mshr,           \* MSHR of every block
  readyList,      \* blocks whose MSHR waits to be sent, in order
  writeBuffer,    \* blocks whose writeback waits to be sent, in order
  blocked,        \* reasons for which the cpu side refuses requests
  noTargetMSHR,   \* the MSHR that ran out of targets: at most one block
  mustSendRetry,  \* a request was refused and its sender waits for a retry
  waitingOnRetry, \* what the bus refused last: "no", "miss" or "write"
  above,          \* external: how the first-level caches hold every block
  aborted         \* the assertion that stopped the simulation, or "no"

prefetcherVars == <<in_flight, pf>>
portVars == <<mustSendRetry, waitingOnRetry>>
vars == <<in_flight, pf, blk, mshr, readyList, writeBuffer, blocked,
          noTargetMSHR, mustSendRetry, waitingOnRetry, above, aborted>>

-----------------------------------------------------------------------------
Status == {"Valid", "Readable", "Writable", "Dirty", "HWPrefetched"}

BlockedCause == {"NoMSHRs", "NoWBBuffers", "NoTargets"}

Kind == {"Read", "ReadEx", "Upgrade"}

(* An MSHR: its targets (a prefetch, always the first; a number of reads;  *)
(* at most one exclusive request, always after the reads; a writeback that *)
(* found no room in the tags) and the state of the entry: free, pending in *)
(* readyList, or in service with the command that was sent.                *)
NoMSHR == [pf |-> FALSE, reads |-> 0, excl |-> "none", wb |-> FALSE, cmd |-> "free"]

MSHRType ==
  [pf : BOOLEAN, reads : 0 .. numTarget, excl : {"none", "ReadEx", "Upgrade"},
   wb : BOOLEAN, cmd : {"free", "pending", "Read", "ReadEx", "Upgrade", "Forward"}]

Valid(b) == "Valid" \in blk[b]

HasMSHR(b) == mshr[b].cmd # "free"

\* Mutant: a forwarded upgrade is not recognised when it is answered.
InServiceNoForward(b) == mshr[b].cmd \notin {"free", "pending", "Forward"}

InService(b) == mshr[b].cmd \notin {"free", "pending"}

getNumTargets(m) ==
  m.reads + (IF m.pf THEN 1 ELSE 0) + (IF m.excl = "none" THEN 0 ELSE 1)
          + (IF m.wb THEN 1 ELSE 0)

(* An exclusive target that joins a read in service is deferred, and does  *)
(* not count until the response arrives.                                   *)
needsExclusive(m) == (m.excl # "none" \/ m.wb) /\ m.cmd # "Read"

Allocated(ms) == {b \in Block : ms[b].cmd # "free"}
isFull(ms)    == Cardinality(Allocated(ms)) >= mshrs
WBFull(wb)    == Len(wb) >= write_buffers
-----------------------------------------------------------------------------
Init ==
  /\ in_flight = {}
  /\ pf = << >>
  /\ blk = [b \in Block |-> {}]
  /\ mshr = [b \in Block |-> NoMSHR]
  /\ readyList = << >>
  /\ writeBuffer = << >>
  /\ blocked = {}
  /\ noTargetMSHR = {}
  /\ mustSendRetry = FALSE
  /\ waitingOnRetry = "no"
  /\ above = [b \in Block |-> "none"]
  /\ aborted = "no"

(* clearBlocked for the causes in `clear', then setBlocked for those in    *)
(* `set'.  When the last cause goes, a refused sender is told to retry.    *)
ChangeBlocked(clear, set) ==
  LET left == blocked \ clear
  IN  /\ blocked' = left \cup set
      /\ mustSendRetry' = (mustSendRetry /\ left # {})

(* An assertion of the code fails and ends the simulation.                 *)
Abort(where) ==
  /\ aborted' = where
  /\ UNCHANGED <<in_flight, pf, blk, mshr, readyList, writeBuffer, blocked,
                 noTargetMSHR, mustSendRetry, waitingOnRetry, above>>

(* BasePrefetcher::notify for a request to block b, with the tags and      *)
(* MSHRs the prefetcher sees at that moment.  cands is what the request    *)
(* makes of the DCPT table; it is empty for requests without a program     *)
(* counter, such as writebacks.                                            *)
notify(b, cands, tags, ms) ==
  LET queue    == DropQueued(pf, b)
      unwanted == {c \in Block : "Valid" \in tags[c]} \cup Allocated(ms)
      filtered == prefetch_filter(cands, in_flight, unwanted)
  IN  /\ pf' = Enqueue(queue, issue_prefetches(filtered.prefetches, Len(queue)))
      /\ in_flight' = filtered.in_flight

(* After a satisfied access the prefetcher hears of it if it asked for all *)
(* accesses or if the block was brought in by a prefetch.                  *)
NotifyHit(b, cands, tags) ==
  IF prefetchOnAccess \/ "HWPrefetched" \in tags[b]
  THEN notify(b, cands, tags, mshr)
  ELSE cands = << >> /\ UNCHANGED prefetcherVars

-----------------------------------------------------------------------------
(* Requests of the first-level caches: CpuSidePort::recvTiming and         *)
(* timingAccess.                                                           *)

(* The protocol above the L2: a block that is modified in a first-level    *)
(* cache is supplied by that cache (the L2 sees memInhibitAsserted and     *)
(* does nothing), no request for a block follows an outstanding exclusive  *)
(* one, and an upgrade needs a copy.  A first-level cache may give up a    *)
(* shared copy, or another one ask for the block, without the L2 knowing.  *)
MayRequest(b, kind) ==
  /\ aborted = "no"
  /\ mshr[b].excl = "none"
  /\ IF kind = "Upgrade" THEN above[b] # "none" ELSE above[b] # "modified"

\* Mutant: reads are held to the permission of writes.
SatisfiesWritable(b, kind) == Valid(b) /\ "Writable" \in blk[b]

Satisfies(b, kind) ==
  /\ Valid(b)
  /\ (IF kind = "Read" THEN "Readable" ELSE "Writable") \in blk[b]

(* satisfyCpuSideRequest: a read leaves a shared copy, an exclusive        *)
(* request takes the block away.                                           *)
AfterHit(status, kind) == IF kind = "Read" THEN status \ {"Writable"} ELSE {}

RefuseRequest ==
  /\ aborted = "no"
  /\ blocked # {}
  /\ ~mustSendRetry
  /\ mustSendRetry' = TRUE
  /\ UNCHANGED <<in_flight, pf, blk, mshr, readyList, writeBuffer, blocked,
                 noTargetMSHR, waitingOnRetry, above, aborted>>

Hit(b, kind, cands) ==
  LET tags == [blk EXCEPT ![b] = AfterHit(@, kind)] IN
  /\ MayRequest(b, kind)
  /\ blocked = {}
  /\ Satisfies(b, kind)
  /\ NotifyHit(b, cands, tags)
  /\ blk' = [tags EXCEPT ![b] = @ \ {"HWPrefetched"}]
  /\ above' = [above EXCEPT ![b] = IF kind = "Read" THEN "shared" ELSE "modified"]
  /\ UNCHANGED <<mshr, readyList, writeBuffer, blocked, noTargetMSHR,
                 mustSendRetry, waitingOnRetry, aborted>>

(* MSHR hit: one more target.  The prefetcher is not told.                 *)
AddTarget(b, target) ==
  /\ mshr' = [mshr EXCEPT ![b] = target]
  /\ IF getNumTargets(target) = numTarget
     THEN noTargetMSHR' = {b} /\ ChangeBlocked({}, {"NoTargets"})
     ELSE UNCHANGED <<noTargetMSHR, blocked, mustSendRetry>>

MSHRHit(b, kind) ==
  /\ MayRequest(b, kind)
  /\ blocked = {}
  /\ ~Satisfies(b, kind)
  /\ HasMSHR(b)
  /\ AddTarget(b, IF kind = "Read" THEN [mshr[b] EXCEPT !.reads = @ + 1]
                                   ELSE [mshr[b] EXCEPT !.excl = kind])
  /\ UNCHANGED <<in_flight, pf, blk, readyList, writeBuffer, waitingOnRetry,
                 above, aborted>>

(* A block that is present but not writable stays, unreadable, until the   *)
(* upgrade is answered.                                                    *)
Miss(b, kind, cands) ==
  LET tags == [blk EXCEPT ![b] = @ \ {"Readable"}]
      ms   == [mshr EXCEPT ![b] =
                 IF kind = "Read" THEN [NoMSHR EXCEPT !.reads = 1, !.cmd = "pending"]
                                  ELSE [NoMSHR EXCEPT !.excl = kind, !.cmd = "pending"]]
  IN  /\ MayRequest(b, kind)
      /\ blocked = {}
      /\ ~Satisfies(b, kind)
      /\ ~HasMSHR(b)
      /\ blk' = tags
      /\ mshr' = ms
      /\ readyList' = Append(readyList, b)
      /\ ChangeBlocked({}, IF isFull(ms) THEN {"NoMSHRs"} ELSE {})
      /\ notify(b, cands, tags, ms)
      /\ UNCHANGED <<writeBuffer, noTargetMSHR, waitingOnRetry, above, aborted>>
-----------------------------------------------------------------------------
(* allocateBlock: the frame that block b would take.  Replacement order is *)
(* left open: any valid block of the set, or b itself for a free frame.    *)
extractSet(b) == (b \div BLOCK_SIZE) % numSets

Victims(b) ==
  LET present == {v \in Block \ {b} : Valid(v) /\ extractSet(v) = extractSet(b)}
  IN  present \cup (IF Cardinality(present) < assoc THEN {b} ELSE {})

\* Mutant: the victim's MSHR is not looked up.
ReplaceableAlways(b, v) == TRUE

(* A victim with an MSHR is asserted to wait for an upgrade; then the      *)
(* allocation fails.                                                       *)
Replaceable(b, v) == v = b \/ ~HasMSHR(v)

ReplacementAsserts(v) == "Writable" \notin blk[v] /\ needsExclusive(mshr[v])

AllocationFails(b, v) == ~Replaceable(b, v) /\ ReplacementAsserts(v)

AllocationAborts(b, v) == ~Replaceable(b, v) /\ ~ReplacementAsserts(v)

(* Block b moves into the frame of v; a dirty v goes to the write buffer.  *)
Install(b, v, status) == [blk EXCEPT ![v] = {}, ![b] = status]

\* Mutant: a dirty victim is not written back.
WritebackVictimLost(b, v, clear) ==
  UNCHANGED writeBuffer /\ ChangeBlocked(clear, {})

WritebackVictim(b, v, clear) ==
  LET dirty == v # b /\ "Dirty" \in blk[v]
      wb    == IF dirty THEN Append(writeBuffer, v) ELSE writeBuffer
  IN  /\ writeBuffer' = wb
      /\ ChangeBlocked(clear, IF dirty /\ WBFull(wb) THEN {"NoWBBuffers"} ELSE {})

(* A first-level cache writes its modified copy of b back.                 *)
MayWriteBack(b) ==
  /\ aborted = "no"
  /\ blocked = {}
  /\ above[b] = "modified"
  /\ mshr[b].excl = "none"
  /\ WritebackRaces \/ ~HasMSHR(b)

WritebackHit(b) ==
  LET tags == [blk EXCEPT ![b] = @ \cup {"Dirty"}] IN
  /\ MayWriteBack(b)
  /\ Valid(b)
  /\ NotifyHit(b, << >>, tags)
  /\ blk' = [tags EXCEPT ![b] = @ \ {"HWPrefetched"}]
  /\ above' = [above EXCEPT ![b] = "none"]
  /\ UNCHANGED <<mshr, readyList, writeBuffer, blocked, noTargetMSHR,
                 mustSendRetry, waitingOnRetry, aborted>>

(* The block is put into the tags whether or not an MSHR exists for it.    *)
WritebackInsert(b, v) ==
  LET tags == Install(b, v, {"Valid", "Readable", "Dirty"}) IN
  /\ MayWriteBack(b)
  /\ ~Valid(b)
  /\ Replaceable(b, v)
  /\ blk' = tags
  /\ NotifyHit(b, << >>, tags)
  /\ WritebackVictim(b, v, {})
  /\ above' = [above EXCEPT ![b] = "none"]
  /\ UNCHANGED <<mshr, readyList, noTargetMSHR, waitingOnRetry, aborted>>

(* No frame can be had: the writeback goes to the write buffer, or becomes *)
(* a target of the MSHR of its block.                                      *)
WritebackForward(b, v) ==
  LET wb == Append(writeBuffer, b) IN
  /\ MayWriteBack(b)
  /\ ~Valid(b)
  /\ AllocationFails(b, v)
  /\ above' = [above EXCEPT ![b] = "none"]
  /\ IF HasMSHR(b)
     THEN /\ AddTarget(b, [mshr[b] EXCEPT !.wb = TRUE])
          /\ UNCHANGED <<in_flight, pf, writeBuffer>>
     ELSE /\ writeBuffer' = wb
          /\ ChangeBlocked({}, IF WBFull(wb) THEN {"NoWBBuffers"} ELSE {})
          /\ notify(b, << >>, blk, mshr)
          /\ UNCHANGED <<mshr, noTargetMSHR>>
  /\ UNCHANGED <<blk, readyList, waitingOnRetry, aborted>>

WritebackAborts(b, v) ==
  /\ MayWriteBack(b)
  /\ ~Valid(b)
  /\ AllocationAborts(b, v)
  /\ Abort("allocateBlock")

-----------------------------------------------------------------------------
(* MemSidePort::sendPacket, from a send event or from a retry of the bus.  *)
(* accept is the answer of the bus.                                        *)

Queued(s, b) == \E i \in 1 .. Len(s) : s[i] = b

(* Which heads of readyList and writeBuffer may have reached their ready   *)
(* times.  What was refused before is ready.  A prefetch is ready when it  *)
(* is allocated.  A miss waits as long as a writeback does, so it is never *)
(* ready before an older writeback of its block.                           *)
ReadyTimes(miss, write) ==
  /\ miss => readyList # << >>
  /\ write => writeBuffer # << >>
  /\ waitingOnRetry = "miss" => miss
  /\ waitingOnRetry = "write" => write
  /\ readyList # << >> =>
       LET c == Head(readyList)
       IN  /\ mshr[c].pf => miss
           /\ miss /\ Queued(writeBuffer, c) /\ (prefetchOnAccess \/ ~mshr[c].pf) => write

\* Mutant: a miss may overtake a writeback of its block.
NextIsMissNoConflict(miss, write) ==
  miss /\ (write => ~WBFull(writeBuffer))

(* getNextMSHR: a miss goes first, unless the write buffer is full or      *)
(* holds a writeback of the same block.  The writeback found in the write  *)
(* buffer is then always older than the miss.                              *)
NextIsMiss(miss, write) ==
  miss /\ (write => ~WBFull(writeBuffer) /\ ~Queued(writeBuffer, Head(readyList)))

NextIsWrite(miss, write, i) ==
  /\ write
  /\ \/ ~miss /\ i = 1
     \/ miss /\ WBFull(writeBuffer) /\ i = 1
     \/ /\ miss /\ ~WBFull(writeBuffer)
        /\ writeBuffer[i] = Head(readyList)
        /\ \A j \in 1 .. i - 1 : writeBuffer[j] # Head(readyList)

(* getBusPacket, for the first target of the MSHR of block c.              *)
getBusPacket(c) ==
  LET m == mshr[c]
  IN  IF Valid(c) THEN "Upgrade"
      ELSE IF ~m.pf /\ m.reads = 0 /\ m.excl = "Upgrade" THEN "Forward"
      ELSE IF needsExclusive(m) THEN "ReadEx" ELSE "Read"

SendMiss(accept) ==
  LET c == Head(readyList) IN
  /\ aborted = "no"
  /\ \E miss, write \in BOOLEAN : ReadyTimes(miss, write) /\ NextIsMiss(miss, write)
  /\ ~(Valid(c) /\ mshr[c].pf)
  /\ IF accept
     THEN /\ mshr' = [mshr EXCEPT ![c].cmd = getBusPacket(c)]
          /\ readyList' = Tail(readyList)
          /\ waitingOnRetry' = "no"
     ELSE waitingOnRetry' = "miss" /\ UNCHANGED <<mshr, readyList>>
  /\ UNCHANGED <<in_flight, pf, blk, writeBuffer, blocked, noTargetMSHR,
                 mustSendRetry, above, aborted>>

(* getTimingPacket: the block of a waiting prefetch has been cached in the *)
(* meantime; its target is dropped, and the MSHR with it if it was the     *)
(* only one.  Neither blocked nor the prefetcher hears of it.              *)
BailOut ==
  LET c    == Head(readyList)
      rest == [mshr[c] EXCEPT !.pf = FALSE]
  IN  /\ aborted = "no"
      /\ \E miss, write \in BOOLEAN : ReadyTimes(miss, write) /\ NextIsMiss(miss, write)
      /\ Valid(c) /\ mshr[c].pf
      /\ IF getNumTargets(rest) = 0
         THEN mshr' = [mshr EXCEPT ![c] = NoMSHR] /\ readyList' = Tail(readyList)
         ELSE mshr' = [mshr EXCEPT ![c] = rest] /\ UNCHANGED readyList
      /\ waitingOnRetry' = "no"
      /\ UNCHANGED <<in_flight, pf, blk, writeBuffer, blocked, noTargetMSHR,
                     mustSendRetry, above, aborted>>

SendWrite(accept) ==
  \E miss, write \in BOOLEAN, i \in 1 .. Len(writeBuffer) :
    /\ aborted = "no"
    /\ ReadyTimes(miss, write)
    /\ NextIsWrite(miss, write, i)
    /\ IF accept
       THEN LET wb == erase(writeBuffer, i)
            IN  /\ writeBuffer' = wb
                /\ IF WBFull(writeBuffer) /\ ~WBFull(wb)
                   THEN ChangeBlocked({"NoWBBuffers"}, {})
                   ELSE UNCHANGED <<blocked, mustSendRetry>>
                /\ waitingOnRetry' = "no"
       ELSE /\ waitingOnRetry' = "write"
            /\ UNCHANGED <<writeBuffer, blocked, mustSendRetry>>
    /\ UNCHANGED <<in_flight, pf, blk, mshr, readyList, noTargetMSHR, above, aborted>>
(* getNextMSHR with nothing else ready and a free MSHR: prefetches leave   *)
(* the queue in order, as far as their times have come, until one is for a *)
(* block that is neither cached nor in an MSHR.  A prefetch waits longer   *)
(* than a writeback, so it is not ready before an older writeback of its   *)
(* block.                                                                  *)
Wanted(b) == ~Valid(b) /\ ~HasMSHR(b)

PrefetchTurn(n) ==
  /\ aborted = "no"
  /\ ReadyTimes(FALSE, FALSE)
  /\ ~isFull(mshr)
  /\ prefetchOnAccess => \A i \in 1 .. n : ~Queued(writeBuffer, pf[i])

\* Mutant: a prefetch that takes the last MSHR does not block the cache.
SendPrefetchUnblocked(n, accept) ==
  LET c == pf[n] IN
  /\ PrefetchTurn(n)
  /\ \A i \in 1 .. n - 1 : ~Wanted(pf[i])
  /\ Wanted(c)
  /\ pf' = SubSeq(pf, n + 1, Len(pf))
  /\ mshr' = [mshr EXCEPT ![c] = [NoMSHR EXCEPT !.pf = TRUE,
                                    !.cmd = IF accept THEN "Read" ELSE "pending"]]
  /\ IF accept
     THEN waitingOnRetry' = "no" /\ UNCHANGED readyList
     ELSE waitingOnRetry' = "miss" /\ readyList' = <<c>> \o readyList
  /\ UNCHANGED <<in_flight, blk, writeBuffer, blocked, noTargetMSHR,
                 mustSendRetry, above, aborted>>

SendPrefetch(n, accept) ==
  LET c  == pf[n]
      ms == [mshr EXCEPT ![c] = [NoMSHR EXCEPT !.pf = TRUE,
                                   !.cmd = IF accept THEN "Read" ELSE "pending"]]
  IN  /\ PrefetchTurn(n)
      /\ \A i \in 1 .. n - 1 : ~Wanted(pf[i])
      /\ Wanted(c)
      /\ pf' = SubSeq(pf, n + 1, Len(pf))
      /\ mshr' = ms
      /\ ChangeBlocked({}, IF isFull(ms) THEN {"NoMSHRs"} ELSE {})
      /\ IF accept
         THEN waitingOnRetry' = "no" /\ UNCHANGED readyList
         ELSE waitingOnRetry' = "miss" /\ readyList' = <<c>> \o readyList
      /\ UNCHANGED <<in_flight, blk, writeBuffer, noTargetMSHR, above, aborted>>

DiscardPrefetches(n) ==
  /\ PrefetchTurn(n)
  /\ \A i \in 1 .. n : ~Wanted(pf[i])
  /\ pf' = SubSeq(pf, n + 1, Len(pf))
  /\ UNCHANGED <<in_flight, blk, mshr, readyList, writeBuffer, blocked,
                 noTargetMSHR, mustSendRetry, waitingOnRetry, above, aborted>>

-----------------------------------------------------------------------------
(* handleResponse: the answer to the command in service for block b.       *)

(* The block after the fill and after all targets have been served.        *)
Filled(m) ==
  IF m.excl # "none" THEN {}
  ELSE {"Valid", "Readable"} \cup (IF m.reads = 0 THEN {"Writable"} ELSE {})
                            \cup (IF m.pf THEN {"HWPrefetched"} ELSE {})

(* Everything but the tags and the write buffer: targets answered, the     *)
(* prefetcher told, the MSHR freed.                                        *)
Finish(b) ==
  /\ mshr' = [mshr EXCEPT ![b] = NoMSHR]
  /\ noTargetMSHR' = noTargetMSHR \ {b}
  /\ in_flight' = IF mshr[b].pf THEN in_flight \ {b} ELSE in_flight
  /\ above' = [above EXCEPT ![b] = IF mshr[b].excl # "none" THEN "modified"
                                   ELSE IF mshr[b].reads > 0 THEN "shared" ELSE @]
  /\ UNCHANGED <<pf, readyList, waitingOnRetry, aborted>>

\* Mutant: the freed targets are not reported.
UnblocksNoMSHRs(b) ==
  IF isFull(mshr) /\ ~isFull([mshr EXCEPT ![b] = NoMSHR]) THEN {"NoMSHRs"} ELSE {}

Unblocks(b) ==
  (IF b \in noTargetMSHR THEN {"NoTargets"} ELSE {}) \cup
  (IF isFull(mshr) /\ ~isFull([mshr EXCEPT ![b] = NoMSHR]) THEN {"NoMSHRs"} ELSE {})

Answered(b) == aborted = "no" /\ InService(b)
NeedsFrame(b) == mshr[b].cmd # "Forward" /\ ~Valid(b)

(* The block is there (an upgrade, or a block that was written back while  *)
(* its prefetch was in service), or the response is only passed on.        *)
RespondInPlace(b) ==
  /\ Answered(b)
  /\ ~mshr[b].wb
  /\ ~NeedsFrame(b)
  /\ blk' = IF mshr[b].cmd = "Forward" THEN blk
            ELSE [blk EXCEPT ![b] = Filled(mshr[b])]
  /\ Finish(b)
  /\ ChangeBlocked(Unblocks(b), {})
  /\ UNCHANGED writeBuffer

RespondAndFill(b, v) ==
  /\ Answered(b)
  /\ ~mshr[b].wb
  /\ NeedsFrame(b)
  /\ Replaceable(b, v)
  /\ blk' = Install(b, v, Filled(mshr[b]))
  /\ Finish(b)
  /\ WritebackVictim(b, v, Unblocks(b))

(* No frame can be had: tempBlock serves the targets and is dropped.       *)
RespondUncached(b, v) ==
  /\ Answered(b)
  /\ ~mshr[b].wb
  /\ NeedsFrame(b)
  /\ AllocationFails(b, v)
  /\ Finish(b)
  /\ ChangeBlocked(Unblocks(b), {})
  /\ UNCHANGED <<blk, writeBuffer>>

(* A writeback among the targets expects no response: makeTimingResponse   *)
(* asserts that it does.  Or the replacement's assertion fails before.     *)
ResponseAborts(b, v) ==
  /\ Answered(b)
  /\ \/ NeedsFrame(b) /\ AllocationAborts(b, v) /\ Abort("allocateBlock")
     \/ /\ mshr[b].wb
        /\ NeedsFrame(b) => ~AllocationAborts(b, v)
        /\ Abort("makeTimingResponse")

-----------------------------------------------------------------------------
Request ==
  \/ RefuseRequest
  \/ \E b \in Block, kind \in Kind :
       \/ MSHRHit(b, kind)
       \/ \E cands \in Candidates[b] : Hit(b, kind, cands) \/ Miss(b, kind, cands)

Writeback ==
  \E b \in Block :
    \/ WritebackHit(b)
    \/ \E v \in Victims(b) :
         WritebackInsert(b, v) \/ WritebackForward(b, v) \/ WritebackAborts(b, v)

sendPacket ==
  \/ BailOut
  \/ \E accept \in BOOLEAN :
       \/ SendMiss(accept)
       \/ SendWrite(accept)
       \/ \E n \in 1 .. Len(pf) : SendPrefetch(n, accept)
  \/ \E n \in 1 .. Len(pf) : DiscardPrefetches(n)

Respond(b) ==
  \/ RespondInPlace(b)
  \/ \E v \in Victims(b) : RespondAndFill(b, v) \/ RespondUncached(b, v)

handleResponse ==
  \E b \in Block : Respond(b) \/ \E v \in Victims(b) : ResponseAborts(b, v)

Next == Request \/ Writeback \/ sendPacket \/ handleResponse

Spec == Init /\ [][Next]_vars

(* The bus takes every request in the end: each refused port gets its      *)
(* retry in turn.  Memory answers every request.                           *)
Fairness ==
  /\ SF_vars(SendMiss(TRUE))
  /\ SF_vars(SendWrite(TRUE))
  /\ WF_vars(BailOut)
  /\ \A b \in Block : WF_vars(Respond(b))

FairSpec == Spec /\ Fairness
-----------------------------------------------------------------------------
TypeOK ==
  /\ in_flight \in SUBSET Block
  /\ pf \in Seq(Block)
  /\ blk \in [Block -> SUBSET Status]
  /\ mshr \in [Block -> MSHRType]
  /\ readyList \in Seq(Block)
  /\ writeBuffer \in Seq(Block)
  /\ blocked \in SUBSET BlockedCause
  /\ noTargetMSHR \in SUBSET Block
  /\ mustSendRetry \in BOOLEAN
  /\ waitingOnRetry \in {"no", "miss", "write"}
  /\ above \in [Block -> {"none", "shared", "modified"}]
  /\ aborted \in {"no", "allocateBlock", "makeTimingResponse"}

(* The filter of DCPT and the queue of the simulator, kept apart and       *)
(* updated at different times, never let two prefetches of one block       *)
(* exist: a block is queued at most once ("Guaranteed to only be one       *)
(* match", base.cc), not while its prefetch has an MSHR, and in_flight     *)
(* knows of both.                                                          *)
OnePrefetchPerBlock ==
  /\ NoRepeats(pf)
  /\ \A b \in InSeq(pf) : b \in in_flight /\ ~mshr[b].pf
  /\ \A b \in Block : mshr[b].pf => b \in in_flight

(* in_flight is bounded by MAX_QUEUE_SIZE, although one access can add     *)
(* more candidates than it issues; with OnePrefetchPerBlock, so is pf, and *)
(* notify's removal of the oldest entry of a full queue is not reached.    *)
InFlightBounded == Cardinality(in_flight) <= MAX_QUEUE_SIZE

(* When the prefetcher hears of every access, a queued prefetch is still   *)
(* worth sending whenever its turn comes: nothing can have brought the     *)
(* block into the cache or an MSHR without taking it out of the queue.     *)
(* getNextMSHR's test of the tags and MSHRs never discards one.            *)
QueuedStillWanted ==
  prefetchOnAccess => \A b \in InSeq(pf) : Wanted(b)

(* readyList holds exactly the MSHRs that are not in service, once each.   *)
ReadyListExact ==
  /\ NoRepeats(readyList)
  /\ InSeq(readyList) = {b \in Block : mshr[b].cmd = "pending"}

(* The cpu side is closed whenever an MSHR, a target list or the write     *)
(* buffer is full, so no request finds the entry it needs missing; the     *)
(* MSHR queue never holds more than its nominal number of entries.         *)
BlockedWhenFull ==
  /\ isFull(mshr) => "NoMSHRs" \in blocked
  /\ Cardinality(Allocated(mshr)) <= mshrs
  /\ WBFull(writeBuffer) <=> "NoWBBuffers" \in blocked
  /\ "NoTargets" \in blocked <=> noTargetMSHR # {}
  /\ \A b \in noTargetMSHR : HasMSHR(b)
  /\ \A b \in Block : getNumTargets(mshr[b]) >= numTarget => b \in noTargetMSHR
  /\ mustSendRetry => blocked # {}

(* The queues agree with what is in them and stay within their bounds:     *)
(* MSHRQueue with its readyList, the causes for which the cache is blocked *)
(* with the queues that are full, in_flight with MAX_QUEUE_SIZE.           *)
QueuesInv == TypeOK /\ ReadyListExact /\ BlockedWhenFull /\ InFlightBounded

(* The assertions of timingAccess, getBusPacket and handleFill: a block    *)
(* that is present without an MSHR is readable; a waiting MSHR of a        *)
(* present block, unless it is a prefetch about to be dropped, needs       *)
(* exclusivity that the block does not have; an upgrade in service still   *)
(* has its block.                                                          *)
MissAssertionsHold ==
  /\ \A b \in Block : Valid(b) /\ ~HasMSHR(b) => "Readable" \in blk[b]
  /\ \A b \in Block : Valid(b) /\ mshr[b].cmd = "pending" /\ ~mshr[b].pf
                     => needsExclusive(mshr[b]) /\ "Writable" \notin blk[b]
  /\ \A b \in Block : mshr[b].cmd = "Upgrade" => Valid(b)

(* getTimingPacket asserts that a writeback is sent only for a block that  *)
(* is no longer in the tags, although writebacks wait in the buffer while  *)
(* misses, prefetches and writebacks from above bring blocks in.  (A       *)
(* prefetcher that hears only of misses can keep a prefetch queued from    *)
(* before the writeback, which then need not be sent first.)               *)
WritebacksNotCached ==
  prefetchOnAccess => \A b \in InSeq(writeBuffer) : ~Valid(b)

(* The assertions of allocateBlock and makeTimingResponse.                 *)
NoAbort == aborted = "no"

(* The only copy of modified data is never dropped: a dirty block that     *)
(* leaves the tags, or is overwritten by a fill, is in the write buffer or *)
(* has been handed to a first-level cache.                                 *)
DirtyDataPreserved ==
  [][\A b \in Block : "Dirty" \in blk[b] /\ "Dirty" \notin blk'[b]
                     => b \in InSeq(writeBuffer') \/ above'[b] = "modified"]_vars

(* A sender that was refused is told to retry.                             *)
RefusedRequestRetried == []<>(~mustSendRetry \/ aborted # "no")

(* Every MSHR, of a demand or of a prefetch, is answered and freed.        *)
EveryMissAnswered ==
  \A b \in Block : []<>(~HasMSHR(b) \/ aborted # "no")
=============================================================================

# Verification of a prefetcher and of the memory system it runs in

This directory holds TLA+ specifications of the delta-correlating prefetcher in
`src/prefetcher/prefetcher.cc`, of the sequential prefetcher beside it, and of
the parts of the M5 simulator that decide what happens to a memory access: the
second-level cache the prefetchers drive, the snooping caches above, the bus, the
ports, the bridge, physical memory, the default protocol of Ruby and the event
queue. TLC checks the specifications on small instances; TLAPS proves many of the
properties for every value of the constants.

## 1. The system

The repository is a prefetcher written for a course competition, its report, and
a copy of the M5 simulator.

| Part | Source | Role |
|---|---|---|
| DCPT prefetcher | `prefetcher/prefetcher.cc` | table of delta buffers indexed by PC; `delta_correlation`, `prefetch_filter`, `issue_prefetches`; the set `in_flight` |
| Tagged sequential prefetcher | `prefetcher/ts_54.cc` | the blocks ahead of a miss or of a first hit on a prefetched block |
| Prefetch proxy and queue | `m5/src/mem/cache/prefetch/{proxy,base}.cc` | callbacks of the prefetcher; the bounded list `pf` |
| Cache, timing mode | `m5/src/mem/cache/{cache_impl.hh,base.hh,base.cc}` | access, miss, fill, snoop, replacement, blocking, sending |
| MSHRs | `m5/src/mem/cache/{mshr,mshr_queue}.cc` | outstanding misses and their targets; also the write buffer |
| Tags, load locks | `m5/src/mem/cache/{tags/lru.cc,blk.hh}` | lookup, victim, insertion; contexts that loaded a block locked |
| Bus | `m5/src/mem/bus.{cc,hh}`, `base/range_map.hh` | arbitration with a retry list; address ranges to ports |
| Ports, bridge | `m5/src/mem/{tport,bridge}.cc` | queues of packets with ticks, refusals and retries |
| Physical memory | `m5/src/mem/physical.cc` | contents and locked addresses |
| Ruby, MI_example | `m5/src/mem/protocol/MI_example-*.sm` | caches, directory and DMA controllers |
| Event queue | `m5/src/sim/eventq.{cc,hh}` | the order in which everything above happens |
| CPU models, devices, Python | rest of `m5/` | not touched by the prefetcher |

How they interact: a request of a first-level cache reaches
`CpuSidePort::recvTiming` of the L2. If the L2 is blocked it is refused and
retried later. Otherwise `timingAccess` looks in the tags and the MSHRs, and tells
the prefetcher (`BasePrefetcher::notify`), which calls `prefetch_access` through
the proxy. The proxy collects the blocks the prefetcher issues, and `notify`
appends them to `pf`. Whenever the memory side port may send, `getNextMSHR` picks
a miss, a writeback, or, if neither is ready and an MSHR is free, a queued
prefetch, which then also gets an MSHR. The bus accepts, or puts the port on its
retry list. A response fills a frame, evicts a victim, serves the targets, tells
the prefetcher (`prefetch_complete`), frees the MSHR and perhaps unblocks the
cache. Caches on one bus snoop each other's requests.

The simulator runs one event at a time. What makes the code hard to test is the
order of events: the same block can be in the prefetcher's set, in the queue, in
an MSHR, in the write buffer, in the tags and in another cache, and each of these
is updated at a different moment.

## 2. The modules

| Module | Models | State |
|---|---|---|
| `DeltaCorrelation` | `insert_delta`, `delta_correlation`, the narrowing of `addr - last_address` | none, operators |
| `DCPTTable` | `table`, `table_lookup`, `prefetch_access` | `table`, `candidates` |
| `DCPTFilter` | `to_block`, `prefetch_filter`, `issue_prefetches` | none, operators |
| `BasePrefetcher` | the list `pf` in `notify` | none, operators |
| `SequentialPrefetcher` | `ts_54.cc` with the queue, the MSHRs and the prefetch bits it depends on | blocks, marks, queue, MSHRs, program |
| `L2Cache` | composition: filter, queue, tags, MSHRs, write buffer, ports of the L2 | see below |
| `Coherence` | snooping caches on one bus in front of memory, one block | see below |
| `LRU`, `CacheLocks` | a set of frames; load-locked and store-conditional in a cache | `set`, `lockAddr` |
| `PhysicalMemory` | memory and its list of locked addresses | `pmem`, `lockedAddrList` |
| `LLSC` | what load-locked and store-conditional promise; abstract | |
| `Bus`, `BusPortMap` | arbitration; routing | retry list, occupation; range map, port cache, snoop list |
| `TimingPort`, `Bridge` | transmit lists, refusals, retries, negative acknowledgements, drains | lists with ticks, events |
| `MIExample` | cache, directory and DMA controllers of MI_example with their networks | states, messages, data |
| `EventList`, `EventOrder` | what the event queue promises; abstract | ordered list, clock |
| `EventQueue` | the linked lists of `eventq.cc` | head and pointers, flags, clock |
| `MC*` | instances for TLC | histories |
| `*_proofs` | theorems and lemmas; `L2Steps_proofs` has the lemmas of `L2Cache_proofs` about single steps | |

### The prefetchers

A delta buffer is a sequence, newest delta last, as in the deque. Addresses are
numbers modulo `ADDR_MOD` and deltas wrap at `INT_MOD`, the widths of `uint64_t`
and `int`; both are constants. `DCPTTable` has one action for each path through
`prefetch_access`: `Replace` (slot of another PC), `Train` (new address), `Repeat`
(same address, nothing happens). `candidates` is what goes on to
`prefetch_filter`. `SequentialPrefetcher` numbers the blocks; the cache around it
is reduced to what it asks and hears of it.

### L2Cache

| Code | Actions |
|---|---|
| `CpuSidePort::recvTiming` while blocked | `RefuseRequest` |
| `timingAccess` on a read or exclusive request | `Hit`, `MSHRHit`, `Miss` |
| `timingAccess` on a writeback from above | `WritebackHit`, `WritebackInsert`, `WritebackForward`, `WritebackAborts` |
| `MemSidePort::sendPacket` | `SendMiss`, `SendWrite`, `SendPrefetch`, `DiscardPrefetches`, `BailOut` |
| `handleResponse` | `RespondInPlace`, `RespondAndFill`, `RespondUncached`, `ResponseAborts` |

Each action does all that the handler does: a miss also drops the queued prefetch
of its block, runs the filter and appends to `pf`; a fill also evicts, writes
back, clears `noTargetMSHR` and unblocks. Where an assertion of the code can fail,
the action sets `aborted` and the model stops. Abstractions:

- a block is its address and status bits; of data, only where the dirty copy is;
- an MSHR is its multiset of targets (a prefetch, a number of reads, at most one
  exclusive request, a writeback) and the command in service. The order of targets
  is determined: the prefetch is first, the exclusive request last;
- time is left open. `ReadyTimes` says which heads of the two queues may be ready,
  with the three facts the latencies guarantee: what the bus refused is ready
  again, a prefetch is ready when it gets its MSHR, and nothing is ready before an
  older writeback of its block that waited equally long;
- the victim of a replacement is any block of the set (`LRU` is one such choice);
- the candidates of an access come from the constant `Candidates`, a set of lists
  for every block. `DCPTTable` describes which lists there are;
- `above` is what the first-level caches hold: `none`, `shared`, `modified`. It is
  external and limits requests to those a coherent first level makes. That a first
  level is coherent is what `Coherence` is about.

There is one L2 below one bus, so it receives no snoops from memory's side and its
responses are exclusive.

### Coherence

One block, any number of caches, each with its processor. A request gets the bus
(`SendRequest`) and is shown to all other caches and to memory in that step, as
`Bus::recvTiming` does. A cache without a request of its own in service answers or
gives its copy up at once (`handleSnoop`, also from the write buffer); one with a
request in service appends the snoop to the targets of its MSHR, to be served when
the data comes (`Deferred`, `MSHR::handleSnoop`). `handleResponse` fills the copy,
serves all targets in their order, own ones and snoops, and asks again for those
that had to be deferred. `allocateBlock` is an eviction by another block;
`SendWriteback` brings the write buffer's data to memory. Simplifications:

- data is the number of writes it contains, so "current" is "equal to `latest`";
- memory refuses nothing and answers in any order; refusals are the business of
  `Bus` and `TimingPort`;
- a fill that finds no frame (the temporary block) is a free choice for a cache
  without a copy;
- a cache sends the writeback of a block before its MSHR of the same block. The
  code does so because the writeback is older; no step creates a writeback beside
  an MSHR.

`IsLate` singles out a write that joins the targets behind a snooped read. With
`LateWrites = FALSE` there are none, as for processors with one access per address
outstanding; `cpu/memtest/memtest.cc:313` is such a tester. `LateWrites = TRUE` is
the code without that restriction; see the findings.

### The rest

- `CacheLocks` is one set of a first-level cache in atomic mode with the lock
  registers of the processor's contexts. Its history notes when a locked block is
  swapped or replaced.
- `PhysicalMemory` has one action for every kind of access, and a checkpoint with
  its restore.
- `Bus` compares times as the code does: whether `tickNextIdle` has come, and
  whether the event `busIdle` of that tick has run, are separate facts. A device
  that is called back sends within the call, or lets the grant pass. `Restored`
  says that the simulation was restored from a checkpoint.
- `BusPortMap` has the ranges of every device, the map built from them and the
  cache of the last three answers; devices move their ranges at any time.
- `TimingPort` and `Bridge` count ticks from the present. The peer may refuse, and
  may call back before `sendTiming` returns. It makes the timing port's device
  queue another packet; it sends the bridge the request that was nacked, or its
  next one after a response (`cpu/simple/timing.cc:956`), while the bridge still
  has the packet at the front of its queue (`SentAndCalled`, `CallAborts`). It cannot
  do so while the bus retries the bridge's port, as the bus lets nobody else send.
  `Bus` needs no such step: when the receiver sends within a delivery, the bus ends
  in a state that the two packets also lead to one after the other, the second at
  `tickNextIdle` and before the event `busIdle`, or from the retry list.
- `MIExample` has one action per group of transitions of the `.sm` files, with
  queues for the networks. `Systems` is a set of systems explored together. The
  network from the directory to the caches keeps order, but the buffer the directory
  puts its messages in, `forwardFromDir`, is not declared ordered
  (`MI_example-dir.sm:8`): messages keep their order only while none has a shorter
  latency than those ahead of it and Ruby's randomization is off. `system.ordered`
  says whether they do.
- `EventQueue` keeps the pointers of the C++ lists, stale ones included.
  `EventList` is the list it stands for.

## 3. What TLC checks

### Passing runs

| Run | Module | States | Properties |
|---|---|---|---|
| `prefetchers` | `MCPrefetchers` | 1,521,022 | `TableInv`, `RingIsRecentHistory`, `ConstantStridePredicted`, `SequentialInv`, `OnlyFirstMiss` |
| `l2_races` | `MCL2Cache` | 785,862 | `QueuesInv`, `OnePrefetchPerBlock`, `QueuedStillWanted`, `MissAssertionsHold`, `WritebacksNotCached` |
| `l2_live` | `MCL2Cache` | 149,290 | `NoAbort`, `DirtyDataPreserved`, `RefusedRequestRetried`, `EveryMissAnswered` |
| `coherence` | `Coherence` | 188,598 | `CoherenceInv`, `CopiesCurrent`, `ReadsForward`, `EveryRequestAnswered` |
| `interconnect` | `MCInterconnect` | 45,299 | `BusInv`, `NoLostWakeup`, `NoOvertaking`, `EveryPortServed`, `DrainCompletes`, `RoutingInv`, `PortInv`, `OrderKept`, `EverySent`, `BridgeInv`, `BridgeOrderKept`, `BridgeEveryAnswered` |
| `mi` | `MCMIExample` | 91,255 | `ProtocolInv`, `LatestKept`, `NoInvalidTransition`, `DmaReadsLatest`, `EveryRequestDone` |
| `locks_events` | `MCLocksEvents` | 138,640 | `ImplementsLLSC`, `CacheInv`, `CacheSuccessIsAtomic`, `QueueInv`, `ImplementsEventList` |

`MCPrefetchers`, `MCInterconnect` and `MCLocksEvents` hold components that do not share
state; a behaviour picks one of them and explores it while the others stay at
their initial states.

**`prefetchers`**: 2 slots, PCs 0 to 2, 5 addresses, 4 deltas of 3 bits, 5
accesses; for the sequential prefetcher 12 blocks, `DEGREE` 3, `DISTANCE` 2, 2
MSHRs, a queue of 3 and three programs. Two PCs share a slot, so owners change;
some deltas do not fit; the ring fills and goes beyond.

- `RingIsRecentHistory`: a delta buffer is a function of the history of its
  instruction since it took the slot.
- `ConstantStridePredicted`: for a constant stride the candidates are the next
  addresses, in order, without a gap.
- `SequentialInv`: a marked block has been prefetched, prefetches run ahead of the
  program, and the simulation does not end with the fatal error of a prefetch
  beyond memory, for programs that stay away from the end of memory.
- `OnlyFirstMiss`: of a walk through memory only the first blocks miss.

**`l2_races`**: 3 blocks, 1 frame, 2 MSHRs of 2 targets, a write buffer of 2, a
queue of 2, the prefetcher hears of every access, and blocks may be written back
from above at any time. One frame makes every fill evict; two MSHRs and two
targets make both blocking causes frequent; a write buffer of two can hold the
writeback of a missing block without being full, the case in which the order of
`getNextMSHR` matters; the candidates go beyond the last physical address, to
address 0, to cached and to outstanding blocks and to a full `in_flight`. Nothing
is capped: all state is bounded by the code itself, which is part of `QueuesInv`.

- `QueuesInv`: the ready list is exact, so no MSHR is lost or sent twice; a full
  queue implies that requests are refused; `in_flight` is bounded.
- `OnePrefetchPerBlock`: `in_flight`, `pf` and the MSHRs, updated at different
  times, agree about what is being prefetched. Together with the bound on
  `in_flight` it implies that the overflow path of `notify` is not reached when
  `MAX_QUEUE_SIZE <= prefetcher_size`.
- `QueuedStillWanted`: the filter's look at tags and MSHRs does not become stale
  while a prefetch waits in the queue.
- `MissAssertionsHold`, `WritebacksNotCached`: the assertions of `timingAccess`,
  `getBusPacket`, `handleFill` and `getTimingPacket`.

**`l2_live`**: 3 blocks, a write buffer and a prefetch queue of 1, a prefetcher
that hears of misses only (so that queued prefetches become stale), and no block
written back from above while the L2 has an MSHR for it. Then no assertion fails,
dirty data is kept, and every refused request and every miss is served. Deadlock
is checked. Without the condition on writebacks see the findings.

**`coherence`**: 3 caches and 5 accesses between them, 2 targets per MSHR. Three
caches are needed for a snoop of a request whose owner-to-be has itself a snoop to
serve, and five accesses for chains of them with an upgrade at the end.

- `CoherenceInv`: every request on the bus has exactly one answer, on its way or
  promised by a cache that will have the data (`OneSupplier`), and the assertions
  of `timingAccess`, `getBusPacket`, `handleFill` and `allocateBlock` hold.
- `CopiesCurrent`: every copy and every writeback holds all writes so far, so does
  memory if nobody owns the block; there is one owner at most, answers in flight
  included; a writable copy is the only copy.
- `ReadsForward`: a processor never reads an older state than before.
- `EveryRequestAnswered`: no chain of deferred snoops makes caches wait for each
  other.

**`interconnect`**: 4 ports with 2 packets each; 3 devices with ranges over 8
addresses, which may conflict with a range below, above or at address 0; 4 packets with latencies to 2; a bridge with room for one request and
one response, 4 requests, one of them a writeback. `NoLostWakeup` says that while
a port waits something will call it back; `NoOvertaking`, `OrderKept` and
`BridgeOrderKept` are about order, a refused packet keeping its place;
`RoutingInv` says that the port cache agrees with the map and that the map finds the
device that offered the range, both while the ranges in the map do not overlap
(`range_conflict` shows that they may), and that no port snoops twice; `BridgeInv`
that the counters are what is reserved, that a request is in one place, and that a
packet in a queue is going to be sent, also when receivers call back.

**`mi`**: three systems: three caches; a cache and a DMA controller with two words;
two caches and two DMA controllers whose forwarded messages may pass each other. One
copy of the block, no write lost, DMA reads the latest data, every request ends.
`NoInvalidTransition` is claimed for the ordered systems without DMA, or with one
cache and a single DMA request; section 5 says why.

**`locks_events`**: memory with 2 contexts, 3 addresses, 2 values and a granule of 2; a
cache set of 2 frames for 3 blocks. `ImplementsLLSC` is the refinement
`PhysicalMemory => LLSC`. `CacheSuccessIsAtomic` and the lock part of `CacheInv`
hold until a locked block is swapped or replaced, `RecentPresent` until another
cache takes a block. The blocks are symmetric. The event queue has 4 events, 2
priorities and 2 ticks, with schedule, deschedule, reschedule, squash, checkpoint and
restore. `ImplementsEventList` is the refinement `EventQueue => EventList`: flattening
the bins gives the ordered list, events of equal rank last in first out.

Deadlock is not checked where histories end or a failed assertion ends the
simulation (`aborted`).

**Fairness.** Each assumption is about something outside the module and is checked
where that is modelled, as far as it is:

| Module | Assumed | Why |
|---|---|---|
| `L2Cache` | SF of accepted sends; WF of `BailOut` and of the response for each block | the bus retries refused ports in turn (`EveryPortServed`); memory answers; a send event is scheduled whenever something is ready |
| `Coherence` | WF of the bus, the write buffers and memory together: something that waits is served | `EveryPortServed`, `EverySent` |
| `Bus` | WF of time, `busIdle` and the answer to a retry; SF of a delivery in a retry | events are served; a device that is called back returns; a target does not refuse for ever |
| `TimingPort` | WF of time, the send event, the retry; SF of success while waiting | as above, seen from the port |
| `Bridge` | WF of its own steps, time and the responses; SF of a send that is due | as above |
| `MIExample` | WF of message delivery, the directory, memory and the DMA controllers | queues are served every cycle |

Nothing is assumed of processors, devices, first-level caches or evictions.

### Runs in which the code departs from what the repository says

| Run | Property | What happens |
|---|---|---|
| `dcpt_pattern` | `PeriodicPatternPredicted` | the walk through the matched pattern runs towards older deltas, so a repeating pattern is predicted in reverse order |
| `dirty_lost` | `DirtyDataPreserved` | a block that is written back from above while its prefetch is in service is overwritten by the response |
| `stuck_blocked` | `RefusedRequestRetried` | the bail-out of a prefetch frees an MSHR without `clearBlocked`; the cache stays blocked |
| `late_write` | `ReadersInvalidate` | a write joins an MSHR in service behind a snooped read, is done without write permission, and the reader keeps a copy without it |
| `range_conflict` | `ConflictsAreFatal` | a range that overlaps only the next one of the map is inserted beside it, and two ports have the same addresses |

`dirty_lost` and `stuck_blocked` need a prefetch for a block that is modified above
the L2. The filter asks the L2's tags and MSHRs only, and a block leaves the L2's
tags when a first-level cache takes it exclusively, so such prefetches are issued.

## 4. What is proved

All theorems hold for every value of the constants that meets the named
assumptions; the runs above evaluate the `ASSUME`s.

| Module | Theorems |
|---|---|
| `DCPTTable_proofs` | `TableSafe` |
| `L2Cache_proofs` | `L2QueuesSafe`, `L2OnePrefetchPerBlock`, `L2QueuedStillWanted`, `L2MissAssertions`, `L2WritebacksNotCached`, `L2NoAbort`, `L2DirtyDataPreserved` |
| `MIExample_proofs` | `MIProtocol`, `MILatestKept`, `MIDmaReadsLatest`, `MINoInvalidTransition` |
| `Coherence_proofs` | `CoherenceSafe`, `CoherentCopies`, `CoherentReads` (without late writes) |
| `Scheduling_proofs` | `EventListSorted`; `BusSafe`, `BusNoLostWakeup` (of a simulation that was not restored), `BusNoOvertaking` |
| `TimingPort_proofs` | `PortSafe` |
| `Locks_proofs` | `MemoryTypeOK`, `MemoryOneRecord`, `MemoryStoresClearLocks`, `MemoryImplementsLLSC`, `CacheLocksOfBlock`, `CacheSuccessAtomic` |

**The table.** `TableInv` is inductive as it stands. `InsertDeltaType` shows that
`insert_delta` keeps its result within `NUM_DELTAS` elements of `StoredDelta`,
which needs the bound on the old buffer because exactly one element is popped;
`LookupType` shows that `table_lookup` stays within the table.

**The queues of the L2.** Assumptions: sizes are positive, an MSHR has at least two targets,
candidates are lists of addresses. Two targets are needed: with one, a new MSHR
would be full without `noTargetMSHR` being set, because only `AddTarget` sets it.
The first three theorems follow from one inductive invariant, `IInv`, which adds
`TargetsInv` to the properties. That a full queue closes the cpu side is not
inductive alone, for two reasons. A response clears `NoTargets` when its own MSHR
is the one that ran out, which is right only if there is no second one. And the
bail-out of a prefetch frees an MSHR without looking at `noTargetMSHR`, which is
right only if an MSHR that ran out of targets and still has its prefetch has
another target too. `TargetsInv` states both. For the cause `NoMSHRs` only "full
implies blocked" is claimed: the converse is what `stuck_blocked` shows to fail.
The proof has a lemma for every action, in `L2Steps_proofs`. The loops of
`prefetch_filter`, `issue_prefetches` and `notify` are recursive functions over the
turns; a fact about all turns is proved by taking the least turn at which it fails
and contradicting it with the step before. `L2Steps_proofs` takes what it needs of
cardinalities and of least elements as the hypothesis `SetFacts`, and
`SetFactsHold` of `L2Cache_proofs` proves it from the library for the finite set of
blocks.

**One block of the L2.** The other four theorems are about what the tags, the MSHR,
the first-level caches and the write buffer say of one block. `BlockInv(b)` relates
them: an upgrade in service keeps its block; a block that is cached beside its MSHR
is not writable, and what waits for it is an exclusive request, a writeback or a
prefetch; a block with dirty data, or with reads waiting for it, is not modified
above; and, for a prefetcher that hears of every access, a block in the write buffer
is neither cached, nor in service, nor modified above. `CopiesInv` joins the
blocks, and adds that nothing has aborted when writebacks from above do not race
with misses (`WritebackRaces = FALSE`). It is inductive together with `IInv`, whose
exact ready list says which MSHR `getNextMSHR` hands out. `L2MissAssertions` and
`L2WritebacksNotCached` are for all writebacks, `L2NoAbort` and
`L2DirtyDataPreserved` for those that do not race; the last is an action property,
and `dirty_lost` shows that it fails otherwise.

**Snooping caches.** Any number of caches, accesses and targets per MSHR, under one
hypothesis, `~LateWrites`: no write joins an MSHR behind a snooped read. The run
`late_write` shows that the theorems fail without it. `CopiesCurrent` is far from
inductive: from the moment a request is on the bus, who will have the block is
decided by what the MSHRs have noted, long before a copy moves. `IInv` therefore
says what the MSHRs stand for:

- `MshrInv`: what a list of targets looks like. A snooped exclusive request is the
  last target, and is there exactly when `pendingInvalidate` is set; no write follows
  a snooped read; an MSHR that waits for a copy to read keeps no snooped reads;
  targets are deferred behind a snooped exclusive request, or because the first of
  them needs more than the copy to read that is on its way.
- `CopyInv`, `WritableInv`, `OwnerInv`: copies and writebacks are current; a cache
  that may write is alone (`Alone`); one cache at most owns the block, and memory is
  current when nobody does.
- `AnswerInv`: what an answer on its way is good for. The data for a reader that no
  later writer has passed is current, and no exclusive request is in service then;
  a reader that was passed may get old data, but none older than it has seen.
- `PromiseInv`, `SupplierInv`: a promise is for a request in service without an
  answer, each request has one promise at most, and one or the other it has.
- `ChainInv`: the exclusive requests in service form a sequence in the order in
  which they got the bus. The first has its answer on its way, each later one is
  promised by the one before, all but the last have been passed, and nobody but
  the first has a copy.

The chain is what makes concurrent writers safe. A request on the bus extends it
at its end (`SendRequestStep`), an answer takes its head away and hands the block to
the next (`handleResponseStep`). The loop over the targets in `handleResponse` is a
recursive function over the turns, and `ServedFact` says what is true after all of
them: each write of the cache made the copy one newer, every snoop that was promised
an answer got it with all those writes, because none comes later, and a snooped
exclusive request took the copy away. It is proved as the loops of the L2 are, by the least turn that
fails. `Spec => []CoherenceInv` and `Spec => []CopiesCurrent` follow from `IInv` by
themselves; `ReadsForward` is proved of every step together with `IInv`.

**MI_example.** Any number of caches, DMA controllers, words and requests. That
nobody else has the block when a cache gets it is not inductive: the directory
names the new owner and forwards the request long before the old owner hears of
it. `CacheOK(c)` says what one cache may count on: its writeback is in exactly one
place (on its way to the directory, at the memory controller, or answered); and it
has the block or waits for it exactly when it is the directory's owner or a request
is forwarded to it, never both. `ForOK` makes the forwarded requests a chain: each
is for one cache, which waits and gets the block from nobody else. `HoldsOK` says
that one cache at most holds the block or is sent it, `DirOK` what the state of the
directory tells about the memory controller, `DataOK` that wherever the block is it
holds all writes. A refused writeback ("WB_NACK" on its way) still counts as having
the block: its cache answers the request that overtook it. `MIProtocol` and
`MILatestKept` follow at once, `MIDmaReadsLatest` with a look at the four places
that answer a DMA controller (`DmaAnswered`). None of the three needs the network
to be ordered.

`MINoInvalidTransition` needs it, and needs three more invariants, `RInv`. When
messages keep their order a refusal never overtakes the request it was refused for, so no
cache is in state MII (`OrderOK`). A cache that is the only one to make requests is
never asked for the block, so it is never in II when an invalidation comes
(`OneCache`). And the requests are counted (`RequestsOK`): the directory asks for a
block only for a DMA controller that has made a request, and a second request that
meets the first at the directory is a second one of the count (`Twice`), which the
systems concerned do not have.

**The event list.** `Sorted` is inductive with the type: an insertion comes in
front of the first event that is not before the new one, and the order on ticks
and priorities is a weak order (`BeforeWeakOrder`).

**The bus.** The invariant joins the exactness of the retry list to four facts: a
call-back happens only with a nonempty list and a bus that is not busy; a waiting
device has a packet left; and, unless restored, a busy bus has its event and no
wake-up is lost. `BusNoOvertaking` follows because a step leaves the list as it
is, appends to it or takes its head away (`ListSteps`).

**The timing port.** `PortSafe` is `Spec => []PortInv`: the assertions of
`processSendEvent` and `sendDeferredPacket` hold, the list is sorted, and a packet
on it has its event or its retry to come. It needs the latency to be positive. The
strengthening is that the event is scheduled only when there is a packet:
otherwise the first packet put on an empty list could find an event for a wrong
tick. `InsertFact` says what the search and insertion do to a sorted list.

**Physical memory.** A refinement proof: the records of locked addresses map to
the abstract locks, every step of the memory is a step of `LLSC` or leaves its
variables alone. Swaps and functional writes do not look at the records, and are
the abstract specification's `Unnoticed` writes.

**Load locks in a cache.** `CacheSuccessAtomic` is `Spec => SuccessIsAtomic` for
every associativity, set of blocks and set of contexts. The invariant is
`LocksAreOfBlock` with the type of the frames and the fact that no two frames hold
the same block. The latter is needed because a store clears the locks of the first
frame only. `MoveFact` shows that `moveToHead` permutes the frames, `AccessedFact`
what an access, hit or miss, leaves in them.

Left to TLC:

- all liveness properties; fairness is out of the prover's reach;
- the refinement `EventQueue => EventList` and `QueueInv`, whose mapping is
  recursive over the linked lists;
- `RingIsRecentHistory` and `ConstantStridePredicted`: what the delta buffers
  compute needs induction over data, which the prover cannot do;
- `SequentialInv` and `OnlyFirstMiss`: the queues of `SequentialPrefetcher` are
  folded over, with the same consequence; and `RecentPresent` of `CacheInv` filters
  a sequence;
- that `latest` and the versions of `Coherence` stay below the bound on accesses,
  which is a fact about the bound and not about the code: `TypeOK` has numbers;
- `RoutingInv` and `BridgeInv`. `PortInv` of the run is what `PortSafe` states, for
  the port's instance in `MCInterconnect`.

## 5. Where the properties stop

The properties above carry conditions. Each marks a place where the code does not
do what a comment, an assertion or a document beside it says:

| Place | What the code does | Condition in the model |
|---|---|---|
| `prefetcher.cc:110` | accepted candidates beyond `MAX_DEGREE` stay in `in_flight` although nothing was issued (`report/the_scheme.tex:69-71` describes outstanding requests) | `in_flight` is bounded, not exact |
| `ts_54.cc:25` | prefetches up to `DEGREE + DISTANCE` blocks beyond the last access, also past the end of memory, which is fatal | programs that stay away from the end |
| `cache_impl.hh:942` | a block written back beside its prefetch MSHR may be a victim although its MSHR needs it (comment at 939) | `WritebackRaces = FALSE` in `l2_live` |
| `lru.cc:188`, `cache_impl.hh:148` | `insertBlock` and `cmpAndSwap` leave the `lockList` of the frame (`blk.hh:133`, `268`), so a conditional store may succeed on a lock of another block, or after a write | `CacheInv`, `CacheSuccessIsAtomic` and their theorems until "replaced", "swapped" |
| `physical.cc:284` | a swap does not look at the locked addresses (`physical.hh:127`) | `Unnoticed` writes of `LLSC` |
| `bus.cc:646` | a bus restored from a checkpoint counts as busy with no event that frees it | `Restored = FALSE` |
| `range_map.hh:54` | overlap is tested against one neighbour of the new range (`bus.cc:528-533` counts on a complete test); see `range_conflict` | `RoutingInv` while the ranges in the map do not overlap |
| `bridge.cc:262` | sends with the packet still at the front of the queue: a receiver that sends a nacked request again within the call, and for whose request there is still no room, makes the assertion of `nackRequest` fail (`bridge.cc:172`) | answered, or aborted (`aborted = "sendEvent"`) |
| `bridge.cc:129` | turns any request into a negative acknowledgement, also one that needs no response (`packet.hh:564`) | answered, or aborted |
| `MI_example-dir.sm:456` | no transitions for a PUTX of a former owner or a DMA request while the owner's block is being invalidated | ordered systems without DMA, or with one cache and one DMA request |
| `mshr.cc:251` | see `late_write` | `LateWrites = FALSE` in `coherence` |

## 6. Not modelled

- Most of the simulator. `src/m5` is the whole of M5: instruction sets, CPU
  pipelines, devices, system emulation, Ruby's other protocols and networks, the
  Python front end. The modules here cover the code an access passes through
  between a processor and memory, which is a small part of the repository's lines.
  Instruction semantics and register-level device models are data-intensive and
  sequential; there is little in them for a model checker.
- In the cache: errors, uncacheable accesses, functional accesses, coherence
  across several levels (the marks of requests pending downstream), conditional
  stores in `Coherence` (a conditional store that fails in an exclusive MSHR leaves
  the snoops behind it to a block without ownership; `CacheLocks` has conditional
  stores in atomic mode), and the options of the prefetch queue that the test runs
  leave off.
- The stride, tagged and GHB prefetchers of M5.
- The statistics scripts.

`PROJECT.json` lists every part with its status and reason, the hazards considered
and the properties that cover them, and the source lines of every definition.

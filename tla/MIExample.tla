----------------------------- MODULE MIExample -----------------------------
(***************************************************************************)
(* The MI_example coherence protocol, the one Ruby is built with by        *)
(* default: the cache controllers, the directory, the DMA controllers and  *)
(* the networks between them, for one block.  The transitions are those of *)
(* src/m5/src/mem/protocol/MI_example-{cache,dir,dma}.sm.                  *)
(*                                                                         *)
(* A cache has at most one request on its way to the directory, and the    *)
(* directory recycles a request it cannot take to the back of its queue,   *)
(* so the requests are a function req and the directory may take any of    *)
(* them.  A message the controller stalls on stays at the head of its      *)
(* queue.  Whether the messages from the directory to one cache keep their *)
(* order is part of the system.  The network between them does: the cache  *)
(* declares it ordered, and that is enough for it (checkNetworkAllocation  *)
(* of SimpleNetwork).  The buffer in which the directory puts them,        *)
(* forwardFromDir, is declared unordered: a message with a shorter latency *)
(* (WB_ACK has 1, the others directory_latency) may pass an earlier one,   *)
(* and with Ruby's randomization any may.  So an ordered system is one     *)
(* without randomization in which a memory access takes longer than        *)
(* directory_latency; the others are modelled as well.                     *)
(***************************************************************************)
EXTENDS Naturals, Sequences

CONSTANTS Caches, Dmas, Words, Values,
          Systems,      \* the systems that are explored: how many requests each
                        \* controller makes, the words that are written, and
                        \* whether forwarded messages keep their order
          None          \* no message, no owner

VARIABLES system,   \* the member of Systems, which does not change
          cache,    \* per cache: its state and the data of its block or TBE
          req,      \* per cache: the request on its way to the directory
          fwd,      \* per cache: the forward network, directory to cache
          resp,     \* per cache: the data on its way to it
          dir,      \* state, Owner and TBE of the directory
          mem,      \* the directory's DataBlk
          memq,     \* the request at the memory controller
          dma,      \* per DMA controller: its state
          dmaReq, dmaResp,
          left,     \* misses and DMA requests still to come
          latest,   \* history: what the last store or DMA write left
          error     \* a message met a state with no transition for it

netVars == <<req, fwd, resp>>
dirVars == <<dir, mem, memq>>
dmaVars == <<dma, dmaReq, dmaResp>>
vars == <<system, cache, netVars, dirVars, dmaVars, left, latest, error>>

Block == [Words -> Values]
Blank == [w \in Words |-> CHOOSE v \in Values : TRUE]

CacheState == {"I", "II", "M", "MI", "MII", "IS", "IM"}
DirState == {"I", "M", "M_DRD", "M_DWR", "M_DWRI", "M_DRDI",
             "IM", "MI", "ID", "ID_W"}

\* The directory states that wait for the writeback of the owner a DMA request
\* invalidated, or for memory after it
Invalidating == {"M_DRD", "M_DWR", "M_DRDI", "M_DWRI"}

\* The messages: requests of the caches and of the directory's memory, forwarded
\* requests and answers to writebacks, and those of the DMA controllers; a DMA
\* read names the whole block
Request == [type : {"GETX", "PUTX"}, data : Block]
Forward == [type : {"GETX", "INV", "WB_ACK", "WB_NACK"}, requestor : Caches \cup {None}]
MemRequest == [type : {"READ", "WB"}, data : Block, requestor : Caches \cup {None}]
DmaMsg == {[type |-> "READ", word |-> None, value |-> None]}
          \cup [type : {"WRITE"}, word : Words, value : Values]
DmaAnswer == [type : {"DATA", "ACK"}, data : Block]

ASSUME MIAssumption ==
    /\ \A s \in Systems : /\ s.requests \in [Caches \cup Dmas -> Nat]
                          /\ s.words \subseteq Words
                          /\ s.ordered \in BOOLEAN
    /\ Values # {}
    /\ Caches \cap Dmas = {} /\ None \notin Caches \cup Dmas
    /\ None \notin Block \cup Request \cup MemRequest \cup DmaMsg \cup DmaAnswer

TypeOK ==
    /\ system \in Systems
    /\ cache \in [Caches -> [state : CacheState, data : Block]]
    /\ req \in [Caches -> {None} \cup Request]
    /\ fwd \in [Caches -> Seq(Forward)]
    /\ resp \in [Caches -> {None} \cup Block]
    /\ dir \in [state : DirState, owner : Caches \cup {None},
                requestor : Dmas \cup {None}, tbe : {None} \cup DmaMsg]
    /\ mem \in Block /\ latest \in Block
    /\ memq \in {None} \cup MemRequest
    /\ dma \in [Dmas -> {"READY", "BUSY_RD", "BUSY_WR"}]
    /\ dmaReq \in [Dmas -> {None} \cup DmaMsg]
    /\ dmaResp \in [Dmas -> {None} \cup DmaAnswer]
    /\ left \in [Caches \cup Dmas -> Nat]
    /\ error \in BOOLEAN

Init == /\ system \in Systems
        /\ cache = [c \in Caches |-> [state |-> "I", data |-> Blank]]
        /\ req = [c \in Caches |-> None]
        /\ fwd = [c \in Caches |-> << >>]
        /\ resp = [c \in Caches |-> None]
        /\ dir = [state |-> "I", owner |-> None, requestor |-> None, tbe |-> None]
        /\ mem = Blank /\ memq = None
        /\ dma = [d \in Dmas |-> "READY"]
        /\ dmaReq = [d \in Dmas |-> None]
        /\ dmaResp = [d \in Dmas |-> None]
        /\ left = system.requests
        /\ latest = Blank
        /\ error = FALSE

----------------------------------------------------------------------------
(* The networks *)

RemoveAt(s, i) == SubSeq(s, 1, i - 1) \o SubSeq(s, i + 1, Len(s))

\* Which message of fwd[c] the cache sees: the head, or any one (enqueue
\* puts a message in the heap of the buffer by its time of arrival)
Seen(c) == IF system.ordered THEN {i \in {1} : fwd[c] # << >>} ELSE 1..Len(fwd[c])

Send(c, type, requestor) ==
    fwd' = [fwd EXCEPT ![c] = Append(@, [type |-> type, requestor |-> requestor])]

Pop(c, i) == fwd' = [fwd EXCEPT ![c] = RemoveAt(@, i)]

\* The cache's next state; an invalid block's data is never read again
Goto(c, s) == cache' = [cache EXCEPT ![c] =
                  [state |-> s, data |-> IF s \in {"I", "II", "IS", "IM"}
                                         THEN Blank ELSE cache[c].data]]

----------------------------------------------------------------------------
(* The cache controller *)

\* (I, Store, IM) and (I, Load, IS)
Miss(c, s) ==
    /\ cache[c].state = "I" /\ s \in {"IS", "IM"} /\ left[c] > 0
    /\ Goto(c, s)
    /\ req' = [req EXCEPT ![c] = [type |-> "GETX", data |-> Blank]]
    /\ left' = [left EXCEPT ![c] = @ - 1]
    /\ UNCHANGED <<fwd, resp, dirVars, dmaVars, latest, error>>

\* A store hit: the sequencer writes one word of the block
Written(b, w, v) == [b EXCEPT ![w] = v]

\* (M, Store)
StoreHit(c, w, v) ==
    /\ cache[c].state = "M"
    /\ cache' = [cache EXCEPT ![c].data = Written(@, w, v)]
    /\ latest' = Written(latest, w, v)
    /\ UNCHANGED <<netVars, dirVars, dmaVars, left, error>>

\* (IS, Data, M), and (IM, Data, M) with the store that waited
Data(c, w, v) ==
    /\ resp[c] # None /\ cache[c].state \in {"IS", "IM"}
    /\ resp' = [resp EXCEPT ![c] = None]
    /\ \/ /\ cache[c].state = "IS"
          /\ cache' = [cache EXCEPT ![c] = [state |-> "M", data |-> resp[c]]]
          /\ UNCHANGED latest
       \/ /\ cache[c].state = "IM"
          /\ cache' = [cache EXCEPT ![c] =
                          [state |-> "M", data |-> Written(resp[c], w, v)]]
          /\ latest' = Written(latest, w, v)
    /\ UNCHANGED <<req, fwd, dirVars, dmaVars, left, error>>

issuePUT(c) == /\ req' = [req EXCEPT ![c] =
                             [type |-> "PUTX", data |-> cache[c].data]]
               /\ Goto(c, "MI")

\* (M, Replacement, MI): another block needs the frame
Replacement(c) ==
    /\ cache[c].state = "M"
    /\ issuePUT(c)
    /\ UNCHANGED <<fwd, resp, dirVars, dmaVars, left, latest, error>>

\* (M, Inv, MI) writes the block back and leaves the message in the queue;
\* (MI, Inv) and (I, Inv) pop it
Inv(c, i) ==
    /\ fwd[c][i].type = "INV"
    /\ \/ cache[c].state = "M" /\ issuePUT(c) /\ UNCHANGED fwd
       \/ cache[c].state \in {"MI", "I"} /\ Pop(c, i) /\ UNCHANGED <<cache, req>>
    /\ UNCHANGED <<resp, dirVars, dmaVars, left, latest, error>>

\* A bug the transition might have: the owner answers and keeps the block
FwdKeeps(c, i) ==
    /\ fwd[c][i].type = "GETX" /\ cache[c].state \in {"M", "MI", "MII"}
    /\ Goto(c, IF cache[c].state = "MI" THEN "II" ELSE "M")
    /\ resp' = [resp EXCEPT ![fwd[c][i].requestor] = cache[c].data]
    /\ Pop(c, i)
    /\ UNCHANGED <<req, dirVars, dmaVars, left, latest, error>>

\* (M, Fwd_GETX, I) sends the block, (MI, Fwd_GETX, II) and
\* (MII, Fwd_GETX, I) the data of the TBE, to the cache that asked
Fwd_GETX(c, i) ==
    /\ fwd[c][i].type = "GETX" /\ cache[c].state \in {"M", "MI", "MII"}
    /\ Goto(c, IF cache[c].state = "MI" THEN "II" ELSE "I")
    /\ resp' = [resp EXCEPT ![fwd[c][i].requestor] = cache[c].data]
    /\ Pop(c, i)
    /\ UNCHANGED <<req, dirVars, dmaVars, left, latest, error>>

\* (MI, Writeback_Ack, I)
Writeback_Ack(c, i) ==
    /\ fwd[c][i].type = "WB_ACK" /\ cache[c].state = "MI"
    /\ Goto(c, "I") /\ Pop(c, i)
    /\ UNCHANGED <<req, resp, dirVars, dmaVars, left, latest, error>>

\* (MI, Writeback_Nack, MII) and (II, Writeback_Nack, I)
Writeback_Nack(c, i) ==
    /\ fwd[c][i].type = "WB_NACK" /\ cache[c].state \in {"MI", "II"}
    /\ Goto(c, IF cache[c].state = "MI" THEN "MII" ELSE "I") /\ Pop(c, i)
    /\ UNCHANGED <<req, resp, dirVars, dmaVars, left, latest, error>>

\* A bug the table might have: no transition for the message that was left in
\* the queue, nor for the refused writeback
CacheTableShort == ({"IS", "IM", "M", "MI", "MII"} \X {"GETX"})
                   \cup ({"IS", "IM", "M", "I"} \X {"INV"})
                   \cup {<<"MI", "WB_ACK">>, <<"MI", "WB_NACK">>}
                   \cup ({"IS", "IM"} \X {"DATA"})
                   \cup ((CacheState \ {"MII"}) \X {"Store"})

\* The transitions of the cache controller, stalls included; "Store" stands
\* for what the processor asks for, which may come in any state
CacheTable == ({"IS", "IM", "M", "MI", "MII"} \X {"GETX"})
              \cup ({"IS", "IM", "M", "MI", "I"} \X {"INV"})
              \cup {<<"MI", "WB_ACK">>, <<"MI", "WB_NACK">>, <<"II", "WB_NACK">>}
              \cup ({"IS", "IM"} \X {"DATA"})
              \cup ((CacheState \ {"MII"}) \X {"Store"})

Events(c) == {fwd[c][i].type : i \in Seen(c)}
             \cup {e \in {"DATA"} : resp[c] # None} \cup {"Store"}

\* An event the state has no transition for: "Invalid transition"
CacheError(c) ==
    /\ \E e \in Events(c) : <<cache[c].state, e>> \notin CacheTable
    /\ error' = TRUE
    /\ UNCHANGED <<cache, netVars, dirVars, dmaVars, left, latest>>

----------------------------------------------------------------------------
(* The directory *)

Taken(c) == req' = [req EXCEPT ![c] = None]

Fetch(c) == memq' = [type |-> "READ", data |-> mem, requestor |-> c]

\* A bug the transition might have: in M the owner changes and nobody is told
GETXNotForwarded(c) ==
    /\ req[c] # None /\ req[c].type = "GETX" /\ Taken(c)
    /\ \/ /\ dir.state = "I"
          /\ dir' = [dir EXCEPT !.state = "IM", !.owner = c]
          /\ Fetch(c)
       \/ /\ dir.state = "M"
          /\ dir' = [dir EXCEPT !.owner = c] /\ UNCHANGED memq
    /\ UNCHANGED <<cache, fwd, resp, mem, dmaVars, left, latest, error>>

\* (I, GETX, IM) fetches the block; (M, GETX, M) forwards the request to the
\* owner; either way the requestor is the owner from now on
GETX(c) ==
    /\ req[c] # None /\ req[c].type = "GETX" /\ Taken(c)
    /\ \/ /\ dir.state = "I"
          /\ dir' = [dir EXCEPT !.state = "IM", !.owner = c]
          /\ Fetch(c) /\ UNCHANGED fwd
       \/ /\ dir.state = "M"
          /\ dir' = [dir EXCEPT !.owner = c]
          /\ Send(dir.owner, "GETX", c) /\ UNCHANGED memq
    /\ UNCHANGED <<cache, resp, mem, dmaVars, left, latest, error>>

\* The next state on the owner's writeback
AfterPUTX == [s \in {"M", "M_DRD", "M_DWR"} |->
                 CASE s = "M" -> "MI" [] s = "M_DRD" -> "M_DRDI" [] s = "M_DWR" -> "M_DWRI"]

\* A bug the transition might have: the DMA read is answered with what memory
\* held before
PUTXAnswersMemory(c) ==
    /\ req[c] # None /\ req[c].type = "PUTX" /\ dir.owner = c /\ Taken(c)
    /\ dir.state \in DOMAIN AfterPUTX
    /\ dir' = [dir EXCEPT !.state = AfterPUTX[@], !.owner = None]
    /\ mem' = req[c].data
    /\ memq' = [type |-> "WB", data |-> Blank, requestor |-> c]
    /\ dmaResp' = IF dir.state = "M_DRD"
                  THEN [dmaResp EXCEPT ![dir.requestor] = [type |-> "DATA", data |-> mem]]
                  ELSE dmaResp
    /\ UNCHANGED <<cache, fwd, resp, dma, dmaReq, left, latest, error>>

\* (M, PUTX, MI), (M_DRD, PUTX, M_DRDI), (M_DWR, PUTX, M_DWRI): the data is
\* written to memory; a waiting DMA read is answered from the message
PUTX(c) ==
    /\ req[c] # None /\ req[c].type = "PUTX" /\ dir.owner = c /\ Taken(c)
    /\ dir.state \in DOMAIN AfterPUTX
    /\ dir' = [dir EXCEPT !.state = AfterPUTX[@], !.owner = None]
    /\ mem' = req[c].data
    /\ memq' = [type |-> "WB", data |-> Blank, requestor |-> c]
    /\ dmaResp' = IF dir.state = "M_DRD"
                  THEN [dmaResp EXCEPT ![dir.requestor] =
                           [type |-> "DATA", data |-> req[c].data]]
                  ELSE dmaResp
    /\ UNCHANGED <<cache, fwd, resp, dma, dmaReq, left, latest, error>>

\* (M, PUTX_NotOwner, M) and (I, PUTX_NotOwner, I)
PUTX_NotOwner(c) ==
    /\ req[c] # None /\ req[c].type = "PUTX" /\ dir.owner # c /\ Taken(c)
    /\ dir.state \in {"M", "I"}
    /\ Send(c, "WB_NACK", c)
    /\ UNCHANGED <<cache, resp, dirVars, dmaVars, left, latest, error>>

\* (IM, Memory_Data, M) and (ID, Memory_Data, I)
Memory_Data ==
    /\ memq # None /\ memq.type = "READ" /\ memq' = None
    /\ \/ /\ dir.state = "IM"
          /\ dir' = [dir EXCEPT !.state = "M"]
          /\ resp' = [resp EXCEPT ![memq.requestor] = memq.data]
          /\ UNCHANGED dmaResp
       \/ /\ dir.state = "ID"
          /\ dir' = [dir EXCEPT !.state = "I", !.requestor = None]
          /\ dmaResp' = [dmaResp EXCEPT ![dir.requestor] =
                            [type |-> "DATA", data |-> memq.data]]
          /\ UNCHANGED resp
    /\ UNCHANGED <<cache, req, fwd, mem, dma, dmaReq, left, latest, error>>

\* A bug the actions might have: they copy TBEs[address].Len bytes of none
MergedNothing(b) == b

\* w_writeDataToMemoryFromTBE, dwt_writeDMADataFromTBE: the DMA's bytes
Merged(b) == Written(b, dir.tbe.word, dir.tbe.value)

\* (MI, Memory_Ack, I), (M_DRDI, Memory_Ack, I), (M_DWRI, Memory_Ack, I) and
\* (ID_W, Memory_Ack, I): the last two write the DMA's bytes and answer it, all
\* but the last acknowledge the cache's writeback.  In MI the TBE holds the
\* writeback itself, which PUTX already put in memory.
Memory_Ack ==
    /\ memq # None /\ memq.type = "WB" /\ memq' = None
    /\ dir.state \in {"MI", "M_DRDI", "M_DWRI", "ID_W"}
    /\ dir' = [dir EXCEPT !.state = "I", !.requestor = None, !.tbe = None]
    /\ IF dir.state \in {"M_DWRI", "ID_W"}
       THEN /\ mem' = Merged(mem)
            /\ latest' = Written(latest, dir.tbe.word, dir.tbe.value)
            /\ dmaResp' = [dmaResp EXCEPT ![dir.requestor] =
                              [type |-> "ACK", data |-> Blank]]
       ELSE UNCHANGED <<mem, latest, dmaResp>>
    /\ IF dir.state = "ID_W" THEN UNCHANGED fwd
                             ELSE Send(memq.requestor, "WB_ACK", memq.requestor)
    /\ UNCHANGED <<cache, req, resp, dma, dmaReq, left, error>>

\* (I, DMA_READ, ID), (I, DMA_WRITE, ID_W), and in M, the invalidation of the
\* owner's block
DmaRequest(d) ==
    /\ dmaReq[d] # None
    /\ dmaReq' = [dmaReq EXCEPT ![d] = None]
    /\ LET write == dmaReq[d].type = "WRITE"
           Wait(s) == dir' = [dir EXCEPT !.state = s, !.requestor = d,
                                  !.tbe = IF write THEN dmaReq[d] ELSE None]
       IN \/ /\ dir.state = "I" /\ ~write
             /\ Wait("ID") /\ Fetch(None) /\ UNCHANGED fwd
          \/ /\ dir.state = "I" /\ write
             /\ Wait("ID_W") /\ UNCHANGED fwd
             /\ memq' = [type |-> "WB", data |-> Blank, requestor |-> None]
          \/ /\ dir.state = "M"
             /\ Wait(IF write THEN "M_DWR" ELSE "M_DRD")
             /\ Send(dir.owner, "INV", None) /\ UNCHANGED memq
    /\ UNCHANGED <<cache, req, resp, mem, dma, dmaResp, left, latest, error>>

\* While the directory waits for an invalidated block it has transitions for
\* GETX and for the owner's PUTX, and for nothing else
DirError ==
    /\ dir.state \in Invalidating
    /\ \/ \E c \in Caches : req[c] # None /\ req[c].type = "PUTX" /\ dir.owner # c
       \/ \E d \in Dmas : dmaReq[d] # None
    /\ error' = TRUE
    /\ UNCHANGED <<cache, netVars, dirVars, dmaVars, left, latest>>

----------------------------------------------------------------------------
(* The DMA controllers *)

\* (READY, ReadRequest, BUSY_RD), (READY, WriteRequest, BUSY_WR)
DmaIssue(d, m) ==
    /\ dma[d] = "READY" /\ left[d] > 0
    /\ dma' = [dma EXCEPT ![d] = IF m.type = "READ" THEN "BUSY_RD" ELSE "BUSY_WR"]
    /\ dmaReq' = [dmaReq EXCEPT ![d] = m]
    /\ left' = [left EXCEPT ![d] = @ - 1]
    /\ UNCHANGED <<cache, netVars, dirVars, dmaResp, latest, error>>

\* (BUSY_RD, Data, READY), (BUSY_WR, Ack, READY)
DmaDone(d) ==
    /\ dmaResp[d] # None
    /\ \/ dma[d] = "BUSY_RD" /\ dmaResp[d].type = "DATA"
       \/ dma[d] = "BUSY_WR" /\ dmaResp[d].type = "ACK"
    /\ dma' = [dma EXCEPT ![d] = "READY"]
    /\ dmaResp' = [dmaResp EXCEPT ![d] = None]
    /\ UNCHANGED <<cache, netVars, dirVars, dmaReq, left, latest, error>>

----------------------------------------------------------------------------
Forwarded(c) == \E i \in Seen(c) : \/ Inv(c, i) \/ Fwd_GETX(c, i)
                                   \/ Writeback_Ack(c, i) \/ Writeback_Nack(c, i)

\* ERROR_MSG ends the simulation, so nothing follows an error
Running == ~error /\ UNCHANGED system

Next == /\ Running
        /\ \/ \E c \in Caches :
                 \/ \E s \in {"IS", "IM"} : Miss(c, s)
                 \/ \E w \in system.words, v \in Values : StoreHit(c, w, v) \/ Data(c, w, v)
                 \/ Replacement(c) \/ Forwarded(c) \/ CacheError(c)
                 \/ GETX(c) \/ PUTX(c) \/ PUTX_NotOwner(c)
           \/ \E d \in Dmas : \/ \E m \in DmaMsg : m.word \in system.words \cup {None} /\ DmaIssue(d, m)
                              \/ DmaRequest(d) \/ DmaDone(d)
           \/ Memory_Data \/ Memory_Ack \/ DirError

Spec == Init /\ [][Next]_vars

\* Messages arrive, the memory answers, and the directory takes a request it
\* can take for as long as it is there.  Nothing makes a processor or a DMA
\* device issue a request, or a cache evict a block.
FairSpec ==
    /\ Spec
    /\ \A c \in Caches :
          /\ WF_vars(Running /\ \E w \in system.words, v \in Values : Data(c, w, v))
          /\ WF_vars(Running /\ Forwarded(c))
          /\ WF_vars(Running /\ (GETX(c) \/ PUTX(c) \/ PUTX_NotOwner(c)))
    /\ \A d \in Dmas : WF_vars(Running /\ DmaRequest(d)) /\ WF_vars(Running /\ DmaDone(d))
    /\ WF_vars(Running /\ (Memory_Data \/ Memory_Ack))

----------------------------------------------------------------------------
(* What the protocol promises *)

\* The places that hold the block: an owner's frame, or data on its way to one
Copies == {c \in Caches : cache[c].state = "M"}
Coming == {c \in Caches : resp[c] # None}

\* At most one cache has the block or will get it without another request,
\* and none has while the directory holds it: MI_example-cache.sm's M is the
\* only valid state and the protocol has no sharers.
SingleCopy ==
    /\ Copies \cap Coming = {} /\ \A c, d \in Copies \cup Coming : c = d
    /\ dir.state \notin {"M", "M_DRD", "M_DWR"} => Copies \cup Coming = {}

\* No store and no DMA write is lost: the owner's block, the data on its way
\* to the next owner, and memory when nobody owns the block, are what the
\* writes so far left there (w_writeDataToMemoryFromTBE after the writeback,
\* not before it, is what keeps a DMA write).
LatestKept ==
    /\ \A c \in Copies : cache[c].data = latest
    /\ \A c \in Coming : resp[c] = latest
    /\ dir.state = "I" => mem = latest

\* The asserts of the directory's setState: an owner in M, none in I.
OwnerCount == /\ dir.state = "M" => dir.owner # None
              /\ dir.state = "I" => dir.owner = None

\* The state is of its type, the directory's asserts hold and no two
\* controllers have the block.
ProtocolInv == TypeOK /\ OwnerCount /\ SingleCopy

\* A DMA read is answered with what the writes so far left in the block,
\* whether memory or the owner's writeback supplies it (dr_sendDMAData,
\* drp_sendDMAData).
DmaReadsLatest ==
    [][\A d \in Dmas :
          (dmaResp[d] = None /\ dmaResp'[d] # None /\ dmaResp'[d].type = "DATA")
              => dmaResp'[d].data = latest]_vars

\* The systems for which the tables are complete: caches without DMA, or one
\* cache and a single DMA request.  A DMA request that meets the directory
\* while it waits for an invalidated block has no transition there, and a DMA
\* controller can make one as soon as it has the data of its last.
Active == {x \in Caches \cup Dmas : system.requests[x] > 0}
Complete == \/ Active \cap Dmas = {}
            \/ \E c \in Caches, d \in Dmas : Active \subseteq {c, d} /\ system.requests[d] = 1

\* In these systems no controller meets an event its state has no transition
\* for (ERROR_MSG("Invalid transition") of the generated code), provided that
\* the messages from the directory to a cache keep their order.
NoInvalidTransition == system.ordered /\ Complete => ~error

\* Every miss, every writeback and every DMA request ends, whatever the
\* controllers stall on or recycle, unless the simulation ends in an error: no
\* controller stays in the states of a miss, which only data ends, in those of a
\* writeback, which end in I, or at a DMA request.
EveryRequestDone ==
    /\ \A c \in Caches : []<>(cache[c].state \notin {"IS", "IM"} \/ error)
    /\ \A c \in Caches : []<>(cache[c].state \notin {"MI", "II", "MII"} \/ error)
    /\ \A d \in Dmas : []<>(dma[d] = "READY" \/ error)
=============================================================================

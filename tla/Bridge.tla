-------------------------------- MODULE Bridge --------------------------------
(***************************************************************************)
(* The bridge between two buses, mem/bridge.cc and bridge.hh.  A request   *)
(* that arrives at one port is queued at the other; room for its response  *)
(* is reserved at the port where it came in.  A request for which there is *)
(* no room is answered with a nack, which the bridge queues itself.        *)
(*                                                                         *)
(* A receiver may send to the bridge from within its recvTiming, while the *)
(* bridge still has the packet at the front of its queue: a processor      *)
(* sends a nacked packet again at once, and its next request as soon as it *)
(* has its response (CallsBack).                                           *)
(*                                                                         *)
(* Ticks are counted from the present, as in TimingPort.                   *)
(***************************************************************************)
EXTENDS Integers, Sequences, FiniteSets, SequencesExt

CONSTANTS
  Requests,       \* the requests, each sent once and again after a nack
  Side,           \* the port at which a request comes in, "A" or "B"
  NeedsResponse,  \* the requests that are answered; writebacks are not
  ReqLimit,       \* req_size_a, req_size_b
  RespLimit,      \* resp_size_a, resp_size_b
  Delay,          \* delay
  NackDelay,      \* nack_delay
  None            \* sendEvent is not scheduled, no assertion has failed

VARIABLES
  sendQueue,             \* for a port, the packets it will send
  queuedRequests,
  outstandingResponses,
  inRetry,
  sendEvent,             \* for a port, the tick of its event
  at,                    \* where a request or the answer to it is
  aborted                \* the assertion that failed, or None

vars == <<sendQueue, queuedRequests, outstandingResponses, inRetry, sendEvent, at, aborted>>

PortIds == {"A", "B"}

otherPort(p) == IF p = "A" THEN "B" ELSE "A"

Ticks == 0 .. (IF Delay > NackDelay THEN Delay ELSE NackDelay) + 1

PacketBuffer == [req : Requests, kind : {"request", "response", "nack"}, ready : Ticks]

TypeOK ==
  /\ sendQueue \in [PortIds -> Seq(PacketBuffer)]
  /\ queuedRequests \in [PortIds -> 0 .. ReqLimit]
  /\ outstandingResponses \in [PortIds -> 0 .. RespLimit]
  /\ inRetry \in [PortIds -> BOOLEAN]
  /\ sendEvent \in [PortIds -> Ticks \cup {None}]
  /\ at \in [Requests -> {"unsent", "requester", "bridge", "target", "done"}]
  /\ aborted \in {None, "needsResponse", "sendEvent"}

Init ==
  /\ sendQueue = [p \in PortIds |-> <<>>]
  /\ queuedRequests = [p \in PortIds |-> 0]
  /\ outstandingResponses = [p \in PortIds |-> 0]
  /\ inRetry = [p \in PortIds |-> FALSE]
  /\ sendEvent = [p \in PortIds |-> None]
  /\ at = [r \in Requests |-> "unsent"]
  /\ aborted = None

reqQueueFull(p) == queuedRequests[p] >= ReqLimit

respQueueFull(p) == outstandingResponses[p] >= RespLimit

(* Mutant: the packet is put at the front of the queue.                    *)
QueueInFront(p, r, kind) ==
  [queue |-> <<[req |-> r, kind |-> kind, ready |-> Delay]>> \o sendQueue[p],
   event |-> IF sendQueue[p] = <<>> THEN Delay ELSE sendEvent[p]]

(* queueForSendTiming: to the end of the queue of port p.                  *)
queueForSendTiming(p, r, kind) ==
  [queue |-> Append(sendQueue[p], [req |-> r, kind |-> kind, ready |-> Delay]),
   event |-> IF sendQueue[p] = <<>> THEN Delay ELSE sendEvent[p]]

(* nackRequest: in front of the packets that are ready later.              *)
nackRequest(p, r) ==
  LET buf == [req |-> r, kind |-> "nack", ready |-> NackDelay]
      i   == SelectInSeq(sendQueue[p], LAMBDA b : NackDelay < b.ready)
      end == sendQueue[p] = <<>> \/ NackDelay >= Last(sendQueue[p]).ready
  IN /\ sendQueue' = [sendQueue EXCEPT ![p] = IF end THEN Append(@, buf) ELSE InsertAt(@, i, buf)]
     /\ sendEvent' = [sendEvent EXCEPT ![p] =
                        IF sendQueue[p] = <<>> \/ (~end /\ i = 1) THEN NackDelay ELSE @]
     /\ UNCHANGED <<queuedRequests, outstandingResponses>>

(* The condition on which recvTiming sends a nack.                         *)
MustNack(r) ==
  \/ reqQueueFull(otherPort(Side[r]))
  \/ r \in NeedsResponse /\ respQueueFull(Side[r])

Reserved(r) == IF r \in NeedsResponse THEN 1 ELSE 0

(* recvTiming of a request that goes to the other side.                    *)
Forward(r) ==
  LET other == otherPort(Side[r])
      s     == queueForSendTiming(other, r, "request")
  IN /\ aborted = None /\ at[r] \in {"unsent", "requester"} /\ ~MustNack(r)
     /\ sendQueue' = [sendQueue EXCEPT ![other] = s.queue]
     /\ sendEvent' = [sendEvent EXCEPT ![other] = s.event]
     /\ queuedRequests' = [queuedRequests EXCEPT ![other] = @ + 1]
     /\ outstandingResponses' = [outstandingResponses EXCEPT ![Side[r]] = @ + Reserved(r)]
     /\ at' = [at EXCEPT ![r] = "bridge"]
     /\ UNCHANGED <<inRetry, aborted>>

(* recvTiming of a request for which there is no room.                     *)
Nack(r) ==
  /\ aborted = None /\ at[r] \in {"unsent", "requester"} /\ MustNack(r) /\ r \in NeedsResponse
  /\ nackRequest(Side[r], r)
  /\ at' = [at EXCEPT ![r] = "bridge"]
  /\ UNCHANGED <<inRetry, aborted>>

Abort(assertion) ==
  /\ aborted' = assertion
  /\ UNCHANGED <<sendQueue, queuedRequests, outstandingResponses, inRetry, sendEvent, at>>

(* As before, but makeTimingResponse asserts that a response is needed.    *)
NackAborts(r) ==
  /\ aborted = None /\ at[r] \in {"unsent", "requester"} /\ MustNack(r) /\ r \notin NeedsResponse
  /\ Abort("needsResponse")

(* recvTiming of the response.                                             *)
Respond(r) ==
  LET s == queueForSendTiming(Side[r], r, "response")
  IN /\ aborted = None /\ at[r] = "target"
     /\ sendQueue' = [sendQueue EXCEPT ![Side[r]] = s.queue]
     /\ sendEvent' = [sendEvent EXCEPT ![Side[r]] = s.event]
     /\ at' = [at EXCEPT ![r] = "bridge"]
     /\ UNCHANGED <<queuedRequests, outstandingResponses, inRetry, aborted>>

(* Where a packet is when the bus has taken it.                            *)
Arrived(buf) ==
  IF buf.kind = "nack" THEN "requester"
  ELSE IF buf.kind = "request" /\ buf.req \in NeedsResponse THEN "target"
  ELSE "done"

(* Mutants: a nack gives back a reservation it never had; a reservation is *)
(* never given back.                                                       *)
ReleasedByNack(buf) == IF buf.kind = "request" THEN 0 ELSE 1

NeverReleased(buf) == 0

(* The reservation that is given back when the packet has left.            *)
Released(buf) == IF buf.kind = "response" THEN 1 ELSE 0

(* The event for the next packet.                                          *)
NextSend(rest) ==
  IF rest = <<>> THEN None ELSE IF Head(rest).ready = 0 THEN 1 ELSE Head(rest).ready

(* trySend when the bus takes the packet at the head.                      *)
Sent(p) ==
  LET buf == Head(sendQueue[p])
  IN /\ sendQueue' = [sendQueue EXCEPT ![p] = Tail(@)]
     /\ queuedRequests' = [queuedRequests EXCEPT ![p] = IF buf.kind = "request" THEN @ - 1 ELSE @]
     /\ outstandingResponses' = [outstandingResponses EXCEPT ![p] = @ - Released(buf)]
     /\ sendEvent' = [sendEvent EXCEPT ![p] = NextSend(Tail(sendQueue[p]))]
     /\ inRetry' = [inRetry EXCEPT ![p] = FALSE]
     /\ at' = [at EXCEPT ![buf.req] = Arrived(buf)]
     /\ UNCHANGED aborted

(* The request r that the receiver of buf sends before its recvTiming      *)
(* returns: the one it gets back nacked or, when it has its response, the  *)
(* next.  A bus that calls port p back lets nobody else send meanwhile.    *)
CallsBack(p, buf, r) ==
  /\ Side[r] = p /\ ~inRetry[p]
  /\ \/ buf.kind = "nack" /\ r = buf.req
     \/ buf.kind = "response" /\ at[r] \in {"unsent", "requester"}

(* trySend when the receiver calls back: recvTiming of r goes first, with  *)
(* the packet still at the front and its reservation held.                 *)
SentAndCalled(p, r) ==
  LET buf   == Head(sendQueue[p])
      other == otherPort(p)
      s     == queueForSendTiming(other, r, "request")
  IN /\ CallsBack(p, buf, r) /\ ~MustNack(r)
     /\ sendQueue' = [sendQueue EXCEPT ![p] = Tail(@), ![other] = s.queue]
     /\ queuedRequests' = [queuedRequests EXCEPT ![other] = @ + 1]
     /\ outstandingResponses' = [outstandingResponses EXCEPT ![p] = @ + Reserved(r) - Released(buf)]
     /\ sendEvent' = [sendEvent EXCEPT ![p] = NextSend(Tail(sendQueue[p])), ![other] = s.event]
     /\ at' = [at EXCEPT ![buf.req] = Arrived(buf), ![r] = "bridge"]
     /\ UNCHANGED <<inRetry, aborted>>

(* As before, but there is no room.  nackRequest finds a queue that is not *)
(* empty, no event, as the event of the queue is being processed, and no   *)
(* retry.                                                                  *)
CallAborts(p, r) ==
  /\ CallsBack(p, Head(sendQueue[p]), r) /\ MustNack(r)
  /\ Abort(IF r \in NeedsResponse THEN "sendEvent" ELSE "needsResponse")

(* trySend when the bus refuses the packet.                                *)
Refused(p) ==
  /\ inRetry' = [inRetry EXCEPT ![p] = TRUE]
  /\ sendEvent' = [sendEvent EXCEPT ![p] = None]
  /\ UNCHANGED <<sendQueue, queuedRequests, outstandingResponses, at, aborted>>

(* trySend, called by the event or, for the bus, by recvRetry.             *)
Due(p) == aborted = None /\ (sendEvent[p] = 0 \/ inRetry[p])

Delivered(p) == Sent(p) \/ \E r \in Requests : SentAndCalled(p, r) \/ CallAborts(p, r)

trySend(p) == Due(p) /\ (Delivered(p) \/ Refused(p))

Nearer(t) == IF t = 0 THEN 0 ELSE t - 1

TimePasses ==
  /\ aborted = None
  /\ \A p \in PortIds : sendEvent[p] # 0
  /\ \E p \in PortIds : sendEvent[p] # None
  /\ sendEvent' = [p \in PortIds |-> IF sendEvent[p] = None THEN None ELSE sendEvent[p] - 1]
  /\ sendQueue' = [p \in PortIds |-> [i \in DOMAIN sendQueue[p] |->
                     [sendQueue[p][i] EXCEPT !.ready = Nearer(@)]]]
  /\ UNCHANGED <<queuedRequests, outstandingResponses, inRetry, at, aborted>>

Next ==
  \/ \E r \in Requests : Forward(r) \/ Nack(r) \/ NackAborts(r) \/ Respond(r)
  \/ \E p \in PortIds : trySend(p)
  \/ TimePasses

(* Devices answer, and send a nacked request again (that they send one at  *)
(* all is up to them); time passes; the buses call a refused port back and *)
(* do not refuse a packet for ever.                                        *)
Fairness ==
  /\ \A r \in Requests : /\ WF_vars(at[r] = "requester" /\ (Forward(r) \/ Nack(r)))
                        /\ WF_vars(Respond(r))
  /\ \A p \in PortIds : WF_vars(trySend(p)) /\ SF_vars(Due(p) /\ Delivered(p))
  /\ WF_vars(TimePasses)

Spec == Init /\ [][Next]_vars

FairSpec == Spec /\ Fairness

Queued(p, kinds) == {r \in Requests : \E i \in DOMAIN sendQueue[p] :
                       sendQueue[p][i].req = r /\ sendQueue[p][i].kind \in kinds}

(***************************************************************************)
(* The counters count: the requests in the queue, and the requests that    *)
(* came in at the port and whose response has not left it.  So there is    *)
(* always room for a response, and the assertions of respQueueFull and     *)
(* reqQueueFull hold.                                                      *)
(***************************************************************************)
CountersExact ==
  \A p \in PortIds :
    /\ queuedRequests[p] = Cardinality(Queued(p, {"request"}))
    /\ outstandingResponses[p] =
         Cardinality({r \in NeedsResponse : Side[r] = p /\
           (at[r] = "target" \/ r \in Queued(p, {"response"})
                             \/ r \in Queued(otherPort(p), {"request"}))})

(***************************************************************************)
(* A packet in a queue is going to be sent, and the head is ready when it  *)
(* is: the assertions of trySend and recvRetry, and that of nackRequest    *)
(* for a request that does not come from within a send.                    *)
(***************************************************************************)
SendIsComing ==
  \A p \in PortIds :
    /\ sendQueue[p] # <<>> <=> (sendEvent[p] # None \/ inRetry[p])
    /\ ~(sendEvent[p] # None /\ inRetry[p])
    /\ Due(p) => Head(sendQueue[p]).ready = 0

(***************************************************************************)
(* A request is at one place: in at most one queue, once, and only while   *)
(* neither its requester nor its target has it.                            *)
(***************************************************************************)
OnePlace ==
  \A r \in Requests :
    Cardinality({x \in PortIds \X (1 .. Cardinality(Requests)) :
                   x[2] \in DOMAIN sendQueue[x[1]] /\ sendQueue[x[1]][x[2]].req = r})
      = IF at[r] = "bridge" THEN 1 ELSE 0

(***************************************************************************)
(* The queues of the bridge are in order: no request lost or doubled, none *)
(* stuck in a queue, and the reservations exact.                           *)
(***************************************************************************)
QueuesInv == TypeOK /\ OnePlace /\ SendIsComing /\ CountersExact

(***************************************************************************)
(* The requests of one side leave on the other in the order in which they  *)
(* came in, and so do the responses: of what is not a nack, a step removes *)
(* the first packet of a queue or adds one at its end.                     *)
(***************************************************************************)
Forwarded(p) ==
  LET f == SelectSeq(sendQueue[p], LAMBDA b : b.kind # "nack")
  IN [i \in DOMAIN f |-> f[i].req]

OrderKept ==
  [][\A p \in PortIds :
       \/ Forwarded(p)' = Forwarded(p)
       \/ Forwarded(p) # <<>> /\ Forwarded(p)' = Tail(Forwarded(p))
       \/ Forwarded(p)' # <<>> /\ Front(Forwarded(p)') = Forwarded(p)]_vars

(***************************************************************************)
(* Every request is answered in the end, however often it is nacked.  A    *)
(* writeback that has to be nacked ends the simulation: makeTimingResponse *)
(* and setNacked assert that a response is needed.  So does a request that *)
(* has to be nacked when it comes from within a send.  (A request that has *)
(* been sent is never unsent again.)                                       *)
(***************************************************************************)
EveryAnswered == \A r \in Requests : []<>(at[r] \in {"unsent", "done"} \/ aborted # None)
=============================================================================

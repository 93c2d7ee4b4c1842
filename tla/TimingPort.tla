------------------------------ MODULE TimingPort ------------------------------
(***************************************************************************)
(* SimpleTimingPort, mem/tport.cc and tport.hh: the port of memories,      *)
(* devices and the responding side of caches.  Packets wait in a list that *)
(* is sorted by the tick at which they are ready; an event, or after a     *)
(* refusal the retry of the peer, sends the first.                         *)
(*                                                                         *)
(* Ticks are counted from the present: a packet is ready at tick 0, and    *)
(* when time passes every tick to come is one nearer.                      *)
(***************************************************************************)
EXTENDS Integers, Sequences, SequencesExt

CONSTANTS
  Packets,    \* the packets that the device sends, each once
  MaxDelay,   \* bound on the latency of the device
  None        \* sendEvent is not scheduled

VARIABLES
  transmitList,    \* packets with their ticks
  sendEvent,       \* tick of the event
  waitingOnRetry,
  drainEvent,      \* drainEvent is not NULL
  sent             \* the packets that the peer has taken, in order

vars == <<transmitList, sendEvent, waitingOnRetry, drainEvent, sent>>

Ticks == 0 .. MaxDelay

Fresh == {p \in Packets : /\ \A i \in DOMAIN transmitList : transmitList[i].pkt # p
                          /\ \A i \in DOMAIN sent : sent[i] # p}

TypeOK ==
  /\ transmitList \in Seq([pkt : Packets, tick : Ticks])
  /\ sendEvent \in Ticks \cup {None}
  /\ waitingOnRetry \in BOOLEAN
  /\ drainEvent \in BOOLEAN
  /\ sent \in Seq(Packets)

Init ==
  /\ transmitList = <<>>
  /\ sendEvent = None
  /\ waitingOnRetry = FALSE
  /\ drainEvent = FALSE
  /\ sent = <<>>

(* schedSendEvent, for an event that is at tick ev.                        *)
schedSendEvent(ev, when) ==
  IF waitingOnRetry THEN ev
  ELSE IF ev = None \/ ev > when THEN when ELSE ev

(* Mutant: a packet is put in front of the packets of its own tick.        *)
InsertFirst(list, p, when) ==
  LET k == SelectInSeq(list, LAMBDA x : when <= x.tick)
      d == [pkt |-> p, tick |-> when]
  IN IF k = 0 THEN Append(list, d) ELSE InsertAt(list, k, d)

(* The place of a packet: in front of the first that is ready later.       *)
insert(list, p, when) ==
  LET k == SelectInSeq(list, LAMBDA x : when < x.tick)
      d == [pkt |-> p, tick |-> when]
  IN IF k = 0 THEN Append(list, d) ELSE InsertAt(list, k, d)

(* Mutant: the event is scheduled only for the first packet of a list.     *)
SchedIfEmpty(list, ev, p, when) ==
  [list |-> insert(list, p, when),
   ev   |-> IF list = <<>> THEN schedSendEvent(ev, when) ELSE ev]

(* schedSendTiming on a list and an event.                                 *)
schedSendTiming(list, ev, p, when) ==
  [list |-> insert(list, p, when),
   ev   |-> IF list = <<>> \/ when < Head(list).tick THEN schedSendEvent(ev, when) ELSE ev]

(* The device answers a request after its latency.                         *)
recvTiming ==
  /\ \E p \in Fresh, when \in 1 .. MaxDelay :
       LET s == schedSendTiming(transmitList, sendEvent, p, when)
       IN transmitList' = s.list /\ sendEvent' = s.ev
  /\ UNCHANGED <<waitingOnRetry, drainEvent, sent>>

(* Mutant: after a packet was taken nothing is scheduled for the next.     *)
SuccessThenIdle(ev) ==
  /\ transmitList' = Tail(transmitList)
  /\ sendEvent' = ev
  /\ drainEvent' = (drainEvent /\ ~(transmitList' = <<>> /\ ev = None))
  /\ waitingOnRetry' = FALSE
  /\ sent' = Append(sent, Head(transmitList).pkt)

(* sendDeferredPacket when the peer takes the packet.  The peer may call   *)
(* back, and the device put a new packet on the list, before sendTiming    *)
(* returns.                                                                *)
Success(ev) ==
  \E called \in {[list |-> Tail(transmitList), ev |-> ev]} \cup
                {schedSendTiming(Tail(transmitList), ev, p, when) :
                   p \in Fresh, when \in 1 .. MaxDelay} :
    /\ transmitList' = called.list
    /\ sendEvent' = IF called.list # <<>> /\ called.ev = None
                    THEN IF Head(called.list).tick = 0 THEN 1 ELSE Head(called.list).tick
                    ELSE called.ev
    /\ drainEvent' = (drainEvent /\ ~(called.list = <<>> /\ sendEvent' = None))
    /\ waitingOnRetry' = FALSE
    /\ sent' = Append(sent, Head(transmitList).pkt)

(* sendDeferredPacket when the peer refuses it.                            *)
Failure(ev) ==
  /\ sendEvent' = ev
  /\ waitingOnRetry' = TRUE
  /\ UNCHANGED <<transmitList, drainEvent, sent>>

(* The event is off the queue while it is processed.                       *)
processSendEvent == sendEvent = 0 /\ (Success(None) \/ Failure(None))

recvRetry == waitingOnRetry /\ (Success(sendEvent) \/ Failure(sendEvent))

(* A call of drain that returns 1.                                         *)
drain ==
  /\ transmitList # <<>> \/ sendEvent # None
  /\ ~drainEvent
  /\ drainEvent' = TRUE
  /\ UNCHANGED <<transmitList, sendEvent, waitingOnRetry, sent>>

Nearer(t) == IF t = 0 THEN 0 ELSE t - 1

(* A tick ends when the event of this tick has been processed.             *)
TimePasses ==
  /\ sendEvent # 0
  /\ transmitList' = [i \in DOMAIN transmitList |-> [transmitList[i] EXCEPT !.tick = Nearer(@)]]
  /\ sendEvent' = IF sendEvent = None THEN None ELSE sendEvent - 1
  /\ UNCHANGED <<waitingOnRetry, drainEvent, sent>>

Next == recvTiming \/ processSendEvent \/ recvRetry \/ drain \/ TimePasses

(* Time passes, the event queue serves its events, a refused port is       *)
(* called back, and the peer does not refuse a packet for ever.            *)
Fairness ==
  /\ WF_vars(TimePasses)
  /\ WF_vars(processSendEvent)
  /\ WF_vars(recvRetry)
  /\ SF_vars(waitingOnRetry /\ Success(sendEvent))

Spec == Init /\ [][Next]_vars

FairSpec == Spec /\ Fairness

(***************************************************************************)
(* The list is sorted.                                                     *)
(***************************************************************************)
Sorted ==
  \A i, j \in DOMAIN transmitList : i < j => transmitList[i].tick <= transmitList[j].tick

(***************************************************************************)
(* The assertions of the port hold: when the event is processed the port   *)
(* does not wait for a retry, and whenever a packet is sent there is one   *)
(* and it is ready; while the port waits no event is scheduled.            *)
(***************************************************************************)
PortAssertions ==
  /\ sendEvent = 0 => ~waitingOnRetry /\ transmitList # <<>> /\ Head(transmitList).tick = 0
  /\ waitingOnRetry => sendEvent = None /\ transmitList # <<>> /\ Head(transmitList).tick = 0

(***************************************************************************)
(* A packet on the list will be sent: the event is scheduled for the tick  *)
(* at which the first packet is ready, or for the next tick if it has been *)
(* ready for some time, or the port is going to be called back.            *)
(***************************************************************************)
SendIsComing ==
  transmitList # <<>> =>
    \/ waitingOnRetry
    \/ sendEvent = Head(transmitList).tick
    \/ sendEvent = 1 /\ Head(transmitList).tick = 0

(***************************************************************************)
(* The port is in order: of its type, the list sorted, sendDeferredPacket  *)
(* and processSendEvent with their assertions, and no packet forgotten.    *)
(***************************************************************************)
PortInv == TypeOK /\ Sorted /\ PortAssertions /\ SendIsComing

(***************************************************************************)
(* Packets of one tick leave in the order in which they were put on the    *)
(* list: no step exchanges two packets of the list, a refusal included,    *)
(* and a new packet comes in front of later ones only.                     *)
(***************************************************************************)
OrderKept ==
  [][/\ \A i, j \in DOMAIN transmitList : i < j =>
          \A k \in DOMAIN transmitList' : transmitList'[k].pkt = transmitList[i].pkt =>
            \E m \in DOMAIN transmitList' : m > k /\ transmitList'[m].pkt = transmitList[j].pkt
     /\ \A k, m \in DOMAIN transmitList' : k < m /\ transmitList'[k].pkt \in Fresh =>
          transmitList'[k].tick < transmitList'[m].tick]_vars

(***************************************************************************)
(* Every packet that is put on the list is sent, and so a drain that was   *)
(* put off until the list is empty is completed.  (A packet is fresh until *)
(* it is put on the list, and never again.)                                *)
(***************************************************************************)
EverySent ==
  /\ \A p \in Packets : []<>(p \in Fresh \/ \E i \in DOMAIN sent : sent[i] = p)
  /\ []<>~drainEvent
=============================================================================

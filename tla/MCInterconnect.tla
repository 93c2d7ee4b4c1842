--------------------------- MODULE MCInterconnect ---------------------------
(***************************************************************************)
(* The interconnect for TLC: a bus (its arbitration and its port map), a   *)
(* timing port and a bridge.  The four do not touch each other's state;    *)
(* each is explored while the others are as they were at the start.        *)
(*                                                                         *)
(* Arbitration: four ports that send two packets each, so that the retry   *)
(* list grows to three behind a port that is retried.  Port map: devices   *)
(* whose ranges move and may conflict, at the lowest address, with the     *)
(* range below or only with the one above.  Timing port: four packets.     *)
(* Bridge: requests from both sides, a3 being a writeback, and room for    *)
(* one request and one response, so that it nacks for either reason.       *)
(***************************************************************************)
EXTENDS Bus, BusPortMap

CONSTANTS p1, p2, p3, p4, a1, a2, a3, b1, None

R(a, b) == [start |-> a, end |-> b]

Moving ==
  [p \in {p1, p2, p3} |->
     CASE p = p1 -> {<<>>, <<R(4, 4)>>}
       [] p = p2 -> {<<R(0, 2)>>, <<R(4, 5), R(0, 2)>>}
       [] p = p3 -> {<<>>, <<R(3, 3), R(6, 6)>>, <<R(6, 7)>>, <<R(0, 0)>>, <<R(3, 5)>>}]

VARIABLES
  transmitList, sendEvent, waitingOnRetry, portDrain, sent,
  sendQueue, queuedRequests, outstandingResponses, bridgeRetry, bridgeEvent, at, aborted

portVars == <<transmitList, sendEvent, waitingOnRetry, portDrain, sent>>

bridgeVars ==
  <<sendQueue, queuedRequests, outstandingResponses, bridgeRetry, bridgeEvent, at, aborted>>

Port == INSTANCE TimingPort WITH
          drainEvent    <- portDrain,
          Packets       <- {a1, a2, a3, b1},
          MaxDelay      <- 2

Br == INSTANCE Bridge WITH
        inRetry       <- bridgeRetry,
        sendEvent     <- bridgeEvent,
        Requests      <- {a1, a2, a3, b1},
        Side          <- [r \in {a1, a2, a3, b1} |-> IF r = b1 THEN "B" ELSE "A"],
        NeedsResponse <- {a1, a2, b1},
        ReqLimit      <- 1,
        RespLimit     <- 1,
        Delay         <- 2,
        NackDelay     <- 1

BusUnused == Init /\ MapInit

PortUnused == transmitList = <<>> /\ sent = <<>>

BridgeUnused == \A r \in DOMAIN at : at[r] = "unsent"

BusNext ==
  \/ Next /\ MapInit /\ UNCHANGED mapVars
  \/ MapNext /\ Init /\ UNCHANGED vars

MCInit == Init /\ MapInit /\ Port!Init /\ Br!Init

MCNext ==
  \/ PortUnused /\ BridgeUnused /\ BusNext /\ UNCHANGED <<portVars, bridgeVars>>
  \/ BusUnused /\ BridgeUnused /\ Port!Next /\ UNCHANGED <<vars, mapVars, bridgeVars>>
  \/ BusUnused /\ PortUnused /\ Br!Next /\ UNCHANGED <<vars, mapVars, portVars>>

MCSpec ==
  /\ MCInit /\ [][MCNext]_<<vars, mapVars, portVars, bridgeVars>>
  /\ Fairness /\ Port!Fairness /\ Br!Fairness

(***************************************************************************)
(* The properties of the port, stated in module TimingPort: the list, its  *)
(* event and its assertions; packets of one tick keep their order; every   *)
(* packet is sent.                                                         *)
(***************************************************************************)
PortInv == Port!PortInv
OrderKept == Port!OrderKept
EverySent == Port!EverySent

(***************************************************************************)
(* The properties of the bridge, stated in module Bridge: its queues are   *)
(* in order, the counters exact, so that there is room for every response, *)
(* and every request at one place, going to be sent; order is kept; and a  *)
(* request is answered, nacks notwithstanding.                             *)
(***************************************************************************)
BridgeInv == Br!QueuesInv
BridgeOrderKept == Br!OrderKept
BridgeEveryAnswered == Br!EveryAnswered
=============================================================================

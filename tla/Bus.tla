--------------------------------- MODULE Bus ---------------------------------
(***************************************************************************)
(* Arbitration on the timing bus, mem/bus.cc and bus.hh.  A port whose     *)
(* packet cannot be sent is put on the retry list; when the bus becomes    *)
(* idle the port at the head is called back, within which call its device  *)
(* sends again or lets the grant pass.                                     *)
(*                                                                         *)
(* Time is what the code compares: whether tickNextIdle is still to come.  *)
(* At tickNextIdle itself other events of the tick may run before the      *)
(* event busIdle, so TimePasses and BusFree are separate steps.            *)
(***************************************************************************)
EXTENDS Integers, Sequences

CONSTANTS
  Ports,      \* the ports of the bus
  Packets,    \* bound: packets that the device at a port sends
  Restored    \* whether the simulation starts from a checkpoint

ASSUME BusAssumption == Packets \in Nat /\ Restored \in BOOLEAN

VARIABLES
  busy,         \* tickNextIdle > curTick
  busIdle,      \* the event busIdle is scheduled
  retryList,
  onRetryList,  \* BusPort::_onRetryList
  inRetry,
  drainEvent,   \* drainEvent is not NULL
  waiting,      \* devices that hold a refused packet until they are called back
  owed,         \* a target has refused a packet and not yet called back
  left          \* packets a device has still to send

vars == <<busy, busIdle, retryList, onRetryList, inRetry, drainEvent, waiting, owed, left>>

OnList == {retryList[i] : i \in 1 .. Len(retryList)}

TypeOK ==
  /\ busy \in BOOLEAN
  /\ busIdle \in BOOLEAN
  /\ retryList \in Seq(Ports)
  /\ onRetryList \in [Ports -> BOOLEAN]
  /\ inRetry \in BOOLEAN
  /\ drainEvent \in BOOLEAN
  /\ waiting \in [Ports -> BOOLEAN]
  /\ owed \in BOOLEAN
  /\ left \in [Ports -> 0 .. Packets]

(* startup moves tickNextIdle to the next clock edge if the simulation     *)
(* does not begin at tick 0; it schedules nothing.                         *)
Init ==
  /\ busy = Restored
  /\ busIdle = FALSE
  /\ retryList = <<>>
  /\ onRetryList = [p \in Ports |-> FALSE]
  /\ inRetry = FALSE
  /\ drainEvent = FALSE
  /\ waiting = [p \in Ports |-> FALSE]
  /\ owed = FALSE
  /\ left = [p \in Ports |-> Packets]

(* A device sends a new packet unless one is waiting, or the waiting one   *)
(* when it is called back.                                                 *)
Retried(p) == inRetry /\ p = Head(retryList)

MaySend(p) == Retried(p) \/ (~waiting[p] /\ left[p] > 0)

(* The condition on which recvTiming turns the port away at once.          *)
MustWait(p) == busy \/ (retryList # <<>> /\ ~Retried(p))

(* Mutant: a port whose retry is refused goes to the end of the list.      *)
AddToTheEnd(p) ==
  /\ onRetryList' = [onRetryList EXCEPT ![p] = TRUE]
  /\ IF inRetry /\ onRetryList[p]
     THEN inRetry' = FALSE /\ retryList' = Append(Tail(retryList), p)
     ELSE retryList' = Append(retryList, p) /\ UNCHANGED inRetry

addToRetryList(p) ==
  /\ onRetryList' = [onRetryList EXCEPT ![p] = TRUE]
  /\ IF inRetry /\ onRetryList[p]
     THEN inRetry' = FALSE /\ UNCHANGED retryList
     ELSE retryList' = Append(retryList, p) /\ UNCHANGED inRetry

(* Mutant: the bus is occupied and nothing is scheduled, as in startup.    *)
OccupyOnly == busy' = TRUE /\ UNCHANGED busIdle

(* Occupying the bus takes at least one cycle and schedules busIdle.       *)
occupyBus == busy' = TRUE /\ busIdle' = TRUE

(* Mutant: the port keeps its flag.                                        *)
PopKeepsFlag ==
  /\ UNCHANGED onRetryList
  /\ retryList' = Tail(retryList)
  /\ inRetry' = FALSE

popRetryList ==
  /\ onRetryList' = [onRetryList EXCEPT ![Head(retryList)] = FALSE]
  /\ retryList' = Tail(retryList)
  /\ inRetry' = FALSE

(* recvTiming: the bus is busy or others are in line.                      *)
Wait(p) ==
  /\ MaySend(p) /\ MustWait(p)
  /\ addToRetryList(p)
  /\ waiting' = [waiting EXCEPT ![p] = TRUE]
  /\ UNCHANGED <<busy, busIdle, drainEvent, owed, left>>

(* recvTiming: the target refuses the packet.                              *)
Refuse(p) ==
  /\ MaySend(p) /\ ~MustWait(p)
  /\ addToRetryList(p)
  /\ occupyBus
  /\ waiting' = [waiting EXCEPT ![p] = TRUE]
  /\ owed' = TRUE
  /\ UNCHANGED <<drainEvent, left>>

(* recvTiming: the target takes the packet.                                *)
Deliver(p) ==
  /\ MaySend(p) /\ ~MustWait(p)
  /\ occupyBus
  /\ IF inRetry THEN popRetryList ELSE UNCHANGED <<retryList, onRetryList, inRetry>>
  /\ waiting' = [waiting EXCEPT ![p] = FALSE]
  /\ left' = [left EXCEPT ![p] = @ - 1]
  /\ UNCHANGED <<drainEvent, owed>>

(* Mutant: a pending drain is looked at only when somebody waits.          *)
RecvRetryNoDrain ==
  IF retryList # <<>> /\ ~busy
  THEN inRetry' = TRUE /\ UNCHANGED drainEvent
  ELSE UNCHANGED <<drainEvent, inRetry>>

(* recvRetry up to the call of sendRetry, or to its end if nobody waits.   *)
recvRetry ==
  IF retryList # <<>> /\ ~busy
  THEN inRetry' = TRUE /\ UNCHANGED drainEvent
  ELSE /\ drainEvent' = (drainEvent /\ (retryList # <<>> \/ busy))
       /\ UNCHANGED inRetry

(* Mutant: the grant that passed does not schedule the next one.           *)
MissedForGood ==
  /\ inRetry
  /\ popRetryList
  /\ waiting' = [waiting EXCEPT ![Head(retryList)] = FALSE]
  /\ left' = [left EXCEPT ![Head(retryList)] = @ - 1]
  /\ UNCHANGED <<busy, busIdle, drainEvent, owed>>

(* The rest of recvRetry if the device did not send: its packet has become *)
(* superfluous.  A cycle is lost.                                          *)
MissedGrant ==
  /\ inRetry
  /\ popRetryList
  /\ busy' = TRUE /\ busIdle' = TRUE
  /\ waiting' = [waiting EXCEPT ![Head(retryList)] = FALSE]
  /\ left' = [left EXCEPT ![Head(retryList)] = @ - 1]
  /\ UNCHANGED <<drainEvent, owed>>

TimePasses ==
  /\ busy /\ ~inRetry
  /\ busy' = FALSE
  /\ UNCHANGED <<busIdle, retryList, onRetryList, inRetry, drainEvent, waiting, owed, left>>

BusFree ==
  /\ busIdle /\ ~busy /\ ~inRetry
  /\ busIdle' = FALSE
  /\ recvRetry
  /\ UNCHANGED <<busy, retryList, onRetryList, waiting, owed, left>>

(* A target that refused a packet can take packets again.                  *)
TargetRetry ==
  /\ owed /\ ~inRetry
  /\ owed' = FALSE
  /\ recvRetry
  /\ UNCHANGED <<busy, busIdle, retryList, onRetryList, waiting, left>>

(* A call of drain that returns 1.                                         *)
drain ==
  /\ ~drainEvent /\ ~inRetry
  /\ retryList # <<>> \/ (busy /\ busIdle)
  /\ drainEvent' = TRUE
  /\ UNCHANGED <<busy, busIdle, retryList, onRetryList, inRetry, waiting, owed, left>>

Next ==
  \/ \E p \in Ports : Wait(p) \/ Refuse(p) \/ Deliver(p)
  \/ MissedGrant
  \/ TimePasses
  \/ BusFree
  \/ TargetRetry
  \/ drain

(* The clock and the event queue run, a call returns, and a target does    *)
(* not refuse the same packet for ever.                                    *)
Fairness ==
  /\ WF_vars(TimePasses)
  /\ WF_vars(BusFree)
  /\ WF_vars(inRetry /\ \E p \in Ports : Refuse(p) \/ Deliver(p))
  /\ SF_vars(inRetry /\ \E p \in Ports : Deliver(p))

Spec == Init /\ [][Next]_vars

FairSpec == Spec /\ Fairness

(***************************************************************************)
(* While a port waits, a step that will call it back is on its way: either *)
(* it is being called back, or the event that does so is scheduled.        *)
(***************************************************************************)
NoLostWakeup == retryList # <<>> => inRetry \/ busIdle

(***************************************************************************)
(* The devices that wait for a retry are the ports on the retry list, each *)
(* once, and the flag onRetryList says so; so the assertions of            *)
(* addToRetryList hold.                                                    *)
(***************************************************************************)
RetryListExact ==
  /\ \A p \in Ports : waiting[p] <=> p \in OnList
  /\ \A p \in Ports : onRetryList[p] <=> p \in OnList
  /\ \A i, j \in 1 .. Len(retryList) : i # j => retryList[i] # retryList[j]

(***************************************************************************)
(* The assertions of addToRetryList, for every port that could be refused  *)
(* now: out of a retry it is not on the list, within one it may be there   *)
(* only as the head.                                                       *)
(***************************************************************************)
AddAssertions ==
  \A p \in Ports : MaySend(p) /\ onRetryList[p] => Retried(p)

(***************************************************************************)
(* The retry list is in order: of its type, exact, and never given a port  *)
(* that addToRetryList asserts it does not get.                            *)
(***************************************************************************)
BusInv == TypeOK /\ RetryListExact /\ AddAssertions

(***************************************************************************)
(* First come, first served: of two waiting ports the later one is never   *)
(* ahead of the earlier, and does not leave before it, a refused retry     *)
(* included ("we'll leave it at the head of the retry list").              *)
(***************************************************************************)
NoOvertaking ==
  [][\A i, j \in 1 .. Len(retryList) : i < j =>
       \/ retryList[i] \notin OnList'
       \/ \E k, m \in 1 .. Len(retryList') :
            k < m /\ retryList'[k] = retryList[i] /\ retryList'[m] = retryList[j]]_vars

(***************************************************************************)
(* A device whose packet was refused does not wait for ever.               *)
(***************************************************************************)
EveryPortServed == \A p \in Ports : []<>~waiting[p]

(***************************************************************************)
(* A drain that was put off is completed.                                  *)
(***************************************************************************)
DrainCompletes == []<>~drainEvent
=============================================================================

--------------------------- MODULE Scheduling_proofs ---------------------------
(***************************************************************************)
(* The two lists that decide who goes next in a simulation.  First the     *)
(* retry list of the bus, for any set of ports and any number of packets:  *)
(* it holds exactly the waiting devices, nobody is overtaken, and in a     *)
(* simulation that starts at tick 0 no wake-up is lost.  Then the list of  *)
(* events that the event queue implements, for any set of events and any   *)
(* priorities.                                                             *)
(***************************************************************************)
EXTENDS Bus, EventOrder, TLAPS

VARIABLES list, when, squashed, curTick

Queue == INSTANCE EventList


Elems(s) == {s[i] : i \in 1 .. Len(s)}

Distinct(s) == \A i, j \in 1 .. Len(s) : i # j => s[i] # s[j]

LEMMA AppendFact ==
  ASSUME NEW s \in Seq(Ports), NEW p \in Ports, p \notin Elems(s), Distinct(s)
  PROVE  /\ Append(s, p) \in Seq(Ports)
         /\ Elems(Append(s, p)) = Elems(s) \cup {p}
         /\ Distinct(Append(s, p))
         /\ Append(s, p) # <<>>
<1>1. /\ Len(s) \in Nat /\ Len(Append(s, p)) = Len(s) + 1
      /\ \A i \in 1 .. Len(s) : Append(s, p)[i] = s[i] /\ s[i] # p
      /\ Append(s, p)[Len(s) + 1] = p
  BY DEF Elems
<1>2. Elems(Append(s, p)) = Elems(s) \cup {p}
  <2>1. ASSUME NEW x \in Elems(Append(s, p)) PROVE x \in Elems(s) \cup {p}
    <3>1. PICK i \in 1 .. Len(Append(s, p)) : x = Append(s, p)[i]
      BY Zenon DEF Elems
    <3> QED BY <1>1, <3>1 DEF Elems
  <2>2. ASSUME NEW x \in Elems(s) \cup {p} PROVE x \in Elems(Append(s, p))
    <3>1. CASE x = p
      <4>1. Len(s) + 1 \in 1 .. Len(Append(s, p))
        BY <1>1
      <4> QED BY <1>1, <3>1, <4>1, Zenon DEF Elems
    <3>2. CASE x \in Elems(s)
      <4>1. PICK i \in 1 .. Len(s) : x = s[i]
        BY <3>2, Zenon DEF Elems
      <4>2. i \in 1 .. Len(Append(s, p)) /\ x = Append(s, p)[i]
        BY <1>1, <4>1
      <4> QED BY <4>2, Zenon DEF Elems
    <3> QED BY <3>1, <3>2, Zenon
  <2> QED BY <2>1, <2>2, Zenon
<1>3. Distinct(Append(s, p))
  BY <1>1 DEF Distinct
<1>4. Append(s, p) \in Seq(Ports)
  OBVIOUS
<1>5. Append(s, p) # <<>>
  <2>1. Len(Append(s, p)) # 0
    BY <1>1
  <2>2. Len(<<>>) = 0
    OBVIOUS
  <2> QED BY <2>1, <2>2, Zenon
<1> QED BY <1>2, <1>3, <1>4, <1>5, Zenon

LEMMA TailFact ==
  ASSUME NEW s \in Seq(Ports), s # <<>>, Distinct(s)
  PROVE  /\ Tail(s) \in Seq(Ports)
         /\ Head(s) \in Ports
         /\ Elems(Tail(s)) = Elems(s) \ {Head(s)}
         /\ Head(s) \in Elems(s)
         /\ Distinct(Tail(s))
<1>1. /\ Len(s) \in Nat \ {0} /\ Len(Tail(s)) = Len(s) - 1
      /\ Tail(s) \in Seq(Ports)
      /\ \A i \in 1 .. Len(s) - 1 : Tail(s)[i] = s[i + 1]
      /\ Head(s) = s[1] /\ s[1] \in Ports
  OBVIOUS
<1>2. Elems(Tail(s)) = Elems(s) \ {Head(s)}
  <2>1. ASSUME NEW x \in Elems(Tail(s)) PROVE x \in Elems(s) \ {Head(s)}
    <3>1. PICK i \in 1 .. Len(Tail(s)) : x = Tail(s)[i]
      BY Zenon DEF Elems
    <3>2. i + 1 \in 1 .. Len(s) /\ 1 \in 1 .. Len(s) /\ x = s[i + 1] /\ i + 1 # 1
      BY <1>1, <3>1
    <3>3. x # s[1]
      BY <3>2, Zenon DEF Distinct
    <3> QED BY <1>1, <3>2, <3>3, Zenon DEF Elems
  <2>2. ASSUME NEW x \in Elems(s) \ {Head(s)} PROVE x \in Elems(Tail(s))
    <3>1. PICK i \in 1 .. Len(s) : x = s[i] /\ x # s[1]
      BY <1>1, Zenon DEF Elems
    <3>2. i - 1 \in 1 .. Len(Tail(s)) /\ Tail(s)[i - 1] = s[i]
      BY <1>1, <3>1
    <3> QED BY <3>1, <3>2, Zenon DEF Elems
  <2> QED BY <2>1, <2>2, Zenon
<1>3. Distinct(Tail(s))
  BY <1>1 DEF Distinct
<1>4. Head(s) \in Elems(s)
  <2>1. 1 \in 1 .. Len(s)
    BY <1>1
  <2> QED BY <1>1, <2>1, Zenon DEF Elems
<1> QED BY <1>1, <1>2, <1>3, <1>4, Zenon

(***************************************************************************)
(* The inductive invariant.  A retry goes on only at a time the bus is     *)
(* idle, a waiting device has a packet left, and, unless the simulation    *)
(* began at a later tick than 0, a busy bus has scheduled its event.       *)
(***************************************************************************)
IInv ==
  /\ TypeOK
  /\ RetryListExact
  /\ inRetry => retryList # <<>> /\ ~busy
  /\ \A p \in Ports : waiting[p] => left[p] > 0
  /\ ~Restored => (busy => busIdle) /\ NoLostWakeup

LEMMA ExactFact ==
  RetryListExact <=>
    /\ \A p \in Ports : waiting[p] <=> p \in Elems(retryList)
    /\ \A p \in Ports : onRetryList[p] <=> p \in Elems(retryList)
    /\ Distinct(retryList)
BY Zenon DEF RetryListExact, OnList, Elems, Distinct

LEMMA ExactFactNext ==
  RetryListExact' <=>
    /\ \A p \in Ports : waiting'[p] <=> p \in Elems(retryList')
    /\ \A p \in Ports : onRetryList'[p] <=> p \in Elems(retryList')
    /\ Distinct(retryList')
BY Zenon DEF RetryListExact, OnList, Elems, Distinct

LEMMA InitIInv == Init => IInv
<1> SUFFICES ASSUME Init PROVE IInv
  OBVIOUS
<1>1. TypeOK
  <2>1. left \in [Ports -> 0 .. Packets]
    BY BusAssumption DEF Init
  <2>2. retryList \in Seq(Ports)
    BY DEF Init
  <2> QED BY <2>1, <2>2, BusAssumption, Zenon DEF Init, TypeOK
<1>2. RetryListExact
  BY DEF Init, RetryListExact, OnList
<1> QED BY <1>1, <1>2, Zenon DEF Init, IInv, NoLostWakeup

(* A port joins the end of the list, or stays at its head.                 *)
LEMMA AddStep ==
  ASSUME IInv, NEW p \in Ports, MaySend(p), addToRetryList(p),
         waiting' = [waiting EXCEPT ![p] = TRUE]
  PROVE  /\ RetryListExact'
         /\ retryList' \in Seq(Ports) /\ retryList' # <<>>
         /\ onRetryList' \in [Ports -> BOOLEAN]
         /\ waiting' \in [Ports -> BOOLEAN]
         /\ \/ inRetry' = FALSE /\ retryList' = retryList /\ Retried(p)
            \/ inRetry' = inRetry /\ retryList' = Append(retryList, p) /\ ~Retried(p)
<1>1. /\ retryList \in Seq(Ports) /\ onRetryList \in [Ports -> BOOLEAN]
      /\ waiting \in [Ports -> BOOLEAN] /\ inRetry \in BOOLEAN
  BY Zenon DEF IInv, TypeOK
<1>2. /\ \A q \in Ports : waiting[q] <=> q \in Elems(retryList)
      /\ \A q \in Ports : onRetryList[q] <=> q \in Elems(retryList)
      /\ Distinct(retryList)
  BY ExactFact, Zenon DEF IInv
<1>3. /\ onRetryList' = [onRetryList EXCEPT ![p] = TRUE]
      /\ waiting' = [waiting EXCEPT ![p] = TRUE]
  BY Zenon DEF addToRetryList
<1>4. CASE Retried(p)
  <2>1. inRetry /\ retryList # <<>> /\ p = Head(retryList)
    BY <1>4, Zenon DEF Retried, IInv
  <2>2. p \in Elems(retryList)
    BY <1>1, <1>2, <2>1, TailFact, Zenon
  <2>3. inRetry' = FALSE /\ retryList' = retryList
    BY <1>2, <2>1, <2>2, Zenon DEF addToRetryList
  <2>4. RetryListExact'
    <3>1. \A q \in Ports : waiting'[q] <=> q \in Elems(retryList)
      BY <1>1, <1>2, <1>3, <2>2, Zenon
    <3>2. \A q \in Ports : onRetryList'[q] <=> q \in Elems(retryList)
      BY <1>1, <1>2, <1>3, <2>2, Zenon
    <3> QED BY <1>2, <2>3, <3>1, <3>2, ExactFactNext, Zenon
  <2> QED BY <1>1, <1>3, <1>4, <2>1, <2>3, <2>4, Zenon
<1>5. CASE ~Retried(p)
  <2>1. p \notin Elems(retryList)
    BY <1>2, <1>5, Zenon DEF MaySend
  <2>2. inRetry' = inRetry /\ retryList' = Append(retryList, p)
    BY <1>2, <2>1, Zenon DEF addToRetryList
  <2>3. /\ Append(retryList, p) \in Seq(Ports)
        /\ Elems(Append(retryList, p)) = Elems(retryList) \cup {p}
        /\ Distinct(Append(retryList, p))
        /\ Append(retryList, p) # <<>>
    BY <1>1, <1>2, <2>1, AppendFact, Zenon
  <2>4. RetryListExact'
    <3>1. \A q \in Ports : waiting'[q] <=> q \in Elems(retryList')
      BY <1>1, <1>2, <1>3, <2>2, <2>3, Zenon
    <3>2. \A q \in Ports : onRetryList'[q] <=> q \in Elems(retryList')
      BY <1>1, <1>2, <1>3, <2>2, <2>3, Zenon
    <3> QED BY <2>2, <2>3, <3>1, <3>2, ExactFactNext, Zenon
  <2> QED BY <1>1, <1>3, <1>5, <2>2, <2>3, <2>4, Zenon
<1> QED BY <1>4, <1>5, Zenon

(* The head leaves the list.                                               *)
LEMMA PopStep ==
  ASSUME IInv, inRetry, popRetryList,
         waiting' = [waiting EXCEPT ![Head(retryList)] = FALSE]
  PROVE  /\ RetryListExact'
         /\ retryList' \in Seq(Ports)
         /\ Head(retryList) \in Ports /\ waiting[Head(retryList)]
         /\ onRetryList' \in [Ports -> BOOLEAN]
         /\ waiting' \in [Ports -> BOOLEAN]
         /\ retryList' = Tail(retryList) /\ inRetry' = FALSE
<1>1. /\ retryList \in Seq(Ports) /\ onRetryList \in [Ports -> BOOLEAN]
      /\ waiting \in [Ports -> BOOLEAN] /\ retryList # <<>>
  BY Zenon DEF IInv, TypeOK
<1>2. /\ \A q \in Ports : waiting[q] <=> q \in Elems(retryList)
      /\ \A q \in Ports : onRetryList[q] <=> q \in Elems(retryList)
      /\ Distinct(retryList)
  BY ExactFact, Zenon DEF IInv
<1>3. /\ onRetryList' = [onRetryList EXCEPT ![Head(retryList)] = FALSE]
      /\ retryList' = Tail(retryList) /\ inRetry' = FALSE
  BY Zenon DEF popRetryList
<1>4. /\ Tail(retryList) \in Seq(Ports)
      /\ Head(retryList) \in Ports
      /\ Elems(Tail(retryList)) = Elems(retryList) \ {Head(retryList)}
      /\ Head(retryList) \in Elems(retryList)
      /\ Distinct(Tail(retryList))
  BY <1>1, <1>2, TailFact, Zenon
<1>5. \A q \in Ports : waiting'[q] <=> q \in Elems(retryList')
  BY <1>1, <1>2, <1>3, <1>4, Zenon
<1>6. \A q \in Ports : onRetryList'[q] <=> q \in Elems(retryList')
  BY <1>1, <1>2, <1>3, <1>4, Zenon
<1>7. RetryListExact'
  BY <1>3, <1>4, <1>5, <1>6, ExactFactNext, Zenon
<1> QED BY <1>1, <1>2, <1>3, <1>4, <1>7, Zenon

LEMMA NextIInv == IInv /\ [Next]_vars => IInv'
<1> SUFFICES ASSUME IInv, [Next]_vars PROVE IInv'
  OBVIOUS
<1>0. /\ TypeOK /\ RetryListExact /\ (inRetry => retryList # <<>> /\ ~busy)
      /\ \A p \in Ports : waiting[p] => left[p] > 0
      /\ ~Restored => (busy => busIdle) /\ NoLostWakeup
  BY Zenon DEF IInv
<1>1. ASSUME NEW p \in Ports, Wait(p) PROVE IInv'
  <2>1. /\ MaySend(p) /\ MustWait(p) /\ addToRetryList(p)
        /\ waiting' = [waiting EXCEPT ![p] = TRUE]
        /\ UNCHANGED <<busy, busIdle, drainEvent, owed, left>>
    BY <1>1, Zenon DEF Wait
  <2>2. /\ RetryListExact'
        /\ retryList' \in Seq(Ports) /\ retryList' # <<>>
        /\ onRetryList' \in [Ports -> BOOLEAN]
        /\ waiting' \in [Ports -> BOOLEAN]
        /\ \/ inRetry' = FALSE /\ retryList' = retryList /\ Retried(p)
           \/ inRetry' = inRetry /\ retryList' = Append(retryList, p) /\ ~Retried(p)
    BY <2>1, AddStep, Zenon
  <2>3. ~Retried(p)
    BY <1>0, <2>1, Zenon DEF MustWait, Retried
  <2>4. inRetry' = inRetry
    BY <2>2, <2>3, Zenon
  <2>5. TypeOK'
    BY <1>0, <2>1, <2>2, <2>4, Zenon DEF TypeOK
  <2>6. \A q \in Ports : waiting'[q] => left'[q] > 0
    BY <1>0, <2>1, <2>3, Zenon DEF MaySend, TypeOK
  <2>7. ~Restored => (busy' => busIdle') /\ NoLostWakeup'
    BY <1>0, <2>1, <2>3, <2>4, Zenon DEF NoLostWakeup, MustWait
  <2> QED BY <1>0, <2>1, <2>2, <2>4, <2>5, <2>6, <2>7, Zenon DEF IInv
<1>2. ASSUME NEW p \in Ports, Refuse(p) PROVE IInv'
  <2>1. /\ MaySend(p) /\ ~MustWait(p) /\ addToRetryList(p)
        /\ waiting' = [waiting EXCEPT ![p] = TRUE]
        /\ busy' = TRUE /\ busIdle' = TRUE /\ owed' = TRUE
        /\ UNCHANGED <<drainEvent, left>>
    BY <1>2, Zenon DEF Refuse, occupyBus
  <2>2. /\ RetryListExact'
        /\ retryList' \in Seq(Ports) /\ retryList' # <<>>
        /\ onRetryList' \in [Ports -> BOOLEAN]
        /\ waiting' \in [Ports -> BOOLEAN]
        /\ \/ inRetry' = FALSE /\ retryList' = retryList /\ Retried(p)
           \/ inRetry' = inRetry /\ retryList' = Append(retryList, p) /\ ~Retried(p)
    BY <2>1, AddStep, Zenon
  <2>3. inRetry' = FALSE
    BY <1>0, <2>1, <2>2, Zenon DEF MustWait, TypeOK
  <2>4. TypeOK'
    BY <1>0, <2>1, <2>2, <2>3, BusAssumption, Zenon DEF TypeOK
  <2>5. waiting[p] \/ left[p] > 0
    BY <1>0, <2>1, ExactFact, TailFact, Zenon DEF MaySend, Retried, TypeOK
  <2>6. \A q \in Ports : waiting'[q] => left'[q] > 0
    BY <1>0, <2>1, <2>5, Zenon DEF TypeOK
  <2> QED BY <2>1, <2>2, <2>3, <2>4, <2>6, Zenon DEF IInv, NoLostWakeup
<1>3. ASSUME NEW p \in Ports, Deliver(p) PROVE IInv'
  <2>1. /\ MaySend(p) /\ ~MustWait(p)
        /\ busy' = TRUE /\ busIdle' = TRUE
        /\ waiting' = [waiting EXCEPT ![p] = FALSE]
        /\ left' = [left EXCEPT ![p] = @ - 1]
        /\ UNCHANGED <<drainEvent, owed>>
    BY <1>3, Zenon DEF Deliver, occupyBus
  <2>2. CASE inRetry
    <3>1. popRetryList /\ Retried(p) /\ p = Head(retryList)
      BY <1>0, <1>3, <2>1, <2>2, Zenon DEF Deliver, MustWait, Retried
    <3>2. /\ RetryListExact' /\ retryList' \in Seq(Ports) /\ waiting[p]
          /\ onRetryList' \in [Ports -> BOOLEAN]
          /\ waiting' \in [Ports -> BOOLEAN] /\ inRetry' = FALSE
      BY <2>1, <2>2, <3>1, PopStep, Zenon
    <3>3. left[p] > 0
      BY <1>0, <3>2, Zenon
    <3>4. TypeOK'
      <4>1. left' \in [Ports -> 0 .. Packets]
        BY <1>0, <2>1, <3>3, BusAssumption DEF TypeOK
      <4> QED BY <1>0, <2>1, <3>2, <4>1, Zenon DEF TypeOK
    <3>5. \A q \in Ports : waiting'[q] => left'[q] > 0
      BY <1>0, <2>1, Zenon DEF TypeOK
    <3> QED BY <2>1, <3>2, <3>4, <3>5, Zenon DEF IInv, NoLostWakeup
  <2>3. CASE ~inRetry
    <3>1. UNCHANGED <<retryList, onRetryList, inRetry>>
      BY <1>3, <2>3, Zenon DEF Deliver
    <3>2. ~waiting[p] /\ left[p] > 0
      BY <2>1, <2>3, Zenon DEF MaySend, Retried
    <3>3. TypeOK'
      BY <1>0, <2>1, <3>1, <3>2, BusAssumption DEF TypeOK
    <3>4. waiting' = waiting
      BY <1>0, <2>1, <3>2, Zenon DEF TypeOK
    <3>5. RetryListExact'
      BY <1>0, <3>1, <3>4, Zenon DEF RetryListExact, OnList
    <3>6. \A q \in Ports : waiting'[q] => left'[q] > 0
      BY <1>0, <2>1, <3>2, <3>4, Zenon DEF TypeOK
    <3> QED BY <2>1, <2>3, <3>1, <3>3, <3>5, <3>6, Zenon DEF IInv, NoLostWakeup
  <2> QED BY <2>2, <2>3, Zenon
<1>4. CASE MissedGrant
  <2>1. /\ inRetry /\ popRetryList /\ busy' = TRUE /\ busIdle' = TRUE
        /\ waiting' = [waiting EXCEPT ![Head(retryList)] = FALSE]
        /\ left' = [left EXCEPT ![Head(retryList)] = @ - 1]
        /\ UNCHANGED <<drainEvent, owed>>
    BY <1>4, Zenon DEF MissedGrant
  <2>2. /\ RetryListExact' /\ retryList' \in Seq(Ports)
        /\ Head(retryList) \in Ports /\ waiting[Head(retryList)]
        /\ onRetryList' \in [Ports -> BOOLEAN]
        /\ waiting' \in [Ports -> BOOLEAN] /\ inRetry' = FALSE
    BY <2>1, PopStep, Zenon
  <2>3. left[Head(retryList)] > 0
    BY <1>0, <2>2, Zenon
  <2>4. TypeOK'
    <3>1. left' \in [Ports -> 0 .. Packets]
      BY <1>0, <2>1, <2>2, <2>3, BusAssumption DEF TypeOK
    <3> QED BY <1>0, <2>1, <2>2, <3>1, Zenon DEF TypeOK
  <2>5. \A q \in Ports : waiting'[q] => left'[q] > 0
    BY <1>0, <2>1, <2>2, Zenon DEF TypeOK
  <2> QED BY <2>1, <2>2, <2>4, <2>5, Zenon DEF IInv, NoLostWakeup
<1>5. CASE TimePasses
  <2>1. TypeOK'
    BY <1>0, <1>5, Zenon DEF TimePasses, TypeOK
  <2>2. RetryListExact' /\ \A q \in Ports : waiting'[q] => left'[q] > 0
    BY <1>0, <1>5, Zenon DEF TimePasses, RetryListExact, OnList
  <2> QED BY <1>0, <1>5, <2>1, <2>2, Zenon DEF TimePasses, IInv, NoLostWakeup
<1>6. CASE BusFree
  <2>1. TypeOK'
    BY <1>0, <1>6, Zenon DEF BusFree, recvRetry, TypeOK
  <2>2. RetryListExact' /\ \A q \in Ports : waiting'[q] => left'[q] > 0
    BY <1>0, <1>6, Zenon DEF BusFree, RetryListExact, OnList
  <2> QED BY <1>0, <1>6, <2>1, <2>2, Zenon DEF BusFree, recvRetry, IInv, NoLostWakeup
<1>7. CASE TargetRetry
  <2>1. TypeOK'
    BY <1>0, <1>7, Zenon DEF TargetRetry, recvRetry, TypeOK
  <2>2. RetryListExact' /\ \A q \in Ports : waiting'[q] => left'[q] > 0
    BY <1>0, <1>7, Zenon DEF TargetRetry, RetryListExact, OnList
  <2> QED BY <1>0, <1>7, <2>1, <2>2, Zenon DEF TargetRetry, recvRetry, IInv, NoLostWakeup
<1>8. CASE drain
  BY <1>0, <1>8 DEF drain, IInv, TypeOK, RetryListExact, OnList, NoLostWakeup
<1>9. CASE UNCHANGED vars
  BY <1>0, <1>9 DEF vars, IInv, TypeOK, RetryListExact, OnList, NoLostWakeup
<1> QED BY <1>1, <1>2, <1>3, <1>4, <1>5, <1>6, <1>7, <1>8, <1>9, Zenon DEF Next

LEMMA SpecIInv == Spec => []IInv
BY InitIInv, NextIInv, PTL DEF Spec

(***************************************************************************)
(* In a simulation that starts at tick 0 no wake-up is lost.               *)
(***************************************************************************)
THEOREM BusNoLostWakeup == ASSUME ~Restored PROVE Spec => []NoLostWakeup
<1>1. IInv => NoLostWakeup
  BY Zenon DEF IInv
<1> QED BY <1>1, SpecIInv, PTL

(***************************************************************************)
(* The retry list is exactly the set of waiting devices, each once, the    *)
(* assertions of addToRetryList never fail, and no device sends more       *)
(* packets than it has, for any number of ports.                           *)
(***************************************************************************)
THEOREM BusSafe == Spec => []BusInv
<1>1. IInv => AddAssertions
  BY ExactFact, Zenon DEF IInv, AddAssertions, MaySend
<1>2. IInv => BusInv
  BY <1>1, Zenon DEF IInv, BusInv
<1> QED BY <1>2, SpecIInv, PTL

(* The only ways the retry list changes.                                   *)
LEMMA ListSteps ==
  ASSUME IInv, [Next]_vars
  PROVE  \/ retryList' = retryList
         \/ \E p \in Ports : retryList' = Append(retryList, p)
         \/ retryList # <<>> /\ retryList' = Tail(retryList)
<1>1. ASSUME NEW p \in Ports, Wait(p) \/ Refuse(p)
      PROVE  retryList' = retryList \/ retryList' = Append(retryList, p)
  BY <1>1, Zenon DEF Wait, Refuse, addToRetryList
<1>2. ASSUME NEW p \in Ports, Deliver(p)
      PROVE  retryList' = retryList \/ (retryList # <<>> /\ retryList' = Tail(retryList))
  BY <1>2, Zenon DEF Deliver, popRetryList, IInv
<1>3. CASE MissedGrant
  BY <1>3, Zenon DEF MissedGrant, popRetryList, IInv
<1>4. CASE TimePasses \/ BusFree \/ TargetRetry \/ drain \/ UNCHANGED vars
  BY <1>4, Zenon DEF TimePasses, BusFree, TargetRetry, drain, vars
<1> QED BY <1>1, <1>2, <1>3, <1>4, Zenon DEF Next

(***************************************************************************)
(* First come, first served, for any number of ports.                      *)
(***************************************************************************)
THEOREM BusNoOvertaking == Spec => NoOvertaking
<1> DEFINE InLine == \A i, j \in 1 .. Len(retryList) : i < j =>
       \/ retryList[i] \notin OnList'
       \/ \E k, m \in 1 .. Len(retryList') :
            k < m /\ retryList'[k] = retryList[i] /\ retryList'[m] = retryList[j]
<1>1. IInv /\ [Next]_vars => [InLine]_vars
  <2> SUFFICES ASSUME IInv, [Next]_vars,
                      NEW i \in 1 .. Len(retryList), NEW j \in 1 .. Len(retryList), i < j
               PROVE  \/ retryList[i] \notin OnList'
                      \/ \E k, m \in 1 .. Len(retryList') :
                           /\ k < m
                           /\ retryList'[k] = retryList[i]
                           /\ retryList'[m] = retryList[j]
    OBVIOUS
  <2>1. retryList \in Seq(Ports) /\ Len(retryList) \in Nat /\ Distinct(retryList)
    BY ExactFact DEF IInv, TypeOK
  <2>2. CASE retryList' = retryList
    BY <2>2, Zenon
  <2>3. ASSUME NEW p \in Ports, retryList' = Append(retryList, p)
        PROVE  \E k, m \in 1 .. Len(retryList') :
                 /\ k < m
                 /\ retryList'[k] = retryList[i]
                 /\ retryList'[m] = retryList[j]
    <3>1. /\ i \in 1 .. Len(retryList') /\ j \in 1 .. Len(retryList')
          /\ retryList'[i] = retryList[i] /\ retryList'[j] = retryList[j]
      BY <2>1, <2>3
    <3> QED BY <3>1, Zenon
  <2>4. CASE retryList # <<>> /\ retryList' = Tail(retryList)
    <3>1. CASE i = 1
      <4>1. retryList[1] = Head(retryList) /\ Head(retryList) \notin Elems(Tail(retryList))
        BY <2>1, <2>4, TailFact
      <4> QED BY <2>4, <3>1, <4>1, Zenon DEF OnList, Elems
    <3>2. CASE i > 1
      <4>1. /\ i - 1 \in 1 .. Len(retryList') /\ j - 1 \in 1 .. Len(retryList')
            /\ i - 1 < j - 1
            /\ retryList'[i - 1] = retryList[i] /\ retryList'[j - 1] = retryList[j]
        BY <2>1, <2>4, <3>2
      <4> QED BY <4>1, Zenon
    <3> QED BY <3>1, <3>2
  <2> QED BY <2>2, <2>3, <2>4, ListSteps, Zenon
<1> QED BY <1>1, SpecIInv, PTL DEF Spec, NoOvertaking
-----------------------------------------------------------------------------


(* A list s is fit for the times w and the present time now.               *)
Fit(s, w, now) ==
  /\ s \in Seq(Events)
  /\ Queue!InOrder(s, w)
  /\ Queue!Distinct(s)
  /\ \A i \in 1 .. Len(s) : w[s[i]] >= now

LEMMA WithoutFact ==
  ASSUME NEW s \in Seq(Events), NEW k \in 1 .. Len(s)
  PROVE  /\ Queue!Without(s, k) \in Seq(Events)
         /\ Len(Queue!Without(s, k)) = Len(s) - 1
         /\ \A i \in 1 .. Len(s) - 1 :
              Queue!Without(s, k)[i] = IF i < k THEN s[i] ELSE s[i + 1]
BY DEF Queue!Without

LEMMA InsertFact ==
  ASSUME NEW s \in Seq(Events), NEW e \in Events, NEW k \in 0 .. Len(s), NEW t,
         t = [i \in 1 .. Len(s) + 1 |-> IF i <= k THEN s[i]
                                         ELSE IF i = k + 1 THEN e ELSE s[i - 1]]
  PROVE  /\ t \in Seq(Events)
         /\ Len(t) = Len(s) + 1
         /\ \A i \in 1 .. Len(t) :
              t[i] = IF i <= k THEN s[i] ELSE IF i = k + 1 THEN e ELSE s[i - 1]
OBVIOUS

(* The order on events is a strict weak order.                             *)
LEMMA BeforeWeakOrder ==
  ASSUME NEW w \in [Events -> Queue!Ticks], NEW x \in Events, NEW y \in Events, NEW z \in Events
  PROVE  /\ Queue!Before(w, x, y) => ~Queue!Before(w, y, x)
         /\ ~Queue!Before(w, x, y) /\ Queue!Before(w, x, z) => Queue!Before(w, y, z)
BY EventOrderAssumption DEF Queue!Before, Queue!Ticks

(* Removing an event keeps a list fit, and the event is gone.              *)
LEMMA WithoutFit ==
  ASSUME NEW s, NEW w \in [Events -> Queue!Ticks], NEW now \in Queue!Ticks, Fit(s, w, now),
         NEW k \in 1 .. Len(s)
  PROVE  Fit(Queue!Without(s, k), w, now) /\ s[k] \notin Queue!InList(Queue!Without(s, k))
<1>1. s \in Seq(Events) /\ Len(s) \in Nat
  BY DEF Fit
<1> DEFINE r == Queue!Without(s, k)
<1>2. /\ r \in Seq(Events)
      /\ Len(r) = Len(s) - 1
      /\ \A i \in 1 .. Len(s) - 1 : r[i] = IF i < k THEN s[i] ELSE s[i + 1]
  BY <1>1, WithoutFact, Zenon
<1> HIDE DEF r
<1>3. Queue!InOrder(r, w)
  BY <1>1, <1>2 DEF Fit, Queue!InOrder
<1>4. Queue!Distinct(r)
  <2> SUFFICES ASSUME NEW i \in 1 .. Len(r), NEW j \in 1 .. Len(r), i # j
               PROVE  r[i] # r[j]
    BY Zenon DEF Queue!Distinct
  <2>1. PICK m \in 1 .. Len(s) : m = IF i < k THEN i ELSE i + 1
    BY <1>1, <1>2
  <2>2. PICK n \in 1 .. Len(s) : n = IF j < k THEN j ELSE j + 1
    BY <1>1, <1>2
  <2>3. r[i] = s[m] /\ r[j] = s[n]
    BY <1>1, <1>2, <2>1, <2>2
  <2>4. m # n
    BY <1>1, <2>1, <2>2
  <2>5. Queue!Distinct(s)
    BY Zenon DEF Fit
  <2> QED BY <2>3, <2>4, <2>5, Zenon DEF Queue!Distinct
<1>5. \A i \in 1 .. Len(r) : w[r[i]] >= now
  BY <1>1, <1>2 DEF Fit
<1>6. s[k] \notin Queue!InList(r)
  <2>1. \A i \in 1 .. Len(r) : r[i] # s[k]
    BY <1>1, <1>2 DEF Fit, Queue!Distinct
  <2> QED BY <2>1, Zenon DEF Queue!InList
<1> QED BY <1>2, <1>3, <1>4, <1>5, <1>6, Zenon DEF Fit, r

(* It is enough to compare each event with the later ones.                 *)
LEMMA OneWayDistinct ==
  ASSUME NEW t, Len(t) \in Nat,
         \A i, j \in 1 .. Len(t) : i < j => t[i] # t[j]
  PROVE  Queue!Distinct(t)
<1> SUFFICES ASSUME NEW i \in 1 .. Len(t), NEW j \in 1 .. Len(t), i # j
             PROVE  t[i] # t[j]
  BY Zenon DEF Queue!Distinct
<1>1. i < j \/ j < i
  OBVIOUS
<1> QED BY <1>1, Zenon

(* Inserting an event that is not in the list keeps it fit.                *)
LEMMA InsertedFit ==
  ASSUME NEW s, NEW w \in [Events -> Queue!Ticks], NEW now \in Queue!Ticks, Fit(s, w, now),
         NEW e \in Events, e \notin Queue!InList(s), w[e] >= now,
         NEW t, Queue!Inserted(s, w, e, t)
  PROVE  Fit(t, w, now)
<1>1. s \in Seq(Events) /\ Len(s) \in Nat
  BY DEF Fit
<1>2. PICK k \in 0 .. Len(s) :
        /\ \A i \in 1 .. k : Queue!Before(w, s[i], e)
        /\ \A i \in k + 1 .. Len(s) : ~Queue!Before(w, s[i], e)
        /\ t = [i \in 1 .. Len(s) + 1 |-> IF i <= k THEN s[i]
                                           ELSE IF i = k + 1 THEN e ELSE s[i - 1]]
  BY Zenon DEF Queue!Inserted
<1>3. /\ t \in Seq(Events)
      /\ Len(t) = Len(s) + 1
      /\ \A i \in 1 .. Len(t) :
           t[i] = IF i <= k THEN s[i] ELSE IF i = k + 1 THEN e ELSE s[i - 1]
  BY <1>1, <1>2, InsertFact
<1>4. \A i \in 1 .. Len(s) : s[i] # e /\ s[i] \in Events
  BY <1>1 DEF Queue!InList
<1>5. Queue!Distinct(t)
  <2>1. \A i, j \in 1 .. Len(s) : i # j => s[i] # s[j]
    BY Zenon DEF Fit, Queue!Distinct
  <2>7. Len(t) \in Nat
    BY <1>1, <1>3
  <2> SUFFICES ASSUME NEW i \in 1 .. Len(t), NEW j \in 1 .. Len(t), i < j
               PROVE  t[i] # t[j]
    BY <2>7, OneWayDistinct, Zenon
  <2>2. CASE j <= k
    <3>1. t[i] = s[i] /\ t[j] = s[j]
      BY <1>3, <2>2
    <3>2. i \in 1 .. Len(s) /\ j \in 1 .. Len(s) /\ i # j
      BY <1>1, <2>2
    <3> QED BY <2>1, <3>1, <3>2, Zenon
  <2>3. CASE j = k + 1
    BY <1>1, <1>3, <1>4, <2>3
  <2>4. CASE j > k + 1 /\ i <= k
    <3>1. t[i] = s[i] /\ t[j] = s[j - 1]
      BY <1>1, <1>3, <2>4
    <3>2. i \in 1 .. Len(s) /\ j - 1 \in 1 .. Len(s) /\ i # j - 1
      BY <1>1, <1>3, <2>4
    <3> QED BY <2>1, <3>1, <3>2, Zenon
  <2>5. CASE j > k + 1 /\ i = k + 1
    BY <1>1, <1>3, <1>4, <2>5
  <2>6. CASE j > k + 1 /\ i > k + 1
    <3>0. ~(i <= k) /\ i # k + 1 /\ ~(j <= k) /\ j # k + 1
      BY <2>6
    <3>1. t[i] = s[i - 1] /\ t[j] = s[j - 1]
      BY <1>3, <3>0, Zenon
    <3>2. i - 1 \in 1 .. Len(s) /\ j - 1 \in 1 .. Len(s) /\ i - 1 # j - 1
      BY <1>1, <1>3, <2>6
    <3> QED BY <2>1, <3>1, <3>2, Zenon
  <2> QED BY <2>2, <2>3, <2>4, <2>5, <2>6
<1>6. Queue!InOrder(t, w)
  <2> SUFFICES ASSUME NEW i \in 1 .. Len(t), NEW j \in 1 .. Len(t), i < j
               PROVE  ~Queue!Before(w, t[j], t[i])
    BY Zenon DEF Queue!InOrder
  <2>1. CASE j <= k
    BY <1>1, <1>3, <2>1 DEF Fit, Queue!InOrder
  <2>2. CASE j = k + 1
    <3>1. t[j] = e /\ t[i] = s[i] /\ i \in 1 .. k
      BY <1>1, <1>3, <2>2
    <3>2. Queue!Before(w, s[i], e) /\ s[i] \in Events
      BY <1>2, <1>4, <3>1
    <3> QED BY <3>1, <3>2, BeforeWeakOrder, Zenon
  <2>3. CASE j > k + 1 /\ i <= k
    <3>0. i <= k /\ ~(j <= k) /\ j # k + 1
      BY <2>3
    <3>1. t[i] = s[i] /\ t[j] = s[j - 1]
      BY <1>3, <3>0, Zenon
    <3>2. i \in 1 .. Len(s) /\ j - 1 \in 1 .. Len(s) /\ i < j - 1
      BY <1>1, <1>3, <2>3
    <3>3. Queue!InOrder(s, w)
      BY Zenon DEF Fit
    <3> QED BY <3>1, <3>2, <3>3, Zenon DEF Queue!InOrder
  <2>4. CASE j > k + 1 /\ i = k + 1
    BY <1>1, <1>2, <1>3, <2>4
  <2>5. CASE j > k + 1 /\ i > k + 1
    <3>0. ~(i <= k) /\ i # k + 1 /\ ~(j <= k) /\ j # k + 1
      BY <2>5
    <3>1. t[i] = s[i - 1] /\ t[j] = s[j - 1]
      BY <1>3, <3>0, Zenon
    <3>2. i - 1 \in 1 .. Len(s) /\ j - 1 \in 1 .. Len(s) /\ i - 1 < j - 1
      BY <1>1, <1>3, <2>5
    <3>3. Queue!InOrder(s, w)
      BY Zenon DEF Fit
    <3> QED BY <3>1, <3>2, <3>3, Zenon DEF Queue!InOrder
  <2> QED BY <2>1, <2>2, <2>3, <2>4, <2>5
<1>7. \A i \in 1 .. Len(t) : w[t[i]] >= now
  <2> SUFFICES ASSUME NEW i \in 1 .. Len(t)
               PROVE  w[t[i]] >= now
    OBVIOUS
  <2>1. \A j \in 1 .. Len(s) : w[s[j]] >= now
    BY Zenon DEF Fit
  <2>2. CASE i <= k
    <3>1. t[i] = s[i] /\ i \in 1 .. Len(s)
      BY <1>1, <1>3, <2>2
    <3> QED BY <2>1, <3>1, Zenon
  <2>3. CASE i = k + 1
    <3>1. t[i] = e
      BY <1>1, <1>3, <2>3
    <3> QED BY <3>1, Zenon
  <2>4. CASE i > k + 1
    <3>1. t[i] = s[i - 1] /\ i - 1 \in 1 .. Len(s)
      BY <1>1, <1>3, <2>4
    <3> QED BY <2>1, <3>1, Zenon
  <2> QED BY <1>1, <2>2, <2>3, <2>4
<1> QED BY <1>3, <1>5, <1>6, <1>7, Zenon DEF Fit

(* A new time for an event that is not in the list does not matter to it.  *)
LEMMA OtherTime ==
  ASSUME NEW s, NEW w \in [Events -> Queue!Ticks], NEW now \in Queue!Ticks, Fit(s, w, now),
         NEW e \in Events, e \notin Queue!InList(s), NEW t \in Queue!Ticks
  PROVE  Fit(s, [w EXCEPT ![e] = t], now)
<1> DEFINE v == [w EXCEPT ![e] = t]
<1>1. s \in Seq(Events) /\ \A i \in 1 .. Len(s) : s[i] \in Events /\ s[i] # e
  BY DEF Fit, Queue!InList
<1>2. \A i \in 1 .. Len(s) : v[s[i]] = w[s[i]]
  BY <1>1, Zenon
<1> HIDE DEF v
<1>3. Queue!InOrder(s, v)
  BY <1>1, <1>2, Zenon DEF Fit, Queue!InOrder, Queue!Before
<1>4. \A i \in 1 .. Len(s) : v[s[i]] >= now
  BY <1>1, <1>2, Zenon DEF Fit
<1> QED BY <1>1, <1>3, <1>4, Zenon DEF Fit, v

(* The inductive invariant.                                                *)
QueueIInv == Queue!TypeOK /\ Queue!Sorted

LEMMA InvIsFit == QueueIInv <=> Queue!TypeOK /\ Fit(list, when, curTick)
BY Zenon DEF QueueIInv, Queue!TypeOK, Queue!Sorted, Fit

LEMMA QueueInitIInv == Queue!Init => QueueIInv
BY EventOrderAssumption
   DEF Queue!Init, QueueIInv, Queue!TypeOK, Queue!Sorted, Queue!Ticks, Queue!InOrder, Queue!Distinct

LEMMA QueueNextIInv == QueueIInv /\ [Queue!Next]_(Queue!vars) => QueueIInv'
<1> SUFFICES ASSUME QueueIInv, [Queue!Next]_(Queue!vars) PROVE QueueIInv'
  OBVIOUS
<1>0. Queue!TypeOK /\ Fit(list, when, curTick)
  BY InvIsFit, Zenon
<1>a. when \in [Events -> Queue!Ticks] /\ squashed \in [Events -> BOOLEAN] /\ curTick \in Queue!Ticks
  BY <1>0, Zenon DEF Queue!TypeOK
<1>b. SUFFICES /\ when' \in [Events -> Queue!Ticks]
               /\ squashed' \in [Events -> BOOLEAN]
               /\ curTick' \in Queue!Ticks
               /\ Fit(list', when', curTick')
  BY Zenon DEF QueueIInv, Queue!TypeOK, Queue!Sorted, Fit
<1>1. ASSUME NEW e \in Events, NEW t \in Queue!Ticks, Queue!Schedule(e, t)
      PROVE  Fit(list', when', curTick') /\ when' \in [Events -> Queue!Ticks]
  <2>1. /\ e \notin Queue!InList(list) /\ t >= curTick
        /\ when' = [when EXCEPT ![e] = t]
        /\ Queue!Inserted(list, when', e, list')
        /\ curTick' = curTick
    BY <1>1, Zenon DEF Queue!Schedule
  <2>2. when' \in [Events -> Queue!Ticks] /\ when'[e] = t
    BY <1>a, <2>1, Zenon
  <2>3. Fit(list, when', curTick)
    BY <1>0, <1>a, <2>1, OtherTime, Zenon
  <2>4. Fit(list', when', curTick)
    BY <1>a, <2>1, <2>2, <2>3, InsertedFit, Zenon
  <2> QED BY <2>1, <2>2, <2>4, Zenon
<1>2. ASSUME NEW e \in Events, Queue!Deschedule(e)
      PROVE  Fit(list', when', curTick')
  <2>1. PICK k \in 1 .. Len(list) : list' = Queue!Without(list, k)
    BY <1>2, Zenon DEF Queue!Deschedule
  <2>2. Fit(Queue!Without(list, k), when, curTick)
    BY <1>0, <1>a, WithoutFit, Zenon
  <2> QED BY <1>2, <2>1, <2>2, Zenon DEF Queue!Deschedule
<1>3. ASSUME NEW e \in Events, NEW t \in Queue!Ticks, Queue!Reschedule(e, t)
      PROVE  Fit(list', when', curTick') /\ when' \in [Events -> Queue!Ticks]
  <2>1. /\ t >= curTick /\ curTick' = curTick
        /\ when' = [when EXCEPT ![e] = t]
    BY <1>3, Zenon DEF Queue!Reschedule
  <2>2. when' \in [Events -> Queue!Ticks] /\ when'[e] = t
    BY <1>a, <2>1, Zenon
  <2>3. PICK s : /\ Fit(s, when, curTick) /\ e \notin Queue!InList(s)
                 /\ Queue!Inserted(s, when', e, list')
    <3>1. CASE e \notin Queue!InList(list) /\ Queue!Inserted(list, when', e, list')
      BY <1>0, <3>1, Zenon
    <3>2. CASE \E k \in 1 .. Len(list) :
                 list[k] = e /\ Queue!Inserted(Queue!Without(list, k), when', e, list')
      <4>1. PICK k \in 1 .. Len(list) :
                 list[k] = e /\ Queue!Inserted(Queue!Without(list, k), when', e, list')
        BY <3>2, Zenon
      <4>2. Fit(Queue!Without(list, k), when, curTick) /\ list[k] \notin Queue!InList(Queue!Without(list, k))
        BY <1>0, <1>a, WithoutFit, Zenon
      <4> QED BY <4>1, <4>2, Zenon
    <3> QED BY <1>3, <3>1, <3>2, Zenon DEF Queue!Reschedule
  <2>4. Fit(s, when', curTick)
    BY <1>a, <2>1, <2>3, OtherTime, Zenon
  <2>5. Fit(list', when', curTick)
    BY <1>a, <2>1, <2>2, <2>3, <2>4, InsertedFit, Zenon
  <2> QED BY <2>1, <2>2, <2>5, Zenon
<1>4. ASSUME Queue!Service
      PROVE  Fit(list', when', curTick') /\ curTick' \in Queue!Ticks
  <2>1. /\ list \in Seq(Events) /\ list # <<>>
        /\ list' = Tail(list) /\ when' = when /\ curTick' = when[list[1]]
    BY <1>0, <1>4, Zenon DEF Queue!Service, Fit
  <2>2. /\ list' \in Seq(Events) /\ Len(list') = Len(list) - 1
        /\ Len(list) \in Nat \ {0} /\ list[1] \in Events
        /\ \A i \in 1 .. Len(list') : list'[i] = list[i + 1]
    BY <2>1
  <2>3. Queue!InOrder(list', when)
    <3> SUFFICES ASSUME NEW i \in 1 .. Len(list'), NEW j \in 1 .. Len(list'), i < j
                 PROVE  ~Queue!Before(when, list'[j], list'[i])
      BY Zenon DEF Queue!InOrder
    <3>1. /\ i + 1 \in 1 .. Len(list) /\ j + 1 \in 1 .. Len(list) /\ i + 1 < j + 1
          /\ list'[i] = list[i + 1] /\ list'[j] = list[j + 1]
      BY <2>2
    <3>2. \A a, b \in 1 .. Len(list) : a < b => ~Queue!Before(when, list[b], list[a])
      BY <1>0, Zenon DEF Fit, Queue!InOrder
    <3> QED BY <3>1, <3>2, Zenon
  <2>4. Queue!Distinct(list')
    BY <1>0, <2>2 DEF Fit, Queue!Distinct
  <2>5. \A i \in 1 .. Len(list') : when[list'[i]] >= when[list[1]]
    <3> SUFFICES ASSUME NEW i \in 1 .. Len(list') PROVE when[list[i + 1]] >= when[list[1]]
      BY <2>2, Zenon
    <3>1. i + 1 \in 1 .. Len(list) /\ 1 \in 1 .. Len(list) /\ 1 < i + 1
      BY <2>2
    <3>2. ~Queue!Before(when, list[i + 1], list[1]) /\ list[i + 1] \in Events
      BY <1>0, <2>1, <3>1 DEF Fit, Queue!InOrder
    <3> QED BY <1>a, <2>2, <3>2 DEF Queue!Before, Queue!Ticks
  <2>6. when[list[1]] \in Queue!Ticks
    BY <1>a, <2>2, Zenon
  <2> QED BY <2>1, <2>2, <2>3, <2>4, <2>5, <2>6, Zenon DEF Fit
<1>5. ASSUME Queue!Restore
      PROVE  Fit(list', when', curTick')
  <2>0. PICK n \in 0 .. Len(list) : \E s \in [1 .. n -> Events] :
          /\ Queue!InList(s) = {e \in Queue!InList(list) : ~squashed[e]}
          /\ Queue!Distinct(s) /\ Queue!InOrder(s, when) /\ list' = s
    BY <1>5, Zenon DEF Queue!Restore
  <2>1. PICK s \in [1 .. n -> Events] :
          /\ Queue!InList(s) = {e \in Queue!InList(list) : ~squashed[e]}
          /\ Queue!Distinct(s) /\ Queue!InOrder(s, when) /\ list' = s
    BY <2>0, Zenon
  <2>2. Len(list) \in Nat /\ list \in Seq(Events)
    BY <1>0 DEF Fit
  <2>3. n \in Nat /\ s \in Seq(Events) /\ Len(s) = n
    BY <2>2
  <2>4. \A i \in 1 .. n : s[i] \in Queue!InList(list)
    BY <2>1, <2>3, Zenon DEF Queue!InList
  <2>5. \A i \in 1 .. n : when[s[i]] >= curTick
    BY <1>0, <2>2, <2>4, Zenon DEF Fit, Queue!InList
  <2> QED BY <1>5, <2>1, <2>3, <2>5, Zenon DEF Fit, Queue!Restore
<1>6. ASSUME NEW e \in Events, Queue!Squash(e)
      PROVE  Fit(list', when', curTick')
  BY <1>0, <1>6, Zenon DEF Queue!Squash
<1>7. CASE UNCHANGED Queue!vars
  BY <1>0, <1>a, <1>7, Zenon DEF Queue!vars
<1>8. CASE Queue!Next
  <2>1. squashed' \in [Events -> BOOLEAN]
    BY <1>a, <1>8, Zenon
       DEF Queue!Next, Queue!Schedule, Queue!Reschedule, Queue!Deschedule, Queue!Squash,
           Queue!Service, Queue!Restore
  <2>2. CASE \E e \in Events, t \in Queue!Ticks : Queue!Schedule(e, t) \/ Queue!Reschedule(e, t)
    BY <1>1, <1>3, <1>a, <2>1, <2>2, Zenon DEF Queue!Schedule, Queue!Reschedule
  <2>3. CASE \E e \in Events : Queue!Deschedule(e) \/ Queue!Squash(e)
    BY <1>2, <1>6, <1>a, <2>1, <2>3, Zenon DEF Queue!Deschedule, Queue!Squash
  <2>4. CASE Queue!Service
    BY <1>4, <1>a, <2>1, <2>4, Zenon DEF Queue!Service
  <2>5. CASE Queue!Restore
    BY <1>5, <1>a, <2>1, <2>5, Zenon DEF Queue!Restore
  <2> QED BY <1>8, <2>2, <2>3, <2>4, <2>5, Zenon DEF Queue!Next
<1> QED BY <1>7, <1>8, Zenon

(***************************************************************************)
(* The event queue is sorted by time and priority, holds no event twice    *)
(* and no event of the past, for any events, priorities and times: the     *)
(* assertion of simulate() that no event is scheduled in the past.         *)
(***************************************************************************)
THEOREM EventListSorted == Queue!Spec => []Queue!Sorted
<1>1. QueueIInv => Queue!Sorted
  BY Zenon DEF QueueIInv
<1> QED BY <1>1, QueueInitIInv, QueueNextIInv, PTL DEF Queue!Spec
=============================================================================

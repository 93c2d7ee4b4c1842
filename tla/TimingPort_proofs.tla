-------------------------- MODULE TimingPort_proofs --------------------------
(***************************************************************************)
(* For every set of packets and every latency: the assertions of the       *)
(* timing port hold and it forgets no packet.  PortInv is inductive once   *)
(* it is known that the event is scheduled only when there is a packet.    *)
(***************************************************************************)
EXTENDS TimingPort, SequenceTheorems, WellFoundedInduction, TLAPS

\* Devices have a latency, and None is no tick
Latencies == MaxDelay \in Nat \ {0} /\ None \notin Nat

Entry == [pkt : Packets, tick : Ticks]

InOrder(s) == \A i, j \in 1..Len(s) : i < j => s[i].tick <= s[j].tick

IInv ==
  /\ TypeOK /\ InOrder(transmitList)
  /\ PortAssertions /\ SendIsComing
  /\ sendEvent # None => transmitList # <<>>

LEMMA LeastIndex ==
  ASSUME NEW T \in SUBSET Nat, T # {}
  PROVE  Min(T) \in T /\ \A y \in T : Min(T) <= y
<1>1. IsWellFoundedOn(OpToRel(<, Nat), Nat)
  BY NatLessThanWellFounded, Zenon
<1>2. PICK x \in T : \A y \in T : ~(<<y, x>> \in OpToRel(<, Nat))
  BY <1>1, WFMin, Zenon
<1>3. \A y \in T : ~(y < x)
  BY <1>2, Zenon DEF OpToRel
<1>4. \A y \in T : x <= y
  BY <1>3
<1> QED BY <1>4, Zenon DEF Min

\* insert keeps the list sorted; the packet becomes the first one only if it is
\* ready before all others.
LEMMA InsertFact ==
  ASSUME Latencies, NEW s \in Seq(Entry), InOrder(s), NEW p \in Packets,
         NEW when \in 1 .. MaxDelay
  PROVE  LET t == insert(s, p, when)
         IN  /\ t \in Seq(Entry) /\ InOrder(t) /\ t # <<>>
             /\ t[1].tick = IF s = <<>> \/ when < s[1].tick THEN when ELSE s[1].tick
<1> DEFINE d == [pkt |-> p, tick |-> when]
           I == {i \in 1..Len(s) : when < s[i].tick}
           k == IF I # {} THEN Min(I) ELSE 0
           t == insert(s, p, when)
<1>1. d \in Entry /\ d.tick = when
  BY DEF Latencies, Entry, Ticks
<1>2. Len(s) \in Nat /\ \A i \in 1..Len(s) : s[i] \in Entry /\ s[i].tick \in Nat
  <2>1. Len(s) \in Nat /\ \A i \in 1..Len(s) : s[i] \in Entry
    OBVIOUS
  <2>2. \A x \in Entry : x.tick \in Nat
    BY DEF Entry, Ticks
  <2> QED BY <2>1, <2>2
<1>3. t = IF k = 0 THEN Append(s, d) ELSE InsertAt(s, k, d)
  BY DEF insert, SelectInSeq
<1>4. CASE I = {}
  <2>1. t = Append(s, d)
    BY <1>3, <1>4
  <2>2. \A i \in 1..Len(s) : s[i].tick <= when
    BY <1>2, <1>4
  <2> HIDE DEF d, t, I
  <2>3. /\ t \in Seq(Entry) /\ Len(t) = Len(s) + 1 /\ t[Len(s) + 1] = d
        /\ \A i \in 1..Len(s) : t[i] = s[i]
    BY <1>1, <2>1
  <2>4. InOrder(t)
    <3> SUFFICES ASSUME NEW i \in 1..Len(t), NEW j \in 1..Len(t), i < j
                 PROVE  t[i].tick <= t[j].tick
      BY DEF InOrder
    <3>1. i \in 1..Len(s) /\ t[i] = s[i]
      BY <1>2, <2>3
    <3>2. CASE j = Len(s) + 1
      BY <1>1, <2>2, <2>3, <3>1, <3>2
    <3>3. CASE j \in 1..Len(s)
      BY <2>3, <3>1, <3>3 DEF InOrder
    <3> QED BY <1>2, <2>3, <3>2, <3>3
  <2>5. CASE s = <<>>
    BY <1>1, <2>3, <2>4, <2>5 DEF t
  <2>6. CASE s # <<>>
    <3>1. 1 \in 1..Len(s)
      BY <2>6
    <3>2. ~(when < s[1].tick) /\ t[1] = s[1] /\ t # <<>>
      BY <1>2, <2>2, <2>3, <3>1
    <3> QED BY <2>3, <2>4, <2>6, <3>2 DEF t
  <2> QED BY <2>5, <2>6
<1>5. CASE I # {}
  <2>1. k \in I /\ \A i \in I : k <= i
    <3>1. I \in SUBSET Nat /\ k = Min(I)
      BY <1>2, <1>5
    <3> HIDE DEF I, k
    <3> QED BY <1>5, <3>1, LeastIndex
  <2>2. k \in 1..Len(s) /\ when < s[k].tick
    <3> HIDE DEF k
    <3> QED BY <2>1
  <2>3. \A i \in 1..Len(s) : i < k => s[i].tick <= when
    <3> HIDE DEF k
    <3> QED BY <1>2, <2>1, <2>2
  <2> HIDE DEF d, t, I, k
  <2>4. t = SubSeq(s, 1, k - 1) \o <<d>> \o SubSeq(s, k, Len(s))
    <3>1. k # 0
      BY <2>2
    <3>2. t = InsertAt(s, k, d)
      BY <1>3, <3>1
    <3> QED BY <3>2, Zenon DEF InsertAt
  <2>5. /\ t \in Seq(Entry) /\ Len(t) = Len(s) + 1
        /\ \A i \in 1..Len(t) : t[i] = IF i < k THEN s[i] ELSE IF i = k THEN d ELSE s[i - 1]
    <3> DEFINE a == SubSeq(s, 1, k - 1)
               z == SubSeq(s, k, Len(s))
    <3>1. /\ a \in Seq(Entry) /\ Len(a) = k - 1
          /\ \A i \in 1..k - 1 : a[i] = s[i]
      BY <1>2, <2>2, SubSeqProperties
    <3>2. /\ z \in Seq(Entry) /\ Len(z) = Len(s) - k + 1
          /\ \A i \in 1..Len(s) - k + 1 : z[i] = s[k + i - 1]
      BY <1>2, <2>2, SubSeqProperties
    <3> DEFINE f == a \o <<d>>
    <3> HIDE DEF a, z
    <3>3. <<d>> \in Seq(Entry) /\ Len(<<d>>) = 1 /\ <<d>>[1] = d
      BY <1>1
    <3>4. /\ f \in Seq(Entry) /\ Len(f) = k
          /\ \A i \in 1..k : f[i] = IF i <= k - 1 THEN s[i] ELSE d
      <4>1. /\ f \in Seq(Entry) /\ Len(f) = (k - 1) + 1
            /\ \A i \in 1..(k - 1) + 1 : f[i] = IF i <= k - 1 THEN a[i] ELSE <<d>>[i - (k - 1)]
        BY <3>1, <3>3, ConcatProperties
      <4>2. (k - 1) + 1 = k
        BY <2>2
      <4>3. \A i \in 1..k : i <= k - 1 => f[i] = s[i]
        BY <2>2, <3>1, <4>1, <4>2
      <4>4. \A i \in 1..k : ~(i <= k - 1) => f[i] = d
        <5>1. k \in 1..k /\ ~(k <= k - 1) /\ k - (k - 1) = 1
          BY <2>2
        <5>2. f[k] = d
          BY <3>3, <4>1, <4>2, <5>1, Zenon
        <5>3. ASSUME NEW i \in 1..k, ~(i <= k - 1) PROVE i = k
          BY <1>2, <2>2, <5>3
        <5> QED BY <5>2, <5>3, Zenon
      <4> QED BY <4>1, <4>2, <4>3, <4>4
    <3>5. t = f \o z
      BY <2>4 DEF a, z
    <3> HIDE DEF f
    <3>6. /\ t \in Seq(Entry) /\ Len(t) = k + Len(z)
          /\ \A i \in 1..k + Len(z) : t[i] = IF i <= k THEN f[i] ELSE z[i - k]
      <4>1. /\ f \o z \in Seq(Entry) /\ Len(f \o z) = Len(f) + Len(z)
            /\ \A i \in 1..Len(f) + Len(z) :
                  (f \o z)[i] = IF i <= Len(f) THEN f[i] ELSE z[i - Len(f)]
        BY <3>2, <3>4, ConcatProperties
      <4> QED BY <3>4, <3>5, <4>1, Zenon
    <3>7. k + Len(z) = Len(s) + 1
      BY <1>2, <2>2, <3>2
    <3>8. ASSUME NEW i \in 1..Len(s) + 1, i > k PROVE t[i] = s[i - 1]
      <4>1. t[i] = z[i - k] /\ i - k \in 1..Len(s) - k + 1 /\ k + (i - k) - 1 = i - 1
        BY <1>2, <2>2, <3>6, <3>7, <3>8
      <4> QED BY <3>2, <4>1
    <3>9. ASSUME NEW i \in 1..Len(s) + 1, i <= k PROVE t[i] = IF i < k THEN s[i] ELSE d
      <4>1. t[i] = f[i] /\ i \in 1..k /\ (i <= k - 1 <=> i < k)
        BY <1>2, <2>2, <3>6, <3>7, <3>9
      <4> QED BY <3>4, <4>1
    <3> QED BY <1>2, <2>2, <3>6, <3>7, <3>8, <3>9
  <2>6. \A i \in 1..Len(s) : k <= i => when < s[i].tick
    BY <1>2, <2>2 DEF InOrder
  <2>7. InOrder(t)
    <3> SUFFICES ASSUME NEW i \in 1..Len(t), NEW j \in 1..Len(t), i < j
                 PROVE  t[i].tick <= t[j].tick
      BY DEF InOrder
    <3>1. CASE j < k
      <4>1. t[i] = s[i] /\ t[j] = s[j] /\ i \in 1..Len(s) /\ j \in 1..Len(s)
        BY <1>2, <2>2, <2>5, <3>1
      <4> QED BY <4>1 DEF InOrder
    <3>2. CASE j = k
      BY <1>1, <1>2, <2>2, <2>3, <2>5, <3>2
    <3>3. CASE k < j /\ i < k
      <4>1. t[i] = s[i] /\ t[j] = s[j - 1] /\ j - 1 \in 1..Len(s) /\ i \in 1..Len(s) /\ i < j - 1
        BY <1>2, <2>2, <2>5, <3>3
      <4> QED BY <4>1 DEF InOrder
    <3>4. CASE k < j /\ i = k
      <4>1. t[i] = d /\ t[j] = s[j - 1] /\ j - 1 \in 1..Len(s) /\ k <= j - 1
        BY <1>2, <2>2, <2>5, <3>4
      <4> QED BY <1>1, <1>2, <2>6, <4>1
    <3>5. CASE k < i
      <4>1. /\ t[i] = s[i - 1] /\ t[j] = s[j - 1] /\ i - 1 < j - 1
            /\ j - 1 \in 1..Len(s) /\ i - 1 \in 1..Len(s)
        BY <1>2, <2>2, <2>5, <3>5
      <4> QED BY <4>1 DEF InOrder
    <3> QED BY <1>2, <2>2, <2>5, <3>1, <3>2, <3>3, <3>4, <3>5
  <2>8. t[1].tick = IF s = <<>> \/ when < s[1].tick THEN when ELSE s[1].tick
    <3>1. 1 \in 1..Len(s) /\ 1 \in 1..Len(t) /\ s # <<>>
      BY <1>2, <2>2, <2>5
    <3>2. CASE k = 1
      BY <1>1, <2>2, <2>5, <3>1, <3>2
    <3>3. CASE k # 1
      <4>1. 1 < k
        BY <2>2, <3>3
      <4>2. t[1] = s[1] /\ ~(when < s[1].tick)
        BY <1>2, <2>3, <2>5, <3>1, <4>1
      <4> QED BY <3>1, <4>2
    <3> QED BY <3>2, <3>3
  <2>9. t # <<>>
    BY <1>2, <2>5
  <2> QED BY <2>5, <2>7, <2>8, <2>9 DEF t
<1> QED BY <1>4, <1>5

\* The rest of a sorted list.
LEMMA TailFact ==
  ASSUME NEW s \in Seq(Entry), InOrder(s), s # <<>>
  PROVE  Tail(s) \in Seq(Entry) /\ InOrder(Tail(s))
BY DEF InOrder

LEMMA InitIInv == ASSUME Latencies PROVE Init => IInv
<1> SUFFICES ASSUME Init PROVE IInv
  OBVIOUS
<1>1. TypeOK
  <2>1. transmitList \in Seq([pkt : Packets, tick : Ticks]) /\ sent \in Seq(Packets)
    BY EmptySeq DEF Init
  <2>2. waitingOnRetry \in BOOLEAN /\ drainEvent \in BOOLEAN
    BY Zenon DEF Init
  <2> QED BY <2>1, <2>2 DEF Init, TypeOK
<1>2. InOrder(transmitList)
  BY DEF Init, InOrder
<1> QED BY <1>1, <1>2 DEF Latencies, Init, IInv, PortAssertions, SendIsComing

\* The first packet of a list.
LEMMA HeadFact ==
  ASSUME NEW s \in Seq(Entry), s # <<>>
  PROVE  /\ Head(s) = s[1] /\ s[1] \in Entry
         /\ s[1].tick \in 0 .. MaxDelay /\ 1 \in 1..Len(s)
<1>1. Head(s) = s[1] /\ s[1] \in Entry /\ 1 \in 1..Len(s)
  OBVIOUS
<1> QED BY <1>1 DEF Entry, Ticks

\* The packet that was at the head is sent, and the peer may have put another
\* one on the list.
LEMMA SuccessIInv ==
  ASSUME Latencies, IInv, Success(None), transmitList # <<>>
  PROVE  IInv'
<1>0. /\ transmitList \in Seq(Entry) /\ InOrder(transmitList)
      /\ sent \in Seq(Packets) /\ waitingOnRetry \in BOOLEAN /\ drainEvent \in BOOLEAN
  BY DEF IInv, TypeOK, Entry
<1> DEFINE rest == Tail(transmitList)
<1>1. rest \in Seq(Entry) /\ InOrder(rest)
  BY <1>0, TailFact
<1>w. waitingOnRetry' \in BOOLEAN
  <2>1. waitingOnRetry' = FALSE
    BY DEF Success
  <2> QED BY <2>1, Zenon
<1>2. PICK called \in {[list |-> rest, ev |-> None]} \cup
                      {schedSendTiming(rest, None, p, when) :
                         p \in Fresh, when \in 1 .. MaxDelay} :
        /\ transmitList' = called.list
        /\ sendEvent' = IF called.list # <<>> /\ called.ev = None
                        THEN IF Head(called.list).tick = 0 THEN 1 ELSE Head(called.list).tick
                        ELSE called.ev
        /\ drainEvent' = (drainEvent /\ ~(called.list = <<>> /\ sendEvent' = None))
        /\ waitingOnRetry' = FALSE
        /\ sent' = Append(sent, Head(transmitList).pkt)
  BY DEF Success
<1>c. /\ transmitList' = called.list
      /\ called.list = <<>> => sendEvent' = called.ev
      /\ called.ev # None => sendEvent' = called.ev
      /\ called.list # <<>> /\ called.ev = None =>
            sendEvent' = IF Head(called.list).tick = 0 THEN 1 ELSE Head(called.list).tick
      /\ waitingOnRetry' = FALSE
  BY <1>2
<1>3. /\ called.list \in Seq(Entry) /\ InOrder(called.list)
      /\ \/ called.ev = None
         \/ /\ called.list # <<>> /\ called.ev = called.list[1].tick
            /\ called.ev \in 1 .. MaxDelay
  <2>1. CASE called = [list |-> rest, ev |-> None]
    BY <1>1, <2>1
  <2>2. CASE \E p \in Fresh, when \in 1 .. MaxDelay :
               called = schedSendTiming(rest, None, p, when)
    <3>1. PICK p \in Packets, when \in 1 .. MaxDelay :
             called = schedSendTiming(rest, None, p, when)
      BY <2>2 DEF Fresh
    <3> HIDE DEF rest
    <3>2. /\ called.list = insert(rest, p, when)
          /\ called.ev = IF rest = <<>> \/ when < Head(rest).tick
                         THEN schedSendEvent(None, when) ELSE None
      BY <3>1 DEF schedSendTiming
    <3>3. schedSendEvent(None, when) \in {None, when}
      BY DEF schedSendEvent
    <3>4. rest # <<>> => Head(rest) = rest[1]
      BY <1>1
    <3>5. /\ called.list \in Seq(Entry) /\ InOrder(called.list) /\ called.list # <<>>
          /\ called.list[1].tick = IF rest = <<>> \/ when < rest[1].tick
                                   THEN when ELSE rest[1].tick
      BY <1>1, <3>2, InsertFact
    <3> QED BY <3>2, <3>3, <3>4, <3>5
  <2> QED BY <1>2, <2>1, <2>2
<1>4. called.list # <<>> =>
        /\ Head(called.list) = called.list[1] /\ called.list[1] \in Entry
        /\ called.list[1].tick \in 0 .. MaxDelay
  BY <1>3, HeadFact
<1>5. /\ sendEvent' \in Ticks \cup {None} /\ sendEvent' # 0
      /\ sendEvent' # None <=> called.list # <<>>
      /\ called.list # <<>> => \/ sendEvent' = called.list[1].tick
                               \/ sendEvent' = 1 /\ called.list[1].tick = 0
  <2>0. MaxDelay \in Nat /\ MaxDelay # 0 /\ 0 .. MaxDelay \subseteq Ticks /\ None \notin Ticks
        /\ 1 \in Ticks
    BY DEF Latencies, Ticks
  <2>1. CASE called.list = <<>>
    <3>1. sendEvent' = None
      BY <1>c, <1>3, <2>1
    <3> QED BY <2>0, <2>1, <3>1
  <2>2. CASE called.list # <<>> /\ called.ev = None
    <3>1. sendEvent' = IF called.list[1].tick = 0 THEN 1 ELSE called.list[1].tick
      BY <1>c, <1>4, <2>2
    <3> QED BY <1>4, <2>0, <2>2, <3>1
  <2>3. CASE called.list # <<>> /\ called.ev # None
    <3>1. sendEvent' = called.list[1].tick /\ sendEvent' \in 1 .. MaxDelay
      BY <1>c, <1>3, <2>3
    <3> QED BY <2>0, <2>3, <3>1
  <2> QED BY <2>1, <2>2, <2>3
<1>6. sent' \in Seq(Packets)
  <2>1. Head(transmitList) \in Entry
    BY <1>0
  <2> QED BY <1>0, <1>2, <2>1 DEF Entry
<1>7. TypeOK'
  <2>1. drainEvent' = (drainEvent /\ ~(called.list = <<>> /\ sendEvent' = None))
    BY <1>2
  <2>2. drainEvent' \in BOOLEAN
    BY <2>1
  <2>3. transmitList' \in Seq([pkt : Packets, tick : Ticks])
    BY <1>2, <1>3 DEF Entry
  <2> QED BY <1>w, <1>5, <1>6, <2>2, <2>3 DEF TypeOK
<1>8. PortAssertions' /\ SendIsComing'
  <2>1. PortAssertions'
    BY <1>c, <1>5 DEF PortAssertions
  <2>2. SendIsComing'
    BY <1>c, <1>4, <1>5 DEF SendIsComing
  <2> QED BY <2>1, <2>2
<1>9. InOrder(transmitList)' /\ (sendEvent' # None => transmitList' # <<>>)
  BY <1>c, <1>3, <1>5 DEF InOrder
<1> QED BY <1>7, <1>8, <1>9 DEF IInv

LEMMA NextIInv == ASSUME Latencies PROVE IInv /\ [Next]_vars => IInv'
<1> SUFFICES ASSUME IInv, [Next]_vars PROVE IInv'
  OBVIOUS
<1>0. /\ transmitList \in Seq(Entry) /\ InOrder(transmitList)
      /\ sendEvent \in Ticks \cup {None} /\ sent \in Seq(Packets)
      /\ waitingOnRetry \in BOOLEAN /\ drainEvent \in BOOLEAN
  BY DEF IInv, TypeOK, Entry
<1>a. transmitList # <<>> =>
        /\ Head(transmitList) = transmitList[1] /\ transmitList[1] \in Entry
        /\ transmitList[1].tick \in 0 .. MaxDelay /\ 1 \in 1..Len(transmitList)
  BY <1>0, HeadFact
<1>1. CASE recvTiming
  <2>1. PICK p \in Packets, when \in 1 .. MaxDelay :
           /\ transmitList' = schedSendTiming(transmitList, sendEvent, p, when).list
           /\ sendEvent' = schedSendTiming(transmitList, sendEvent, p, when).ev
    BY <1>1 DEF recvTiming, Fresh
  <2>2. /\ transmitList' = insert(transmitList, p, when)
        /\ sendEvent' = IF transmitList = <<>> \/ when < Head(transmitList).tick
                        THEN schedSendEvent(sendEvent, when) ELSE sendEvent
    BY <2>1 DEF schedSendTiming
  <2>3. /\ transmitList' \in Seq(Entry) /\ InOrder(transmitList') /\ transmitList' # <<>>
        /\ transmitList'[1].tick =
              IF transmitList = <<>> \/ when < transmitList[1].tick
              THEN when ELSE transmitList[1].tick
    BY <1>0, <2>2, InsertFact
  <2>4. Head(transmitList') = transmitList'[1]
    BY <2>3
  <2>5. UNCHANGED <<waitingOnRetry, drainEvent, sent>>
    BY <1>1 DEF recvTiming
  <2>6. sendEvent' \in Ticks \cup {None}
    BY <1>0, <2>2 DEF schedSendEvent, Ticks, Latencies
  <2>7. CASE waitingOnRetry
    <3>1. sendEvent = None /\ transmitList # <<>> /\ transmitList[1].tick = 0
      BY <1>a, <2>7 DEF IInv, PortAssertions
    <3>2. sendEvent' = None /\ transmitList'[1].tick = 0
      BY <2>2, <2>3, <2>7, <3>1 DEF schedSendEvent
    <3>3. PortAssertions' /\ SendIsComing'
      BY <2>3, <2>4, <2>5, <2>7, <3>2 DEF PortAssertions, SendIsComing, Latencies
    <3> QED BY <1>0, <2>3, <2>5, <2>6, <3>2, <3>3 DEF IInv, TypeOK, Entry, InOrder
  <2>8. CASE ~waitingOnRetry
    <3>1. /\ transmitList = <<>> => sendEvent = None
          /\ transmitList # <<>> => \/ sendEvent = transmitList[1].tick
                                    \/ sendEvent = 1 /\ transmitList[1].tick = 0
      BY <1>a, <2>8 DEF IInv, SendIsComing
    <3>2. \/ sendEvent' = transmitList'[1].tick
          \/ sendEvent' = 1 /\ transmitList'[1].tick = 0
      <4>1. CASE transmitList = <<>>
        BY <2>2, <2>3, <2>8, <3>1, <4>1 DEF schedSendEvent
      <4>2. CASE transmitList # <<>> /\ when < transmitList[1].tick
        <5>1. sendEvent = transmitList[1].tick /\ sendEvent > when
          BY <1>a, <3>1, <4>2
        <5>2. sendEvent' = when
          BY <1>a, <2>2, <2>8, <4>2, <5>1 DEF schedSendEvent
        <5> QED BY <2>3, <4>2, <5>2
      <4>3. CASE transmitList # <<>> /\ ~(when < transmitList[1].tick)
        BY <1>a, <2>2, <2>3, <3>1, <4>3
      <4> QED BY <4>1, <4>2, <4>3
    <3>3. PortAssertions' /\ SendIsComing'
      BY <2>3, <2>4, <2>5, <2>8, <3>2 DEF PortAssertions, SendIsComing
    <3> QED BY <1>0, <2>3, <2>5, <2>6, <3>3 DEF IInv, TypeOK, Entry, InOrder
  <2> QED BY <1>0, <2>7, <2>8
<1>2. ASSUME Failure(None), transmitList # <<>>, Head(transmitList).tick = 0
      PROVE  IInv'
  <2>1. /\ sendEvent' = None /\ waitingOnRetry' = TRUE
        /\ UNCHANGED <<transmitList, drainEvent, sent>>
    BY <1>2 DEF Failure
  <2>2. PortAssertions' /\ SendIsComing'
    BY <1>2, <2>1 DEF PortAssertions, SendIsComing, Latencies
  <2> QED BY <1>0, <2>1, <2>2 DEF IInv, TypeOK, Entry, InOrder
<1>3. CASE processSendEvent
  <2>1. transmitList # <<>> /\ Head(transmitList).tick = 0
    BY <1>3 DEF processSendEvent, IInv, PortAssertions
  <2> QED BY <1>2, <1>3, <2>1, SuccessIInv DEF processSendEvent
<1>4. CASE recvRetry
  <2>1. sendEvent = None /\ transmitList # <<>> /\ Head(transmitList).tick = 0
    BY <1>4 DEF recvRetry, IInv, PortAssertions
  <2> QED BY <1>2, <1>4, <2>1, SuccessIInv DEF recvRetry
<1>5. CASE drain
  <2>1. drainEvent' = TRUE /\ UNCHANGED <<transmitList, sendEvent, waitingOnRetry, sent>>
    BY <1>5 DEF drain
  <2> QED BY <1>0, <2>1 DEF IInv, TypeOK, Entry, InOrder, PortAssertions, SendIsComing
<1>6. CASE TimePasses
  <2>1. /\ sendEvent # 0
        /\ transmitList' = [i \in DOMAIN transmitList |->
                              [transmitList[i] EXCEPT !.tick = Nearer(@)]]
        /\ sendEvent' = IF sendEvent = None THEN None ELSE sendEvent - 1
        /\ UNCHANGED <<waitingOnRetry, drainEvent, sent>>
    BY <1>6 DEF TimePasses
  <2>2. DOMAIN transmitList = 1..Len(transmitList) /\ Len(transmitList) \in Nat
    BY <1>0
  <2>3. \A i \in 1..Len(transmitList) :
          /\ transmitList'[i] \in Entry
          /\ transmitList[i].tick \in 0 .. MaxDelay
          /\ transmitList'[i].tick = Nearer(transmitList[i].tick)
    <3> SUFFICES ASSUME NEW i \in 1..Len(transmitList)
                 PROVE  /\ transmitList'[i] \in Entry
                        /\ transmitList[i].tick \in 0 .. MaxDelay
                        /\ transmitList'[i].tick = Nearer(transmitList[i].tick)
      OBVIOUS
    <3>1. /\ transmitList[i] \in Entry
          /\ transmitList'[i] = [transmitList[i] EXCEPT !.tick = Nearer(transmitList[i].tick)]
      BY <1>0, <2>1, <2>2
    <3>2. Nearer(transmitList[i].tick) \in Ticks
      BY <3>1 DEF Nearer, Entry, Ticks, Latencies
    <3> QED BY <3>1, <3>2 DEF Entry, Ticks
  <2>4. transmitList' \in Seq(Entry) /\ Len(transmitList') = Len(transmitList)
    <3>1. transmitList' \in [1..Len(transmitList) -> Entry]
      BY <2>1, <2>2, <2>3, Zenon
    <3> QED BY <2>2, <3>1
  <2>5. InOrder(transmitList')
    <3> SUFFICES ASSUME NEW i \in 1..Len(transmitList), NEW j \in 1..Len(transmitList), i < j
                 PROVE  transmitList'[i].tick <= transmitList'[j].tick
      BY <2>4 DEF InOrder
    <3>1. transmitList[i].tick <= transmitList[j].tick
      BY <1>0 DEF InOrder
    <3>2. /\ transmitList[i].tick \in Nat /\ transmitList[j].tick \in Nat
          /\ transmitList'[i].tick = Nearer(transmitList[i].tick)
          /\ transmitList'[j].tick = Nearer(transmitList[j].tick)
      BY <2>3
    <3> QED BY <3>1, <3>2 DEF Nearer
  <2>6. transmitList' # <<>> <=> transmitList # <<>>
    BY <1>0, <2>2, <2>4
  <2>7. transmitList # <<>> =>
          /\ Head(transmitList') = transmitList'[1]
          /\ transmitList'[1].tick = Nearer(transmitList[1].tick)
    BY <1>a, <2>3, <2>4, <2>6
  <2>8. sendEvent' \in Ticks \cup {None} /\ (sendEvent' = None <=> sendEvent = None)
    BY <1>0, <2>1 DEF Ticks, Latencies
  <2>9. CASE waitingOnRetry
    <3>1. sendEvent = None /\ transmitList # <<>> /\ transmitList[1].tick = 0
      BY <1>a, <2>9 DEF IInv, PortAssertions
    <3>2. sendEvent' = None /\ transmitList'[1].tick = 0
      BY <2>7, <2>8, <3>1 DEF Nearer
    <3>3. PortAssertions' /\ SendIsComing'
      BY <2>1, <2>6, <2>7, <2>9, <3>1, <3>2, Zenon DEF PortAssertions, SendIsComing, Latencies
    <3> QED BY <1>0, <2>1, <2>4, <2>5, <2>8, <3>2, <3>3, Zenon DEF IInv, TypeOK, Entry, InOrder
  <2>10. CASE ~waitingOnRetry /\ transmitList # <<>>
    <3>1. \/ sendEvent = transmitList[1].tick
          \/ sendEvent = 1 /\ transmitList[1].tick = 0
      BY <1>a, <2>10 DEF IInv, SendIsComing
    <3>2. sendEvent' = transmitList'[1].tick
      BY <1>a, <2>1, <2>7, <2>10, <3>1 DEF Nearer, Latencies
    <3>3. PortAssertions' /\ SendIsComing'
      BY <2>1, <2>6, <2>7, <2>10, <3>2, Zenon DEF PortAssertions, SendIsComing
    <3> QED BY <1>0, <2>1, <2>4, <2>5, <2>6, <2>8, <2>10, <3>3, Zenon DEF IInv, TypeOK, Entry, InOrder
  <2>11. CASE ~waitingOnRetry /\ transmitList = <<>>
    <3>1. sendEvent' = None
      BY <2>8, <2>11 DEF IInv
    <3>2. PortAssertions' /\ SendIsComing'
      BY <2>1, <2>6, <2>11, <3>1 DEF PortAssertions, SendIsComing, Latencies
    <3> QED BY <1>0, <2>1, <2>4, <2>5, <2>8, <3>1, <3>2, Zenon DEF IInv, TypeOK, Entry, InOrder
  <2> QED BY <1>0, <2>9, <2>10, <2>11
<1>7. CASE UNCHANGED vars
  BY <1>7 DEF vars, IInv, TypeOK, InOrder, PortAssertions, SendIsComing
<1> QED BY <1>1, <1>3, <1>4, <1>5, <1>6, <1>7 DEF Next

(***************************************************************************)
(* The assertions of sendDeferredPacket and processSendEvent hold, the     *)
(* list is sorted, and a packet on it has its event or its retry to come.  *)
(***************************************************************************)
THEOREM PortSafe == ASSUME Latencies PROVE Spec => []PortInv
<1>1. IInv => PortInv
  <2> SUFFICES ASSUME IInv PROVE PortInv
    OBVIOUS
  <2>1. DOMAIN transmitList = 1..Len(transmitList)
    BY DEF IInv, TypeOK
  <2> QED BY <2>1 DEF IInv, PortInv, Sorted, InOrder
<1> QED BY <1>1, InitIInv, NextIInv, PTL DEF Spec
=============================================================================

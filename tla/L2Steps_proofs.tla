---------------------------- MODULE L2Steps_proofs ----------------------------
(***************************************************************************)
(* The queues of the L2 with its prefetcher, for every address space,      *)
(* geometry, number of MSHRs and targets, and every candidate the DCPT     *)
(* table may compute.  First, what the loops of prefetch_filter,           *)
(* issue_prefetches and notify compute, for candidate lists of every       *)
(* length; a fact about all turns of a loop is proved for the least turn   *)
(* at which it could fail.  Then the inductive invariant of the queues,    *)
(* and event by event why it is preserved.                                 *)
(***************************************************************************)
EXTENDS L2Cache, TLAPS

(* What the library knows of finite sets and of the natural numbers, as    *)
(* far as it is used here; module L2Cache_proofs establishes it.           *)
SetFacts ==
  /\ \A T \in SUBSET Nat : T # {} => \E x \in T : \A y \in T : x <= y
  /\ Cardinality({}) = 0
  /\ \A S \in SUBSET Block :
       /\ Cardinality(S) \in Nat
       /\ \A b \in Block \ S : Cardinality(S \cup {b}) = Cardinality(S) + 1
       /\ \A b \in S : Cardinality(S \ {b}) = Cardinality(S) - 1
       /\ \A R \in SUBSET S : Cardinality(R) <= Cardinality(S)

LEMMA Least ==
  ASSUME SetFacts, NEW T \in SUBSET Nat, T # {}
  PROVE  \E x \in T : \A y \in T : x <= y
BY Zenon DEF SetFacts

-----------------------------------------------------------------------------
(* Sequences without repetitions.                                          *)

LEMMA AppendNoRepeats ==
  ASSUME NEW S, NEW s \in Seq(S), NoRepeats(s), NEW x \in S, x \notin InSeq(s)
  PROVE  /\ Append(s, x) \in Seq(S)
         /\ NoRepeats(Append(s, x))
         /\ InSeq(Append(s, x)) = InSeq(s) \cup {x}
<1> DEFINE t == Append(s, x)
<1>1. t \in Seq(S) /\ Len(t) = Len(s) + 1 /\ Len(s) \in Nat /\ t[Len(s) + 1] = x
      /\ \A i \in 1 .. Len(s) : t[i] = s[i]
  OBVIOUS
<1> HIDE DEF t
<1>2. NoRepeats(t)
  <2>1. \A i \in 1 .. Len(t) : i \in 1 .. Len(s) \/ i = Len(s) + 1
    BY <1>1
  <2>2. \A i \in 1 .. Len(s) : t[i] # x
    BY <1>1, Zenon DEF InSeq
  <2> QED BY <1>1, <2>1, <2>2, Zenon DEF NoRepeats
<1>3. InSeq(t) = InSeq(s) \cup {x}
  <2>1. ASSUME NEW y \in InSeq(t) PROVE y \in InSeq(s) \cup {x}
    <3>1. PICK i \in 1 .. Len(t) : y = t[i] BY DEF InSeq
    <3> QED BY <1>1, <3>1 DEF InSeq
  <2>2. ASSUME NEW y \in InSeq(s) PROVE y \in InSeq(t)
    <3>1. PICK i \in 1 .. Len(s) : y = s[i] BY DEF InSeq
    <3>2. i \in 1 .. Len(t) /\ t[i] = y BY <1>1, <3>1
    <3> QED BY <3>2, Zenon DEF InSeq
  <2>3. x \in InSeq(t)
    <3>1. Len(s) + 1 \in 1 .. Len(t) BY <1>1
    <3> QED BY <1>1, <3>1, Zenon DEF InSeq
  <2> QED BY <2>1, <2>2, <2>3, Zenon
<1> QED BY <1>1, <1>2, <1>3, Zenon DEF t

LEMMA SubSeqNoRepeats ==
  ASSUME NEW S, NEW s \in Seq(S), NoRepeats(s), NEW m \in Nat \ {0}, NEW n \in 0 .. Len(s)
  PROVE  /\ SubSeq(s, m, n) \in Seq(S)
         /\ NoRepeats(SubSeq(s, m, n))
         /\ InSeq(SubSeq(s, m, n)) \subseteq {s[i] : i \in m .. n}
         /\ InSeq(SubSeq(s, m, n)) \subseteq InSeq(s)
<1> DEFINE t == SubSeq(s, m, n)
<1>1. t \in Seq(S) /\ Len(t) = (IF m <= n THEN n - m + 1 ELSE 0)
      /\ \A i \in 1 .. Len(t) : t[i] = s[m + i - 1]
  OBVIOUS
<1> HIDE DEF t
<1>2. \A i \in 1 .. Len(t) : m + i - 1 \in m .. n /\ m + i - 1 \in 1 .. Len(s)
  BY <1>1
<1>3. NoRepeats(t)
  <2> SUFFICES ASSUME NEW i \in 1 .. Len(t), NEW j \in 1 .. Len(t), i # j
               PROVE  t[i] # t[j]
    BY Zenon DEF NoRepeats
  <2>1. m + i - 1 # m + j - 1 /\ t[i] = s[m + i - 1] /\ t[j] = s[m + j - 1]
    BY <1>1
  <2> QED BY <1>2, <2>1, Zenon DEF NoRepeats
<1>4. InSeq(t) \subseteq {s[i] : i \in m .. n} /\ InSeq(t) \subseteq InSeq(s)
  BY <1>1, <1>2, Zenon DEF InSeq
<1> QED BY <1>1, <1>3, <1>4, Zenon DEF t

LEMMA PrependNoRepeats ==
  ASSUME NEW S, NEW s \in Seq(S), NoRepeats(s), NEW x \in S, x \notin InSeq(s)
  PROVE  /\ <<x>> \o s \in Seq(S)
         /\ NoRepeats(<<x>> \o s)
         /\ InSeq(<<x>> \o s) = InSeq(s) \cup {x}
<1> DEFINE t == <<x>> \o s
<1>1. t \in Seq(S) /\ Len(t) = Len(s) + 1 /\ Len(s) \in Nat /\ t[1] = x
      /\ \A i \in 1 .. Len(s) : t[i + 1] = s[i]
  OBVIOUS
<1> HIDE DEF t
<1>2. \A i \in 1 .. Len(t) : i = 1 \/ (i - 1 \in 1 .. Len(s) /\ t[i] = s[i - 1])
  BY <1>1
<1>3. NoRepeats(t)
  <2>1. ASSUME NEW i \in 1 .. Len(t), i # 1 PROVE t[i] # x
    BY <1>1, <1>2, <2>1, Zenon DEF InSeq
  <2>2. ASSUME NEW i \in 1 .. Len(t), NEW j \in 1 .. Len(t), t[i] = t[j], i # 1, j # 1
        PROVE  i = j
    <3>1. /\ i - 1 \in 1 .. Len(s) /\ t[i] = s[i - 1]
          /\ j - 1 \in 1 .. Len(s) /\ t[j] = s[j - 1]
      BY <1>2, <2>2, Zenon
    <3>2. i - 1 = j - 1
      BY <2>2, <3>1, Zenon DEF NoRepeats
    <3> QED BY <3>2
  <2> QED BY <1>1, <2>1, <2>2, Zenon DEF NoRepeats
<1>4. ASSUME NEW y \in InSeq(t) PROVE y \in InSeq(s) \cup {x}
  <2>1. PICK i \in 1 .. Len(t) : y = t[i]
    BY Zenon DEF InSeq
  <2>2. i # 1 => i - 1 \in 1 .. Len(s) /\ y = s[i - 1]
    BY <1>2, <2>1, Zenon
  <2> QED BY <1>1, <2>1, <2>2, Zenon DEF InSeq
<1>5. ASSUME NEW y \in InSeq(s) PROVE y \in InSeq(t)
  <2>1. PICK i \in 1 .. Len(s) : y = s[i]
    BY Zenon DEF InSeq
  <2>2. i + 1 \in 1 .. Len(t) /\ t[i + 1] = y
    BY <1>1, <2>1
  <2> QED BY <2>2, Zenon DEF InSeq
<1>6. x \in InSeq(t)
  <2>1. 1 \in 1 .. Len(t)
    BY <1>1
  <2> QED BY <1>1, <2>1, Zenon DEF InSeq
<1> QED BY <1>1, <1>3, <1>4, <1>5, <1>6, Zenon DEF t

LEMMA TailNoRepeats ==
  ASSUME NEW S, NEW s \in Seq(S), NoRepeats(s), s # << >>
  PROVE  /\ Tail(s) \in Seq(S)
         /\ NoRepeats(Tail(s))
         /\ InSeq(Tail(s)) = InSeq(s) \ {Head(s)}
         /\ Head(s) \in InSeq(s)
<1> DEFINE t == Tail(s)
<1>1. t \in Seq(S) /\ Len(t) = Len(s) - 1 /\ Len(s) \in Nat \ {0} /\ Head(s) = s[1]
      /\ \A i \in 1 .. Len(t) : t[i] = s[i + 1]
  OBVIOUS
<1> HIDE DEF t
<1>2. NoRepeats(t)
  <2>1. \A i \in 1 .. Len(t) : i + 1 \in 1 .. Len(s) BY <1>1
  <2> QED BY <1>1, <2>1 DEF NoRepeats
<1>3. Head(s) \in InSeq(s)
  <2>1. 1 \in 1 .. Len(s) BY <1>1
  <2> QED BY <1>1, <2>1, Zenon DEF InSeq
<1>4. ASSUME NEW y \in InSeq(t) PROVE y \in InSeq(s) \ {Head(s)}
  <2>1. PICK i \in 1 .. Len(t) : y = t[i]
    BY Zenon DEF InSeq
  <2>2. i + 1 \in 1 .. Len(s) /\ 1 \in 1 .. Len(s) /\ i + 1 # 1
    BY <1>1
  <2>3. y = s[i + 1] /\ s[i + 1] # s[1]
    BY <1>1, <2>1, <2>2, Zenon DEF NoRepeats
  <2> QED BY <1>1, <2>2, <2>3, Zenon DEF InSeq
<1>5. ASSUME NEW y \in InSeq(s) \ {Head(s)} PROVE y \in InSeq(t)
  <2>1. PICK i \in 1 .. Len(s) : y = s[i] BY DEF InSeq
  <2>2. i - 1 \in 1 .. Len(t) /\ t[i - 1] = y BY <1>1, <2>1
  <2> QED BY <2>2, Zenon DEF InSeq
<1> QED BY <1>1, <1>2, <1>3, <1>4, <1>5, Zenon DEF t

LEMMA InSeqType == ASSUME NEW S, NEW s \in Seq(S) PROVE InSeq(s) \subseteq S
BY DEF InSeq

(* erase moves what follows the k-th element down by one.                  *)
LEMMA EraseAt ==
  ASSUME NEW S, NEW s \in Seq(S), NEW k \in 1 .. Len(s)
  PROVE  /\ erase(s, k) \in Seq(S) /\ Len(erase(s, k)) = Len(s) - 1
         /\ \A i \in 1 .. Len(s) - 1 : erase(s, k)[i] = s[IF i < k THEN i ELSE i + 1]
<1> DEFINE a == SubSeq(s, 1, k - 1)
           z == SubSeq(s, k + 1, Len(s))
           t == erase(s, k)
<1>1. /\ Len(s) \in Nat /\ k \in Nat /\ k >= 1 /\ k <= Len(s)
      /\ a \in Seq(S) /\ Len(a) = k - 1 /\ \A i \in 1 .. k - 1 : a[i] = s[i]
      /\ z \in Seq(S) /\ Len(z) = Len(s) - k /\ \A i \in 1 .. Len(s) - k : z[i] = s[i + k]
  OBVIOUS
<1>2. t = a \o z
  BY Zenon DEF erase
<1> HIDE DEF a, z, t
<1>3. /\ t \in Seq(S) /\ Len(t) = Len(a) + Len(z)
      /\ \A i \in 1 .. Len(a) : t[i] = a[i]
      /\ \A i \in Len(a) + 1 .. Len(a) + Len(z) : t[i] = z[i - Len(a)]
  <2>1. a \in Seq(S) /\ z \in Seq(S)
    BY <1>1, Zenon
  <2> QED BY <1>2, <2>1
<1>4. ASSUME NEW i \in 1 .. Len(s) - 1 PROVE t[i] = s[IF i < k THEN i ELSE i + 1]
  <2>1. CASE i < k
    BY <1>1, <1>3, <2>1
  <2>2. CASE ~(i < k)
    <3>1. /\ i \in Len(a) + 1 .. Len(a) + Len(z)
          /\ i - Len(a) \in 1 .. Len(s) - k /\ (i - Len(a)) + k = i + 1
      BY <1>1, <2>2
    <3> QED BY <1>1, <1>3, <2>2, <3>1, Zenon
  <2> QED BY <2>1, <2>2, Zenon
<1>5. t \in Seq(S) /\ Len(t) = Len(s) - 1
  BY <1>1, <1>3
<1> QED BY <1>4, <1>5, Zenon DEF t

LEMMA EraseNoRepeats ==
  ASSUME NEW S, NEW s \in Seq(S), NoRepeats(s), NEW k \in 1 .. Len(s)
  PROVE  /\ erase(s, k) \in Seq(S)
         /\ NoRepeats(erase(s, k))
         /\ InSeq(erase(s, k)) = InSeq(s) \ {s[k]}
         /\ Len(erase(s, k)) = Len(s) - 1
<1> DEFINE t == erase(s, k)
           u(i) == IF i < k THEN i ELSE i + 1
<1>0. Len(s) \in Nat /\ k \in Nat /\ k >= 1 /\ k <= Len(s)
  OBVIOUS
<1>1. /\ t \in Seq(S) /\ Len(t) = Len(s) - 1
      /\ \A i \in 1 .. Len(t) : t[i] = s[u(i)]
  BY EraseAt, Zenon
<1> HIDE DEF t
<1>2. \A i \in 1 .. Len(t) : u(i) \in (1 .. Len(s)) \ {k}
  BY <1>0, <1>1
<1>3. \A i, j \in 1 .. Len(t) : i # j => u(i) # u(j)
  BY <1>0, <1>1
<1>4. \A j \in (1 .. Len(s)) \ {k} : \E i \in 1 .. Len(t) : u(i) = j
  <2> SUFFICES ASSUME NEW j \in (1 .. Len(s)) \ {k} PROVE \E i \in 1 .. Len(t) : u(i) = j
    OBVIOUS
  <2> DEFINE i == IF j < k THEN j ELSE j - 1
  <2>1. i \in 1 .. Len(t) /\ u(i) = j
    BY <1>0, <1>1
  <2> QED BY <2>1, Zenon
<1> HIDE DEF u
<1>5. NoRepeats(t)
  BY <1>1, <1>2, <1>3, Zenon DEF NoRepeats
<1>6. ASSUME NEW y \in InSeq(t) PROVE y \in InSeq(s) \ {s[k]}
  <2>1. PICK i \in 1 .. Len(t) : y = t[i]
    BY Zenon DEF InSeq
  <2>2. u(i) \in 1 .. Len(s) /\ u(i) # k /\ y = s[u(i)]
    BY <1>1, <1>2, <2>1, Zenon
  <2>3. y # s[k]
    BY <2>2, Zenon DEF NoRepeats
  <2> QED BY <2>2, <2>3, Zenon DEF InSeq
<1>7. ASSUME NEW y \in InSeq(s) \ {s[k]} PROVE y \in InSeq(t)
  <2>1. PICK j \in (1 .. Len(s)) \ {k} : y = s[j]
    BY Zenon DEF InSeq
  <2>2. PICK i \in 1 .. Len(t) : u(i) = j
    BY <1>4, Zenon
  <2> QED BY <1>1, <2>1, <2>2, Zenon DEF InSeq
<1> QED BY <1>1, <1>5, <1>6, <1>7, Zenon DEF t

-----------------------------------------------------------------------------
(* notify's queue.                                                         *)

(* Taking the prefetch of a requested block out leaves the others, in      *)
(* order, and none of that block.                                          *)
LEMMA DropQueuedFact ==
  ASSUME NEW q \in Seq(Block), NoRepeats(q), NEW b
  PROVE  /\ DropQueued(q, b) \in Seq(Block)
         /\ NoRepeats(DropQueued(q, b))
         /\ InSeq(DropQueued(q, b)) = InSeq(q) \ {b}
<1>1. CASE inPrefetch(q, b)
  <2> DEFINE First(i) == q[i] = b /\ \A j \in 1 .. i - 1 : q[j] # b
             k == CHOOSE i \in 1 .. Len(q) : First(i)
  <2>1. PICK i \in 1 .. Len(q) : q[i] = b
    BY <1>1, Zenon DEF inPrefetch
  <2>2. First(i)
    BY <2>1 DEF NoRepeats
  <2>3. k \in 1 .. Len(q) /\ q[k] = b
    BY <2>2, Zenon
  <2>4. DropQueued(q, b) = erase(q, k)
    BY <1>1, Zenon DEF DropQueued
  <2> HIDE DEF k
  <2>5. /\ erase(q, k) \in Seq(Block) /\ NoRepeats(erase(q, k))
        /\ InSeq(erase(q, k)) = InSeq(q) \ {q[k]}
    BY <2>3, EraseNoRepeats, Zenon
  <2> QED BY <2>3, <2>4, <2>5, Zenon
<1>2. CASE ~inPrefetch(q, b)
  BY <1>2, Zenon DEF inPrefetch, DropQueued, InSeq
<1> QED BY <1>1, <1>2, Zenon

LEMMA EnqueueStepFact ==
  ASSUME NEW q \in Seq(Block), NoRepeats(q), NEW b \in Block
  PROVE  /\ EnqueueStep(q, b) \in Seq(Block)
         /\ NoRepeats(EnqueueStep(q, b))
         /\ InSeq(EnqueueStep(q, b)) \subseteq InSeq(q) \cup {b}
<1>1. CASE inPrefetch(q, b)
  BY <1>1, Zenon DEF EnqueueStep
<1>2. CASE ~inPrefetch(q, b)
  <2> DEFINE r == IF Len(q) = prefetcher_size THEN Tail(q) ELSE q
  <2>1. b \notin InSeq(q)
    BY <1>2, Zenon DEF inPrefetch, InSeq
  <2>2. r \in Seq(Block) /\ NoRepeats(r) /\ InSeq(r) \subseteq InSeq(q)
    <3>1. CASE Len(q) = prefetcher_size
      <4>1. q # << >>
        BY <3>1, PrefetcherSizeAssumption, Zenon
      <4> QED BY <3>1, <4>1, TailNoRepeats, Zenon
    <3> QED BY <3>1, Zenon
  <2> HIDE DEF r
  <2>3. b \notin InSeq(r)
    BY <2>1, <2>2, Zenon
  <2>4. EnqueueStep(q, b) = Append(r, b)
    BY <1>2, Zenon DEF EnqueueStep, r
  <2> QED BY <2>2, <2>3, <2>4, AppendNoRepeats
<1> QED BY <1>1, <1>2, Zenon

LEMMA EnqueueDefined ==
  ASSUME SetFacts, NEW q, NEW n \in Nat, NEW l
  PROVE  \E f : f = [i \in 0 .. n |-> IF i = 0 THEN q ELSE EnqueueStep(f[i - 1], l[i])]
<1> DEFINE P(m) == \E f : f = [i \in 0 .. m |-> IF i = 0 THEN q ELSE EnqueueStep(f[i - 1], l[i])]
           T == {m \in Nat : ~P(m)}
<1> SUFFICES ASSUME T # {} PROVE FALSE
  OBVIOUS
<1>1. PICK m \in T : \A y \in T : m <= y
  BY Least, Zenon
<1>2. P(0)
  <2> DEFINE f == [i \in 0 .. 0 |-> q]
  <2>1. f = [i \in 0 .. 0 |-> IF i = 0 THEN q ELSE EnqueueStep(f[i - 1], l[i])]
    OBVIOUS
  <2> QED BY <2>1, Zenon
<1>3. m # 0
  BY <1>1, <1>2, Zenon
<1>4. P(m - 1)
  BY <1>1, <1>3
<1>5. PICK f : f = [i \in 0 .. (m - 1) |-> IF i = 0 THEN q ELSE EnqueueStep(f[i - 1], l[i])]
  BY <1>4, Zenon
<1> DEFINE g == [i \in 0 .. m |-> IF i = m THEN EnqueueStep(f[m - 1], l[m]) ELSE f[i]]
<1>6. g = [i \in 0 .. m |-> IF i = 0 THEN q ELSE EnqueueStep(g[i - 1], l[i])]
  <2> SUFFICES ASSUME NEW i \in 0 .. m
               PROVE  g[i] = IF i = 0 THEN q ELSE EnqueueStep(g[i - 1], l[i])
    OBVIOUS
  <2>1. CASE i = m
    BY <1>3, <2>1
  <2>2. CASE i # m
    <3>1. i \in 0 .. (m - 1)
      BY <2>2
    <3>2. f[i] = IF i = 0 THEN q ELSE EnqueueStep(f[i - 1], l[i])
      BY <1>5, <3>1, Zenon
    <3> QED BY <2>2, <3>1, <3>2
  <2> QED BY <2>1, <2>2, Zenon
<1>7. P(m)
  BY <1>6, Zenon
<1> QED BY <1>1, <1>7, Zenon

(* The insertion loop of notify: the queue holds no block twice, and none  *)
(* that was neither queued nor issued.                                     *)
LEMMA EnqueueFact ==
  ASSUME SetFacts, NEW q \in Seq(Block), NoRepeats(q), NEW l \in Seq(Block)
  PROVE  /\ Enqueue(q, l) \in Seq(Block)
         /\ NoRepeats(Enqueue(q, l))
         /\ InSeq(Enqueue(q, l)) \subseteq InSeq(q) \cup InSeq(l)
<1> DEFINE n == Len(l)
           Rec(f) == f = [i \in 0 .. n |-> IF i = 0 THEN q ELSE EnqueueStep(f[i - 1], l[i])]
           run == CHOOSE f : Rec(f)
           Good(i) == /\ run[i] \in Seq(Block) /\ NoRepeats(run[i])
                      /\ InSeq(run[i]) \subseteq InSeq(q) \cup InSeq(l)
           T == {i \in 0 .. n : ~Good(i)}
<1>1. n \in Nat
  OBVIOUS
<1>2. Rec(run)
  BY <1>1, EnqueueDefined
<1>3. Enqueue(q, l) = run[n]
  BY Zenon DEF Enqueue
<1> HIDE DEF run
<1>4. run[0] = q /\ \A i \in 1 .. n : run[i] = EnqueueStep(run[i - 1], l[i])
  BY <1>1, <1>2
<1>5. T = {}
  <2> SUFFICES ASSUME T # {} PROVE FALSE
    OBVIOUS
  <2>1. PICK m \in T : \A y \in T : m <= y
    <3>1. T \in SUBSET Nat
      OBVIOUS
    <3> HIDE DEF T
    <3> QED BY <3>1, Least, Zenon
  <2>2. Good(0)
    BY <1>4, Zenon
  <2>3. m \in 1 .. n
    BY <1>1, <2>1, <2>2
  <2>4. Good(m - 1)
    BY <1>1, <2>1, <2>3
  <2>5. l[m] \in Block /\ l[m] \in InSeq(l)
    BY <2>3 DEF InSeq
  <2>6. run[m] = EnqueueStep(run[m - 1], l[m])
    BY <1>4, <2>3, Zenon
  <2>7. /\ run[m] \in Seq(Block) /\ NoRepeats(run[m])
        /\ InSeq(run[m]) \subseteq InSeq(run[m - 1]) \cup {l[m]}
    <3> DEFINE p == run[m - 1]
               x == l[m]
    <3>1. p \in Seq(Block) /\ NoRepeats(p) /\ x \in Block
      BY <2>4, <2>5, Zenon
    <3> HIDE DEF p, x
    <3>2. /\ EnqueueStep(p, x) \in Seq(Block) /\ NoRepeats(EnqueueStep(p, x))
          /\ InSeq(EnqueueStep(p, x)) \subseteq InSeq(p) \cup {x}
      BY <3>1, EnqueueStepFact, Zenon
    <3> QED BY <2>6, <3>2, Zenon DEF p, x
  <2>8. Good(m)
    BY <2>4, <2>5, <2>7, Zenon
  <2> QED BY <2>1, <2>8, Zenon
<1> QED BY <1>1, <1>3, <1>5

-----------------------------------------------------------------------------
(* The loop of prefetch_filter.                                            *)

(* What the filter has achieved after any number of candidates, if it      *)
(* started with F in in_flight: what it has collected is new to in_flight, *)
(* wanted, and recorded there within the bound.                            *)
FilterInv(s, F, unwanted) ==
  /\ s \in [prefetches : Seq(Block), in_flight : SUBSET Block]
  /\ NoRepeats(s.prefetches)
  /\ F \subseteq s.in_flight
  /\ Cardinality(s.in_flight) <= MAX_QUEUE_SIZE
  /\ InSeq(s.prefetches) \subseteq s.in_flight \ F
  /\ InSeq(s.prefetches) \cap unwanted = {}

LEMMA FilterStepFact ==
  ASSUME SetFacts, NEW F, NEW unwanted, NEW s, FilterInv(s, F, unwanted), NEW a \in Nat
  PROVE  FilterInv(FilterStep(s, a, unwanted), F, unwanted)
<1> DEFINE b      == to_block(a)
           accept == /\ a <= MAX_PHYS_MEM_ADDR
                     /\ b \notin s.in_flight
                     /\ b \notin unwanted
                     /\ Cardinality(s.in_flight) < MAX_QUEUE_SIZE
           found  == IF accept THEN Append(s.prefetches, b) ELSE s.prefetches
           known  == IF accept THEN s.in_flight \cup {b} ELSE s.in_flight
           t      == FilterStep(s, a, unwanted)
<1>1. t = [prefetches |-> IF a = 0 THEN << >> ELSE found, in_flight |-> known]
  BY Zenon DEF FilterStep
<1>2. s.prefetches \in Seq(Block) /\ s.in_flight \in SUBSET Block
  BY Zenon DEF FilterInv
<1>3. /\ found \in Seq(Block) /\ known \in SUBSET Block /\ NoRepeats(found)
      /\ F \subseteq known
      /\ Cardinality(known) <= MAX_QUEUE_SIZE
      /\ InSeq(found) \subseteq known \ F
      /\ InSeq(found) \cap unwanted = {}
  <2>1. CASE accept
    <3>1. b \in Block
      BY <2>1 DEF Block
    <3>2. b \notin InSeq(s.prefetches) /\ b \notin F
      BY <2>1, Zenon DEF FilterInv
    <3>3. /\ found \in Seq(Block) /\ NoRepeats(found)
          /\ InSeq(found) = InSeq(s.prefetches) \cup {b}
      BY <1>2, <2>1, <3>1, <3>2, AppendNoRepeats DEF FilterInv
    <3>5. Cardinality(known) = Cardinality(s.in_flight) + 1 /\ Cardinality(s.in_flight) \in Nat
      BY <1>2, <2>1, <3>1, Zenon DEF SetFacts
    <3> HIDE DEF found, b
    <3> QED BY <1>2, <2>1, <3>1, <3>2, <3>3, <3>5, MaxQueueSizeAssumption DEF FilterInv
  <2>2. CASE ~accept
    BY <1>2, <2>2, Zenon DEF FilterInv
  <2> QED BY <2>1, <2>2, Zenon
<1> HIDE DEF found, known
<1>4. NoRepeats(<< >>) /\ InSeq(<< >>) = {}
  BY DEF NoRepeats, InSeq
<1> QED BY <1>1, <1>3, <1>4 DEF FilterInv

IsFilterRun(f, s0, n, l, U) ==
  f = [i \in 0 .. n |-> IF i = 0 THEN s0 ELSE FilterStep(f[i - 1], l[i], U)]

LEMMA FilterDefined ==
  ASSUME SetFacts, NEW s0, NEW n \in Nat, NEW l, NEW U
  PROVE  \E f : IsFilterRun(f, s0, n, l, U)
<1> USE DEF IsFilterRun
<1> DEFINE P(m) == \E f : f = [i \in 0 .. m |-> IF i = 0 THEN s0 ELSE FilterStep(f[i - 1], l[i], U)]
           T == {m \in Nat : ~P(m)}
<1> SUFFICES ASSUME T # {} PROVE FALSE
  BY Zenon
<1>1. PICK m \in T : \A y \in T : m <= y
  BY Least, Zenon
<1>2. P(0)
  <2> DEFINE f == [i \in 0 .. 0 |-> s0]
  <2>1. f = [i \in 0 .. 0 |-> IF i = 0 THEN s0 ELSE FilterStep(f[i - 1], l[i], U)]
    OBVIOUS
  <2> QED BY <2>1, Zenon
<1>3. m # 0
  BY <1>1, <1>2, Zenon
<1>4. P(m - 1)
  BY <1>1, <1>3
<1>5. PICK f : f = [i \in 0 .. (m - 1) |-> IF i = 0 THEN s0 ELSE FilterStep(f[i - 1], l[i], U)]
  BY <1>4, Zenon
<1> DEFINE g == [i \in 0 .. m |-> IF i = m THEN FilterStep(f[m - 1], l[m], U) ELSE f[i]]
<1>6. g = [i \in 0 .. m |-> IF i = 0 THEN s0 ELSE FilterStep(g[i - 1], l[i], U)]
  <2> SUFFICES ASSUME NEW i \in 0 .. m
               PROVE  g[i] = IF i = 0 THEN s0 ELSE FilterStep(g[i - 1], l[i], U)
    OBVIOUS
  <2>1. CASE i = m
    BY <1>3, <2>1
  <2>2. CASE i # m
    <3>1. i \in 0 .. (m - 1)
      BY <2>2
    <3>2. f[i] = IF i = 0 THEN s0 ELSE FilterStep(f[i - 1], l[i], U)
      BY <1>5, <3>1, Zenon
    <3> QED BY <2>2, <3>1, <3>2
  <2> QED BY <2>1, <2>2, Zenon
<1>7. P(m)
  BY <1>6, Zenon
<1> QED BY <1>1, <1>7, Zenon

(* The whole filter, for candidate lists of every length.                  *)
LEMMA FilterFact ==
  ASSUME SetFacts, NEW l \in Seq(Nat), NEW F \in SUBSET Block,
         Cardinality(F) <= MAX_QUEUE_SIZE, NEW U
  PROVE  FilterInv(prefetch_filter(l, F, U), F, U)
<1> DEFINE n == Len(l)
           s0 == [prefetches |-> << >>, in_flight |-> F]
           run == CHOOSE f : IsFilterRun(f, s0, n, l, U)
           T == {i \in 0 .. n : ~FilterInv(run[i], F, U)}
<1>1. n \in Nat
  OBVIOUS
<1>2. IsFilterRun(run, s0, n, l, U)
  BY <1>1, FilterDefined, Zenon
<1>3. prefetch_filter(l, F, U) = run[n]
  BY Zenon DEF prefetch_filter, IsFilterRun
<1>4. FilterInv(s0, F, U)
  BY DEF FilterInv, NoRepeats, InSeq
<1> HIDE DEF run, s0
<1>5. run[0] = s0 /\ \A i \in 1 .. n : run[i] = FilterStep(run[i - 1], l[i], U)
  <2>1. \A i \in 0 .. n : run[i] = IF i = 0 THEN s0 ELSE FilterStep(run[i - 1], l[i], U)
    BY <1>2, Zenon DEF IsFilterRun
  <2> QED BY <1>1, <2>1
<1>6. T = {}
  <2> SUFFICES ASSUME T # {} PROVE FALSE
    OBVIOUS
  <2>1. PICK m \in T : \A y \in T : m <= y
    <3>1. T \in SUBSET Nat
      OBVIOUS
    <3> HIDE DEF T
    <3> QED BY <3>1, Least, Zenon
  <2>2. m \in 1 .. n
    BY <1>1, <1>4, <1>5, <2>1
  <2>3. FilterInv(run[m - 1], F, U)
    BY <1>1, <2>1, <2>2
  <2>4. l[m] \in Nat
    BY <2>2
  <2>5. FilterInv(FilterStep(run[m - 1], l[m], U), F, U)
    BY <2>3, <2>4, FilterStepFact, Zenon
  <2>6. FilterInv(run[m], F, U)
    BY <1>5, <2>2, <2>5, Zenon
  <2> QED BY <2>1, <2>6, Zenon
<1> QED BY <1>1, <1>3, <1>6

(* issue_prefetches hands over some of the collected blocks.               *)
LEMMA IssueFact ==
  ASSUME NEW p \in Seq(Block), NoRepeats(p), NEW k
  PROVE  /\ issue_prefetches(p, k) \in Seq(Block)
         /\ InSeq(issue_prefetches(p, k)) \subseteq InSeq(p)
<1> DEFINE n == IF Len(p) <= MAX_DEGREE THEN Len(p) ELSE MAX_DEGREE
<1>1. n \in 0 .. Len(p)
  BY MaxDegreeAssumption
<1> HIDE DEF n
<1>2. SubSeq(p, 1, n) \in Seq(Block) /\ InSeq(SubSeq(p, 1, n)) \subseteq InSeq(p)
  BY <1>1, SubSeqNoRepeats
<1>3. << >> \in Seq(Block) /\ InSeq(<< >>) = {}
  BY DEF InSeq
<1> QED BY <1>2, <1>3, Zenon DEF issue_prefetches, n

-----------------------------------------------------------------------------
(* The queues of the L2.                                                   *)

(* The MSHR that ran out of targets is unique, and if it still holds its   *)
(* prefetch there is a demand behind it: the bail-out cannot free it.      *)
TargetsInv ==
  /\ \A b, c \in noTargetMSHR : b = c
  /\ \A b \in noTargetMSHR : mshr[b].pf => getNumTargets(mshr[b]) >= 2

PrefetchInv == OnePrefetchPerBlock /\ InFlightBounded /\ QueuedStillWanted

IInv == TypeOK /\ PrefetchInv /\ ReadyListExact /\ BlockedWhenFull /\ TargetsInv

LEMMA InitIInv == ASSUME SetFacts, Init PROVE IInv
<1> USE DEF Init
<1>1. NoMSHR \in MSHRType /\ getNumTargets(NoMSHR) = 0
  BY NumTargetAssumption DEF NoMSHR, MSHRType, getNumTargets
<1>2. TypeOK
  <2>1. pf \in Seq(Block) /\ readyList \in Seq(Block) /\ writeBuffer \in Seq(Block)
    OBVIOUS
  <2>2. blk \in [Block -> SUBSET Status] /\ mshr \in [Block -> MSHRType]
    BY <1>1, Zenon
  <2>3. above \in [Block -> {"none", "shared", "modified"}] /\ mustSendRetry \in BOOLEAN
    BY Zenon
  <2> QED BY <2>1, <2>2, <2>3, Zenon DEF TypeOK
<1>3. InSeq(<< >>) = {} /\ NoRepeats(<< >>)
  BY DEF InSeq, NoRepeats
<1>4. Cardinality({}) = 0
  BY Zenon DEF SetFacts
<1>5. OnePrefetchPerBlock /\ QueuedStillWanted
  BY <1>3, Zenon DEF OnePrefetchPerBlock, QueuedStillWanted, NoMSHR
<1>6. InFlightBounded
  BY <1>4, MaxQueueSizeAssumption DEF InFlightBounded
<1>7. ReadyListExact
  BY <1>3, Zenon DEF ReadyListExact, NoMSHR
<1>8. BlockedWhenFull
  <2>1. Allocated(mshr) = {}
    BY Zenon DEF Allocated, NoMSHR
  <2>2. \A b \in Block : getNumTargets(mshr[b]) = 0
    BY <1>1, Zenon
  <2>3. ~isFull(mshr) /\ Cardinality(Allocated(mshr)) <= mshrs
    <3>1. Cardinality(Allocated(mshr)) = 0
      BY <1>4, <2>1, Zenon
    <3> QED BY <3>1, MSHRsAssumption DEF isFull
  <2>4. ~WBFull(writeBuffer)
    BY WriteBuffersAssumption DEF WBFull
  <2>5. \A b \in Block : ~(getNumTargets(mshr[b]) >= numTarget)
    BY <2>2, NumTargetAssumption
  <2> QED BY <2>3, <2>4, <2>5, Zenon DEF BlockedWhenFull
<1>9. TargetsInv
  BY Zenon DEF TargetsInv
<1> QED BY <1>2, <1>5, <1>6, <1>7, <1>8, <1>9, Zenon DEF IInv, PrefetchInv

-----------------------------------------------------------------------------
(* What a notification does to the queue and to in_flight: what is queued  *)
(* afterwards was queued before, and is not the requested block, or is new *)
(* to in_flight and neither cached nor in an MSHR.                         *)
LEMMA NotifyFact ==
  ASSUME SetFacts, TypeOK, OnePrefetchPerBlock, InFlightBounded,
         NEW b \in Block, NEW cands \in Seq(Nat), NEW tags, NEW ms,
         notify(b, cands, tags, ms)
  PROVE  /\ pf' \in Seq(Block) /\ NoRepeats(pf')
         /\ in_flight' \in SUBSET Block /\ in_flight \subseteq in_flight'
         /\ Cardinality(in_flight') <= MAX_QUEUE_SIZE
         /\ \A x \in InSeq(pf') :
              \/ x \in InSeq(pf) \ {b}
              \/ /\ x \in in_flight' \ in_flight
                 /\ "Valid" \notin tags[x] /\ ms[x].cmd = "free"
<1> DEFINE queue    == DropQueued(pf, b)
           unwanted == {c \in Block : "Valid" \in tags[c]} \cup Allocated(ms)
           filtered == prefetch_filter(cands, in_flight, unwanted)
           issued   == issue_prefetches(filtered.prefetches, Len(queue))
<1>1. pf' = Enqueue(queue, issued) /\ in_flight' = filtered.in_flight
  BY Zenon DEF notify
<1>2. queue \in Seq(Block) /\ NoRepeats(queue) /\ InSeq(queue) = InSeq(pf) \ {b}
  BY DropQueuedFact, Zenon DEF TypeOK, OnePrefetchPerBlock
<1>3. FilterInv(filtered, in_flight, unwanted)
  BY FilterFact, Zenon DEF TypeOK, InFlightBounded
<1> HIDE DEF queue, filtered
<1>4. issued \in Seq(Block) /\ InSeq(issued) \subseteq InSeq(filtered.prefetches)
  BY <1>3, IssueFact, Zenon DEF FilterInv
<1> HIDE DEF issued
<1>5. /\ pf' \in Seq(Block) /\ NoRepeats(pf')
      /\ InSeq(pf') \subseteq InSeq(queue) \cup InSeq(issued)
  BY <1>1, <1>2, <1>4, EnqueueFact, Zenon
<1>6. /\ filtered.in_flight \in SUBSET Block /\ in_flight \subseteq filtered.in_flight
      /\ Cardinality(filtered.in_flight) <= MAX_QUEUE_SIZE
      /\ InSeq(filtered.prefetches) \subseteq filtered.in_flight \ in_flight
      /\ InSeq(filtered.prefetches) \cap unwanted = {}
  BY <1>3, Zenon DEF FilterInv
<1>7. \A x \in Block : x \notin unwanted => "Valid" \notin tags[x] /\ ms[x].cmd = "free"
  BY Zenon DEF Allocated
<1> HIDE DEF unwanted
<1>8. ASSUME NEW x \in InSeq(pf')
      PROVE  \/ x \in InSeq(pf) \ {b}
             \/ x \in in_flight' \ in_flight /\ "Valid" \notin tags[x] /\ ms[x].cmd = "free"
  <2>1. CASE x \in InSeq(queue)
    BY <1>2, <2>1, Zenon
  <2>2. CASE x \in InSeq(issued)
    BY <1>1, <1>4, <1>6, <1>7, <2>2, Zenon
  <2> QED BY <1>5, <2>1, <2>2, Zenon
<1> QED BY <1>1, <1>5, <1>6, <1>8, Zenon

LEMMA CandidatesType ==
  ASSUME NEW b \in Block, NEW cands \in Candidates[b]
  PROVE  cands \in Seq(Nat)
BY CandidatesAssumption, Zenon

-----------------------------------------------------------------------------
(* Frame lemmas: when a group of conjuncts of IInv is not disturbed.       *)

(* An action that does not tell the prefetcher: no prefetch appears and    *)
(* what is queued stays wanted.                                            *)
LEMMA PrefetchKept ==
  ASSUME TypeOK, PrefetchInv, UNCHANGED <<in_flight, pf>>,
         \A x \in Block : mshr'[x].pf => mshr[x].pf,
         prefetchOnAccess => \A x \in InSeq(pf) : Wanted(x) => Wanted(x)'
  PROVE  PrefetchInv'
<1>1. InSeq(pf) \subseteq Block
  BY InSeqType, Zenon DEF TypeOK
<1>2. OnePrefetchPerBlock'
  BY <1>1, Zenon DEF PrefetchInv, OnePrefetchPerBlock, InSeq, NoRepeats
<1>3. InFlightBounded'
  BY Zenon DEF PrefetchInv, InFlightBounded
<1>4. QueuedStillWanted'
  BY Zenon DEF PrefetchInv, QueuedStillWanted, InSeq
<1> QED BY <1>2, <1>3, <1>4, Zenon DEF PrefetchInv

(* An action that notifies the prefetcher of a request for block b.        *)
LEMMA PrefetchNotified ==
  ASSUME SetFacts, TypeOK, PrefetchInv, NEW b \in Block, NEW cands \in Seq(Nat), NEW tags, NEW ms,
         notify(b, cands, tags, ms),
         \A x \in Block : mshr'[x].pf => mshr[x].pf,
         \A x \in Block \ {b} : Wanted(x) => Wanted(x)',
         \A x \in Block : "Valid" \notin tags[x] /\ ms[x].cmd = "free" => Wanted(x)'
  PROVE  PrefetchInv' /\ pf' \in Seq(Block) /\ in_flight' \in SUBSET Block
<1>0. InSeq(pf) \subseteq Block
  BY InSeqType, Zenon DEF TypeOK
<1>1. /\ pf' \in Seq(Block) /\ NoRepeats(pf')
      /\ in_flight' \in SUBSET Block /\ in_flight \subseteq in_flight'
      /\ Cardinality(in_flight') <= MAX_QUEUE_SIZE
  BY NotifyFact, Zenon DEF PrefetchInv
<1>2. \A x \in InSeq(pf') : \/ x \in InSeq(pf) \ {b}
                            \/ /\ x \in in_flight' \ in_flight
                               /\ "Valid" \notin tags[x] /\ ms[x].cmd = "free"
  BY NotifyFact, Zenon DEF PrefetchInv
<1>3. InSeq(pf') \subseteq Block
  BY <1>1 DEF InSeq
<1>4. \A x \in InSeq(pf) : x \in in_flight /\ ~mshr[x].pf
  BY Zenon DEF PrefetchInv, OnePrefetchPerBlock
<1>5. \A x \in Block : mshr[x].pf => x \in in_flight
  BY Zenon DEF PrefetchInv, OnePrefetchPerBlock
<1>6. \A x \in InSeq(pf') : x \in in_flight' /\ ~mshr'[x].pf
  BY <1>1, <1>2, <1>3, <1>4, <1>5, Zenon
<1>7. OnePrefetchPerBlock'
  BY <1>1, <1>5, <1>6, Zenon DEF OnePrefetchPerBlock, InSeq, NoRepeats
<1>8. QueuedStillWanted'
  <2> SUFFICES ASSUME prefetchOnAccess, NEW x \in InSeq(pf') PROVE Wanted(x)'
    BY Zenon DEF QueuedStillWanted, InSeq
  <2>1. CASE x \in InSeq(pf) \ {b}
    BY <1>0, <2>1, Zenon DEF PrefetchInv, QueuedStillWanted
  <2>2. CASE "Valid" \notin tags[x] /\ ms[x].cmd = "free"
    BY <1>3, <2>2, Zenon
  <2> QED BY <1>2, <2>1, <2>2, Zenon
<1>9. InFlightBounded'
  BY <1>1, Zenon DEF InFlightBounded
<1> QED BY <1>1, <1>7, <1>8, <1>9, Zenon DEF PrefetchInv

LEMMA ReadyKept ==
  ASSUME ReadyListExact, UNCHANGED readyList,
         \A x \in Block : mshr'[x].cmd = "pending" <=> mshr[x].cmd = "pending"
  PROVE  ReadyListExact'
BY Zenon DEF ReadyListExact, InSeq, NoRepeats

(* What ChangeBlocked does.                                                *)
LEMMA ChangeBlockedFact ==
  ASSUME TypeOK, NEW clear, NEW set \in SUBSET BlockedCause, ChangeBlocked(clear, set),
         mustSendRetry => blocked # {}
  PROVE  /\ blocked' \in SUBSET BlockedCause /\ mustSendRetry' \in BOOLEAN
         /\ blocked' = (blocked \ clear) \cup set
         /\ mustSendRetry' => blocked' # {}
BY Zenon DEF ChangeBlocked, TypeOK

(* The conjuncts about blocking, when the set of allocated MSHRs stays.    *)
LEMMA BlockedKept ==
  ASSUME BlockedWhenFull, TargetsInv,
         UNCHANGED <<mshr, writeBuffer, blocked, noTargetMSHR>>,
         mustSendRetry' => blocked' # {}
  PROVE  BlockedWhenFull' /\ TargetsInv'
BY Zenon DEF BlockedWhenFull, TargetsInv, isFull, WBFull, Allocated, HasMSHR, getNumTargets

-----------------------------------------------------------------------------
(* Counting MSHRs.                                                         *)

LEMMA AllocatedFinite ==
  ASSUME SetFacts, NEW ms
  PROVE  Cardinality(Allocated(ms)) \in Nat
<1>1. Allocated(ms) \in SUBSET Block
  BY Zenon DEF Allocated
<1> QED BY <1>1, Zenon DEF SetFacts

LEMMA AllocateMSHR ==
  ASSUME SetFacts, TypeOK, NEW b \in Block, ~HasMSHR(b), NEW m, m.cmd # "free"
  PROVE  Cardinality(Allocated([mshr EXCEPT ![b] = m])) = Cardinality(Allocated(mshr)) + 1
<1> DEFINE ms == [mshr EXCEPT ![b] = m]
<1>1. Allocated(ms) = Allocated(mshr) \cup {b} /\ b \in Block \ Allocated(mshr)
  BY Zenon DEF TypeOK, Allocated, HasMSHR
<1>2. Allocated(mshr) \in SUBSET Block
  BY Zenon DEF Allocated
<1> QED BY <1>1, <1>2, Zenon DEF SetFacts

LEMMA FreeMSHR ==
  ASSUME SetFacts, TypeOK, NEW b \in Block, HasMSHR(b)
  PROVE  /\ Cardinality(Allocated([mshr EXCEPT ![b] = NoMSHR])) = Cardinality(Allocated(mshr)) - 1
         /\ Cardinality(Allocated(mshr)) \in Nat
<1> DEFINE ms == [mshr EXCEPT ![b] = NoMSHR]
<1>1. Allocated(ms) = Allocated(mshr) \ {b} /\ b \in Allocated(mshr)
  BY Zenon DEF TypeOK, Allocated, HasMSHR, NoMSHR
<1>2. Allocated(mshr) \in SUBSET Block
  BY Zenon DEF Allocated
<1> QED BY <1>1, <1>2, Zenon DEF SetFacts

(* While the cpu side is open no resource is exhausted.                    *)
LEMMA OpenFact ==
  ASSUME BlockedWhenFull, blocked = {}
  PROVE  /\ noTargetMSHR = {}
         /\ ~isFull(mshr) /\ ~WBFull(writeBuffer) /\ ~mustSendRetry
         /\ \A b \in Block : ~(getNumTargets(mshr[b]) >= numTarget)
BY Zenon DEF BlockedWhenFull

LEMMA TargetsType ==
  ASSUME NEW m \in MSHRType
  PROVE  getNumTargets(m) \in Nat /\ getNumTargets(m) >= m.reads
BY DEF MSHRType, getNumTargets

-----------------------------------------------------------------------------
(* Requests.                                                               *)

LEMMA RefuseRequestStep == ASSUME IInv, RefuseRequest PROVE IInv'
<1> USE DEF IInv, RefuseRequest
<1>1. TypeOK'
  BY Zenon DEF TypeOK
<1>2. PrefetchInv'
  BY PrefetchKept, Zenon DEF Wanted, Valid, HasMSHR
<1>3. ReadyListExact'
  BY ReadyKept, Zenon
<1>4. BlockedWhenFull' /\ TargetsInv'
  BY BlockedKept, Zenon
<1> QED BY <1>1, <1>2, <1>3, <1>4, Zenon

(* A satisfied access: the tags and the prefetcher's variables change.     *)
LEMMA NotifyHitFact ==
  ASSUME SetFacts, TypeOK, PrefetchInv, NEW b \in Block, NEW cands \in Seq(Nat),
         NEW tags \in [Block -> SUBSET Status], NotifyHit(b, cands, tags),
         UNCHANGED mshr,
         \A x \in Block \ {b} : Wanted(x) => Wanted(x)',
         \A x \in Block : "Valid" \notin tags[x] /\ mshr[x].cmd = "free" => Wanted(x)'
  PROVE  PrefetchInv' /\ pf' \in Seq(Block) /\ in_flight' \in SUBSET Block
<1>1. CASE prefetchOnAccess \/ "HWPrefetched" \in tags[b]
  <2>1. notify(b, cands, tags, mshr)
    BY <1>1, Zenon DEF NotifyHit
  <2> QED BY <2>1, PrefetchNotified, Zenon
<1>2. CASE ~(prefetchOnAccess \/ "HWPrefetched" \in tags[b])
  <2>1. UNCHANGED <<in_flight, pf>>
    BY <1>2, Zenon DEF NotifyHit, prefetcherVars
  <2> QED BY <1>2, <2>1, PrefetchKept, Zenon DEF TypeOK
<1> QED BY <1>1, <1>2, Zenon

LEMMA HitStep ==
  ASSUME SetFacts, IInv, NEW b \in Block, NEW kind \in Kind, NEW cands \in Candidates[b],
         Hit(b, kind, cands)
  PROVE  IInv'
<1> DEFINE tags == [blk EXCEPT ![b] = AfterHit(@, kind)]
<1> USE DEF IInv
<1>0. cands \in Seq(Nat)
  BY CandidatesType, Zenon
<1>1. tags \in [Block -> SUBSET Status]
  BY Zenon DEF TypeOK, AfterHit
<1>2. /\ NotifyHit(b, cands, tags)
      /\ blk' = [tags EXCEPT ![b] = @ \ {"HWPrefetched"}]
      /\ above' = [above EXCEPT ![b] = IF kind = "Read" THEN "shared" ELSE "modified"]
      /\ UNCHANGED <<mshr, readyList, writeBuffer, blocked, noTargetMSHR,
                     mustSendRetry, waitingOnRetry, aborted>>
  BY Zenon DEF Hit
<1>3. /\ \A x \in Block \ {b} : Wanted(x) => Wanted(x)'
      /\ \A x \in Block : "Valid" \notin tags[x] /\ mshr[x].cmd = "free" => Wanted(x)'
  BY <1>1, <1>2, Zenon DEF TypeOK, Wanted, Valid, HasMSHR
<1> HIDE DEF tags
<1>4. PrefetchInv' /\ pf' \in Seq(Block) /\ in_flight' \in SUBSET Block
  BY <1>0, <1>1, <1>2, <1>3, NotifyHitFact, Zenon
<1>5. TypeOK'
  BY <1>1, <1>2, <1>4, Zenon DEF TypeOK
<1>6. ReadyListExact'
  BY <1>2, ReadyKept, Zenon
<1>7. BlockedWhenFull' /\ TargetsInv'
  BY <1>2, BlockedKept, Zenon DEF BlockedWhenFull
<1> QED BY <1>4, <1>5, <1>6, <1>7, Zenon

(* One more target of an MSHR, from an open cpu side.                      *)
LEMMA AddTargetFact ==
  ASSUME IInv, blocked = {}, NEW b \in Block, HasMSHR(b), NEW target \in MSHRType,
         target.cmd = mshr[b].cmd, target.pf = mshr[b].pf,
         getNumTargets(target) <= getNumTargets(mshr[b]) + 1,
         AddTarget(b, target), UNCHANGED writeBuffer
  PROVE  /\ BlockedWhenFull' /\ TargetsInv'
         /\ mshr' \in [Block -> MSHRType] /\ noTargetMSHR' \in SUBSET Block
         /\ blocked' \in SUBSET BlockedCause /\ mustSendRetry' \in BOOLEAN
         /\ \A x \in Block : mshr'[x].cmd = mshr[x].cmd /\ mshr'[x].pf = mshr[x].pf
<1> USE DEF IInv
<1>1. mshr' = [mshr EXCEPT ![b] = target] /\ mshr \in [Block -> MSHRType]
  BY Zenon DEF AddTarget, TypeOK
<1>2. /\ mshr' \in [Block -> MSHRType] /\ mshr'[b] = target
      /\ \A x \in Block \ {b} : mshr'[x] = mshr[x]
  BY <1>1, Zenon
<1>3. \A x \in Block : mshr'[x].cmd = mshr[x].cmd /\ mshr'[x].pf = mshr[x].pf
  BY <1>2, Zenon
<1>4. Allocated(mshr') = Allocated(mshr)
  BY <1>3, Zenon DEF Allocated
<1>5. /\ noTargetMSHR = {} /\ ~isFull(mshr) /\ ~WBFull(writeBuffer) /\ ~mustSendRetry
      /\ \A x \in Block : ~(getNumTargets(mshr[x]) >= numTarget)
  BY OpenFact, Zenon
<1>6. getNumTargets(target) \in Nat /\ getNumTargets(mshr[b]) \in Nat
  BY <1>1, TargetsType, Zenon
<1>7. ~isFull(mshr') /\ Cardinality(Allocated(mshr')) <= mshrs
  BY <1>4, <1>5, Zenon DEF isFull, BlockedWhenFull
<1>8. CASE getNumTargets(target) = numTarget
  <2>1. noTargetMSHR' = {b} /\ blocked' = {"NoTargets"}
        /\ mustSendRetry' \in BOOLEAN /\ ~mustSendRetry'
    BY <1>5, <1>8, Zenon DEF AddTarget, ChangeBlocked
  <2>2. TargetsInv'
    BY <1>2, <1>8, <2>1, NumTargetAssumption, Zenon DEF TargetsInv
  <2>3. \A x \in Block : getNumTargets(mshr'[x]) >= numTarget => x \in noTargetMSHR'
    BY <1>2, <1>5, <2>1, Zenon
  <2>4. BlockedWhenFull'
    BY <1>3, <1>5, <1>7, <2>1, <2>3, Zenon DEF BlockedWhenFull, HasMSHR
  <2> QED BY <1>2, <1>3, <2>1, <2>2, <2>4, Zenon DEF BlockedCause
<1>9. CASE getNumTargets(target) # numTarget
  <2>1. UNCHANGED <<noTargetMSHR, blocked, mustSendRetry>>
    BY <1>9, Zenon DEF AddTarget
  <2>2. ~(getNumTargets(target) >= numTarget)
    BY <1>5, <1>6, <1>9, NumTargetAssumption
  <2>3. \A x \in Block : getNumTargets(mshr'[x]) >= numTarget => x \in noTargetMSHR'
    BY <1>2, <1>5, <2>2, Zenon
  <2>4. BlockedWhenFull' /\ TargetsInv'
    BY <1>5, <1>7, <2>1, <2>3, Zenon DEF BlockedWhenFull, TargetsInv
  <2> QED BY <1>2, <1>3, <2>1, <2>4, Zenon DEF TypeOK
<1> QED BY <1>8, <1>9, Zenon

LEMMA MSHRHitStep ==
  ASSUME IInv, NEW b \in Block, NEW kind \in Kind, MSHRHit(b, kind)
  PROVE  IInv'
<1> DEFINE target == IF kind = "Read" THEN [mshr[b] EXCEPT !.reads = @ + 1]
                                      ELSE [mshr[b] EXCEPT !.excl = kind]
<1> USE DEF IInv
<1>1. /\ blocked = {} /\ HasMSHR(b) /\ mshr[b].excl = "none" /\ AddTarget(b, target)
      /\ UNCHANGED <<in_flight, pf, blk, readyList, writeBuffer, waitingOnRetry,
                     above, aborted>>
  BY Zenon DEF MSHRHit, MayRequest
<1>2. mshr[b] \in MSHRType
  BY Zenon DEF TypeOK
<1>3. ~(getNumTargets(mshr[b]) >= numTarget)
  BY <1>1, OpenFact, Zenon
<1>4. target \in MSHRType
  <2>1. mshr[b].reads + 1 \in 0 .. numTarget
    BY <1>2, <1>3, TargetsType, NumTargetAssumption DEF MSHRType
  <2> QED BY <1>2, <2>1, Zenon DEF MSHRType, Kind
<1>5. target.cmd = mshr[b].cmd /\ target.pf = mshr[b].pf
  BY <1>2, Zenon DEF MSHRType
<1>6. getNumTargets(target) <= getNumTargets(mshr[b]) + 1
  BY <1>1, <1>2 DEF MSHRType, getNumTargets
<1> HIDE DEF target
<1>7. /\ BlockedWhenFull' /\ TargetsInv'
      /\ mshr' \in [Block -> MSHRType] /\ noTargetMSHR' \in SUBSET Block
      /\ blocked' \in SUBSET BlockedCause /\ mustSendRetry' \in BOOLEAN
      /\ \A x \in Block : mshr'[x].cmd = mshr[x].cmd /\ mshr'[x].pf = mshr[x].pf
  BY <1>1, <1>4, <1>5, <1>6, AddTargetFact, Zenon
<1>8. TypeOK'
  BY <1>1, <1>7, Zenon DEF TypeOK
<1>9. PrefetchInv'
  <2>1. InSeq(pf) \subseteq Block
    BY InSeqType, Zenon DEF TypeOK
  <2> QED BY <1>1, <1>7, <2>1, PrefetchKept, Zenon DEF Wanted, Valid, HasMSHR
<1>10. ReadyListExact'
  BY <1>1, <1>7, ReadyKept, Zenon
<1> QED BY <1>7, <1>8, <1>9, <1>10, Zenon

LEMMA MissStep ==
  ASSUME SetFacts, IInv, NEW b \in Block, NEW kind \in Kind, NEW cands \in Candidates[b],
         Miss(b, kind, cands)
  PROVE  IInv'
<1> DEFINE tags == [blk EXCEPT ![b] = @ \ {"Readable"}]
           m    == IF kind = "Read" THEN [NoMSHR EXCEPT !.reads = 1, !.cmd = "pending"]
                                    ELSE [NoMSHR EXCEPT !.excl = kind, !.cmd = "pending"]
           ms   == [mshr EXCEPT ![b] = m]
           set  == IF isFull(ms) THEN {"NoMSHRs"} ELSE {}
<1> USE DEF IInv
<1>0. cands \in Seq(Nat)
  BY CandidatesType, Zenon
<1>1. /\ blocked = {} /\ ~HasMSHR(b) /\ blk' = tags /\ mshr' = ms
      /\ readyList' = Append(readyList, b)
      /\ ChangeBlocked({}, set) /\ notify(b, cands, tags, ms)
      /\ UNCHANGED <<writeBuffer, noTargetMSHR, waitingOnRetry, above, aborted>>
  BY Zenon DEF Miss
<1>2. m \in MSHRType /\ m.cmd = "pending" /\ m.pf = FALSE /\ getNumTargets(m) = 1
  <2>1. CASE kind = "Read"
    <3>1. m = [pf |-> FALSE, reads |-> 1, excl |-> "none", wb |-> FALSE, cmd |-> "pending"]
      BY <2>1, Zenon DEF NoMSHR
    <3> HIDE DEF m
    <3> QED BY <3>1, NumTargetAssumption DEF MSHRType, getNumTargets
  <2>2. CASE kind # "Read"
    <3>1. m = [pf |-> FALSE, reads |-> 0, excl |-> kind, wb |-> FALSE, cmd |-> "pending"]
      BY <2>2, Zenon DEF NoMSHR
    <3>2. kind \in {"ReadEx", "Upgrade"} /\ kind # "none"
      BY <2>2, Zenon DEF Kind
    <3> HIDE DEF m
    <3> QED BY <3>1, <3>2, NumTargetAssumption DEF MSHRType, getNumTargets
  <2> QED BY <2>1, <2>2, Zenon
<1> HIDE DEF m
<1>3. /\ mshr' \in [Block -> MSHRType] /\ mshr'[b] = m
      /\ \A x \in Block \ {b} : mshr'[x] = mshr[x]
  BY <1>1, <1>2, Zenon DEF TypeOK
<1>4. tags \in [Block -> SUBSET Status] /\ \A x \in Block : "Valid" \in tags[x] <=> Valid(x)
  BY Zenon DEF TypeOK, Valid
<1> HIDE DEF tags
<1>5. PrefetchInv' /\ pf' \in Seq(Block) /\ in_flight' \in SUBSET Block
  <2>1. \A x \in Block : mshr'[x].pf => mshr[x].pf
    BY <1>2, <1>3, Zenon
  <2>2. \A x \in Block \ {b} : Wanted(x) => Wanted(x)'
    BY <1>1, <1>3, <1>4, Zenon DEF Wanted, Valid, HasMSHR
  <2>3. \A x \in Block : "Valid" \notin tags[x] /\ ms[x].cmd = "free" => Wanted(x)'
    BY <1>1, Zenon DEF Wanted, Valid, HasMSHR
  <2> HIDE DEF ms
  <2> QED BY <1>0, <1>1, <2>1, <2>2, <2>3, PrefetchNotified, Zenon
<1>6. ReadyListExact'
  <2>0. mshr[b].cmd = "free"
    BY <1>1, Zenon DEF HasMSHR
  <2>1. b \notin InSeq(readyList)
    BY <2>0, Zenon DEF ReadyListExact
  <2>2. NoRepeats(readyList') /\ InSeq(readyList') = InSeq(readyList) \cup {b}
    <3>1. readyList \in Seq(Block) /\ NoRepeats(readyList)
      BY Zenon DEF TypeOK, ReadyListExact
    <3>2. /\ NoRepeats(Append(readyList, b))
          /\ InSeq(Append(readyList, b)) = InSeq(readyList) \cup {b}
      BY <2>1, <3>1, AppendNoRepeats
    <3>3. readyList' = Append(readyList, b)
      BY <1>1, Zenon
    <3>4. NoRepeats(readyList') /\ InSeq(readyList') = InSeq(Append(readyList, b))
      BY <3>2, <3>3, Zenon
    <3> QED BY <3>2, <3>4, Zenon
  <2>3. {x \in Block : mshr'[x].cmd = "pending"}
          = {x \in Block : mshr[x].cmd = "pending"} \cup {b}
    BY <1>2, <1>3, SMTT(30)
  <2> QED BY <2>2, <2>3, Zenon DEF ReadyListExact, InSeq, NoRepeats
<1>7. /\ noTargetMSHR = {} /\ ~isFull(mshr) /\ ~WBFull(writeBuffer) /\ ~mustSendRetry
      /\ \A x \in Block : ~(getNumTargets(mshr[x]) >= numTarget)
  BY <1>1, OpenFact, Zenon
<1>8. blocked' = set /\ mustSendRetry' \in BOOLEAN /\ ~mustSendRetry'
  BY <1>1, <1>7, Zenon DEF ChangeBlocked
<1>9. Cardinality(Allocated(mshr')) <= mshrs
  <2>1. Cardinality(Allocated(mshr')) = Cardinality(Allocated(mshr)) + 1
    BY <1>1, <1>2, AllocateMSHR, Zenon
  <2> QED BY <1>7, <2>1, AllocatedFinite, MSHRsAssumption DEF isFull
<1>10. \A x \in Block : ~(getNumTargets(mshr'[x]) >= numTarget)
  BY <1>2, <1>3, <1>7, NumTargetAssumption
<1>11. BlockedWhenFull'
  BY <1>1, <1>7, <1>8, <1>9, <1>10, Zenon DEF BlockedWhenFull
<1>12. TargetsInv'
  BY <1>1, <1>7, ZenonT(30) DEF TargetsInv
<1>13. TypeOK'
  <2>1. set \in SUBSET BlockedCause
    BY Zenon DEF BlockedCause
  <2>2. readyList' \in Seq(Block)
    BY <1>1 DEF TypeOK
  <2> HIDE DEF set, ms
  <2> QED BY <1>1, <1>3, <1>4, <1>5, <1>8, <2>1, <2>2, Zenon DEF TypeOK
<1> QED BY <1>5, <1>6, <1>11, <1>12, <1>13, Zenon

-----------------------------------------------------------------------------
(* Writebacks.                                                             *)

(* A writeback that may have been appended, and the causes that follow.    *)
LEMMA WritebackAppended ==
  ASSUME TypeOK, BlockedWhenFull, NEW v \in Block, NEW dirty \in BOOLEAN,
         NEW clear \in SUBSET {"NoMSHRs", "NoTargets"},
         writeBuffer' = (IF dirty THEN Append(writeBuffer, v) ELSE writeBuffer),
         ChangeBlocked(clear, IF dirty /\ WBFull(writeBuffer') THEN {"NoWBBuffers"} ELSE {})
  PROVE  /\ writeBuffer' \in Seq(Block)
         /\ blocked' \in SUBSET BlockedCause /\ mustSendRetry' \in BOOLEAN
         /\ WBFull(writeBuffer') <=> "NoWBBuffers" \in blocked'
         /\ mustSendRetry' => blocked' # {}
         /\ \A c \in {"NoMSHRs", "NoTargets"} : c \in blocked' <=> c \in blocked \ clear
<1> DEFINE set == IF dirty /\ WBFull(writeBuffer') THEN {"NoWBBuffers"} ELSE {}
<1>1. /\ blocked' \in SUBSET BlockedCause /\ mustSendRetry' \in BOOLEAN
      /\ blocked' = (blocked \ clear) \cup set
      /\ mustSendRetry' => blocked' # {}
  <2>1. set \in SUBSET BlockedCause /\ ChangeBlocked(clear, set)
    BY Zenon DEF BlockedCause
  <2>2. mustSendRetry => blocked # {}
    BY Zenon DEF BlockedWhenFull
  <2> HIDE DEF set
  <2> QED BY <2>1, <2>2, ChangeBlockedFact, Zenon
<1>2. writeBuffer' \in Seq(Block)
  BY DEF TypeOK
<1>3. dirty => Len(writeBuffer') = Len(writeBuffer) + 1 /\ Len(writeBuffer) \in Nat
  BY DEF TypeOK
<1>4. WBFull(writeBuffer) => WBFull(writeBuffer')
  BY <1>3, WriteBuffersAssumption DEF WBFull
<1>5. ~dirty => WBFull(writeBuffer') = WBFull(writeBuffer)
  OBVIOUS
<1>6. WBFull(writeBuffer) <=> "NoWBBuffers" \in blocked
  BY Zenon DEF BlockedWhenFull
<1>7. WBFull(writeBuffer') <=> "NoWBBuffers" \in blocked'
  BY <1>1, <1>4, <1>5, <1>6, Zenon
<1> QED BY <1>1, <1>2, <1>7, Zenon

LEMMA WritebackVictimFact ==
  ASSUME TypeOK, BlockedWhenFull, NEW b \in Block, NEW v \in Block,
         NEW clear \in SUBSET {"NoMSHRs", "NoTargets"}, WritebackVictim(b, v, clear)
  PROVE  /\ writeBuffer' \in Seq(Block)
         /\ blocked' \in SUBSET BlockedCause /\ mustSendRetry' \in BOOLEAN
         /\ WBFull(writeBuffer') <=> "NoWBBuffers" \in blocked'
         /\ mustSendRetry' => blocked' # {}
         /\ \A c \in {"NoMSHRs", "NoTargets"} : c \in blocked' <=> c \in blocked \ clear
<1> DEFINE dirty == v # b /\ "Dirty" \in blk[v]
<1>1. /\ writeBuffer' = (IF dirty THEN Append(writeBuffer, v) ELSE writeBuffer)
      /\ ChangeBlocked(clear, IF dirty /\ WBFull(writeBuffer') THEN {"NoWBBuffers"} ELSE {})
  BY Zenon DEF WritebackVictim
<1>2. dirty \in BOOLEAN
  OBVIOUS
<1> HIDE DEF dirty
<1> QED BY <1>1, <1>2, WritebackAppended, Zenon

(* The conjuncts about blocking, when the MSHRs stay and the write buffer  *)
(* may have grown.                                                         *)
LEMMA BlockedGrown ==
  ASSUME BlockedWhenFull, TargetsInv, UNCHANGED <<mshr, noTargetMSHR>>,
         WBFull(writeBuffer') <=> "NoWBBuffers" \in blocked',
         mustSendRetry' => blocked' # {},
         \A c \in {"NoMSHRs", "NoTargets"} : c \in blocked' <=> c \in blocked
  PROVE  BlockedWhenFull' /\ TargetsInv'
BY Zenon DEF BlockedWhenFull, TargetsInv, isFull, Allocated, HasMSHR, getNumTargets

LEMMA WritebackHitStep ==
  ASSUME SetFacts, IInv, NEW b \in Block, WritebackHit(b)
  PROVE  IInv'
<1> DEFINE tags == [blk EXCEPT ![b] = @ \cup {"Dirty"}]
<1> USE DEF IInv
<1>1. /\ NotifyHit(b, << >>, tags) /\ Valid(b)
      /\ blk' = [tags EXCEPT ![b] = @ \ {"HWPrefetched"}]
      /\ above' = [above EXCEPT ![b] = "none"]
      /\ UNCHANGED <<mshr, readyList, writeBuffer, blocked, noTargetMSHR,
                     mustSendRetry, waitingOnRetry, aborted>>
  BY Zenon DEF WritebackHit
<1>2. tags \in [Block -> SUBSET Status]
  BY Zenon DEF TypeOK, Status
<1>3. /\ \A x \in Block \ {b} : Wanted(x) => Wanted(x)'
      /\ \A x \in Block : "Valid" \notin tags[x] /\ mshr[x].cmd = "free" => Wanted(x)'
  BY <1>1, <1>2, Zenon DEF TypeOK, Wanted, Valid, HasMSHR
<1> HIDE DEF tags
<1>4. << >> \in Seq(Nat)
  OBVIOUS
<1>5. PrefetchInv' /\ pf' \in Seq(Block) /\ in_flight' \in SUBSET Block
  BY <1>1, <1>2, <1>3, <1>4, NotifyHitFact, Zenon
<1>6. TypeOK'
  BY <1>1, <1>2, <1>5, Zenon DEF TypeOK
<1>7. ReadyListExact'
  BY <1>1, ReadyKept, Zenon
<1>8. BlockedWhenFull' /\ TargetsInv'
  BY <1>1, BlockedKept, Zenon DEF BlockedWhenFull
<1> QED BY <1>5, <1>6, <1>7, <1>8, Zenon

LEMMA VictimsType == ASSUME NEW b \in Block PROVE Victims(b) \subseteq Block
BY Zenon DEF Victims

LEMMA WritebackInsertStep ==
  ASSUME SetFacts, IInv, NEW b \in Block, NEW v \in Victims(b), WritebackInsert(b, v)
  PROVE  IInv'
<1> DEFINE tags == Install(b, v, {"Valid", "Readable", "Dirty"})
<1> USE DEF IInv
<1>0. v \in Block
  BY VictimsType, Zenon
<1>1. /\ blk' = tags /\ NotifyHit(b, << >>, tags) /\ WritebackVictim(b, v, {})
      /\ above' = [above EXCEPT ![b] = "none"]
      /\ UNCHANGED <<mshr, readyList, noTargetMSHR, waitingOnRetry, aborted>>
  BY Zenon DEF WritebackInsert
<1>2. tags \in [Block -> SUBSET Status] /\ \A x \in Block \ {b} : tags[x] \subseteq blk[x]
  BY <1>0, SMTT(30) DEF TypeOK, Install, Status
<1>3. /\ \A x \in Block \ {b} : Wanted(x) => Wanted(x)'
      /\ \A x \in Block : "Valid" \notin tags[x] /\ mshr[x].cmd = "free" => Wanted(x)'
  BY <1>1, <1>2, Zenon DEF Wanted, Valid, HasMSHR
<1> HIDE DEF tags
<1>4. << >> \in Seq(Nat) /\ {} \in SUBSET {"NoMSHRs", "NoTargets"}
  BY SMTT(30)
<1>5. PrefetchInv' /\ pf' \in Seq(Block) /\ in_flight' \in SUBSET Block
  BY <1>1, <1>2, <1>3, <1>4, NotifyHitFact, Zenon
<1>6. /\ writeBuffer' \in Seq(Block)
      /\ blocked' \in SUBSET BlockedCause /\ mustSendRetry' \in BOOLEAN
      /\ WBFull(writeBuffer') <=> "NoWBBuffers" \in blocked'
      /\ mustSendRetry' => blocked' # {}
      /\ \A c \in {"NoMSHRs", "NoTargets"} : c \in blocked' <=> c \in blocked \ {}
  BY <1>0, <1>1, <1>4, WritebackVictimFact, Zenon
<1>7. TypeOK'
  BY <1>1, <1>2, <1>5, <1>6, Zenon DEF TypeOK
<1>8. ReadyListExact'
  BY <1>1, ReadyKept, Zenon
<1>9. BlockedWhenFull' /\ TargetsInv'
  BY <1>1, <1>6, BlockedGrown, Zenon
<1> QED BY <1>5, <1>7, <1>8, <1>9, Zenon

LEMMA WritebackTarget ==
  ASSUME NEW m \in MSHRType, NEW t, t.pf = m.pf, t.reads = m.reads, t.excl = m.excl
  PROVE  getNumTargets(t) <= getNumTargets(m) + 1
<1>1. m.reads \in Nat
  BY NumTargetAssumption DEF MSHRType
<1> QED BY <1>1 DEF getNumTargets

LEMMA WritebackForwardStep ==
  ASSUME SetFacts, IInv, NEW b \in Block, NEW v \in Victims(b), WritebackForward(b, v)
  PROVE  IInv'
<1> USE DEF IInv
<1>1. /\ blocked = {} /\ mshr[b].excl = "none" /\ ~Valid(b)
      /\ above' = [above EXCEPT ![b] = "none"]
      /\ UNCHANGED <<blk, readyList, waitingOnRetry, aborted>>
  BY SMTT(30) DEF WritebackForward, MayWriteBack
<1>2. CASE HasMSHR(b)
  <2> DEFINE target == [mshr[b] EXCEPT !.wb = TRUE]
  <2>1. AddTarget(b, target) /\ UNCHANGED <<in_flight, pf, writeBuffer>>
    BY <1>2, Zenon DEF WritebackForward
  <2>2. mshr[b] \in MSHRType
    BY Zenon DEF TypeOK
  <2>3. /\ target \in MSHRType /\ target.cmd = mshr[b].cmd /\ target.pf = mshr[b].pf
        /\ target.reads = mshr[b].reads /\ target.excl = mshr[b].excl /\ target.wb = TRUE
    BY <2>2, Zenon DEF MSHRType
  <2>8. getNumTargets(target) <= getNumTargets(mshr[b]) + 1
    BY <2>2, <2>3, WritebackTarget, Zenon
  <2> HIDE DEF target
  <2>4. /\ BlockedWhenFull' /\ TargetsInv'
        /\ mshr' \in [Block -> MSHRType] /\ noTargetMSHR' \in SUBSET Block
        /\ blocked' \in SUBSET BlockedCause /\ mustSendRetry' \in BOOLEAN
        /\ \A x \in Block : mshr'[x].cmd = mshr[x].cmd /\ mshr'[x].pf = mshr[x].pf
    BY <1>1, <1>2, <2>1, <2>3, <2>8, AddTargetFact, Zenon
  <2>5. TypeOK'
    BY <1>1, <2>1, <2>4, Zenon DEF TypeOK
  <2>6. PrefetchInv'
    <3>1. InSeq(pf) \subseteq Block
      BY InSeqType, Zenon DEF TypeOK
    <3> QED BY <1>1, <2>1, <2>4, <3>1, PrefetchKept, Zenon DEF Wanted, Valid, HasMSHR
  <2>7. ReadyListExact'
    BY <1>1, <2>4, ReadyKept, Zenon
  <2> QED BY <2>4, <2>5, <2>6, <2>7, Zenon
<1>3. CASE ~HasMSHR(b)
  <2>1. /\ writeBuffer' = Append(writeBuffer, b)
        /\ ChangeBlocked({}, IF WBFull(writeBuffer') THEN {"NoWBBuffers"} ELSE {})
        /\ notify(b, << >>, blk, mshr)
        /\ UNCHANGED <<mshr, noTargetMSHR>>
    BY <1>3, Zenon DEF WritebackForward
  <2>2. << >> \in Seq(Nat) /\ {} \in SUBSET {"NoMSHRs", "NoTargets"} /\ TRUE \in BOOLEAN
    OBVIOUS
  <2>3. /\ writeBuffer' \in Seq(Block)
        /\ blocked' \in SUBSET BlockedCause /\ mustSendRetry' \in BOOLEAN
        /\ WBFull(writeBuffer') <=> "NoWBBuffers" \in blocked'
        /\ mustSendRetry' => blocked' # {}
        /\ \A c \in {"NoMSHRs", "NoTargets"} : c \in blocked' <=> c \in blocked \ {}
    <3>1. writeBuffer' = (IF TRUE THEN Append(writeBuffer, b) ELSE writeBuffer)
      BY <2>1, Zenon
    <3>2. ChangeBlocked({}, IF TRUE /\ WBFull(writeBuffer') THEN {"NoWBBuffers"} ELSE {})
      BY <2>1, SMTT(30)
    <3> QED BY <2>2, <3>1, <3>2, WritebackAppended, Zenon
  <2>4. PrefetchInv' /\ pf' \in Seq(Block) /\ in_flight' \in SUBSET Block
    <3>1. /\ \A x \in Block : mshr'[x].pf => mshr[x].pf
          /\ \A x \in Block \ {b} : Wanted(x) => Wanted(x)'
          /\ \A x \in Block : "Valid" \notin blk[x] /\ mshr[x].cmd = "free" => Wanted(x)'
      BY <1>1, <2>1, Zenon DEF Wanted, Valid, HasMSHR
    <3> QED BY <2>1, <2>2, <3>1, PrefetchNotified, Zenon
  <2>5. TypeOK'
    BY <1>1, <2>1, <2>3, <2>4, SMTT(30) DEF TypeOK
  <2>6. ReadyListExact'
    BY <1>1, <2>1, ReadyKept, Zenon
  <2>7. BlockedWhenFull' /\ TargetsInv'
    BY <2>1, <2>3, BlockedGrown, Zenon
  <2> QED BY <2>4, <2>5, <2>6, <2>7, Zenon
<1> QED BY <1>2, <1>3, Zenon

(* A failed assertion ends the simulation with everything else as it was.  *)
LEMMA AbortStep ==
  ASSUME IInv, NEW where \in {"allocateBlock", "makeTimingResponse"}, Abort(where)
  PROVE  IInv'
<1> USE DEF IInv, Abort
<1>1. TypeOK'
  BY Zenon DEF TypeOK
<1>2. PrefetchInv'
  BY PrefetchKept, Zenon DEF Wanted, Valid, HasMSHR
<1>3. ReadyListExact'
  BY ReadyKept, Zenon
<1>4. BlockedWhenFull' /\ TargetsInv'
  BY BlockedKept, Zenon DEF BlockedWhenFull
<1> QED BY <1>1, <1>2, <1>3, <1>4, Zenon

-----------------------------------------------------------------------------
(* sendPacket.                                                             *)

(* The MSHR that getNextMSHR chooses is the head of readyList.             *)
LEMMA ReadyTail ==
  ASSUME TypeOK, ReadyListExact,
         \E miss, write \in BOOLEAN : ReadyTimes(miss, write) /\ NextIsMiss(miss, write)
  PROVE  /\ readyList # << >> /\ Head(readyList) \in Block
         /\ mshr[Head(readyList)].cmd = "pending"
         /\ Tail(readyList) \in Seq(Block) /\ NoRepeats(Tail(readyList))
         /\ InSeq(Tail(readyList)) = {b \in Block : mshr[b].cmd = "pending"} \ {Head(readyList)}
<1>1. readyList # << >>
  BY Zenon DEF ReadyTimes, NextIsMiss
<1>2. readyList \in Seq(Block)
  BY SMTT(30) DEF TypeOK
<1>3. /\ Tail(readyList) \in Seq(Block) /\ NoRepeats(Tail(readyList))
      /\ InSeq(Tail(readyList)) = InSeq(readyList) \ {Head(readyList)}
      /\ Head(readyList) \in InSeq(readyList)
  BY <1>1, <1>2, TailNoRepeats, Zenon DEF ReadyListExact
<1> QED BY <1>1, <1>3, Zenon DEF ReadyListExact

(* The conjuncts about blocking, when MSHRs are only freed or lose targets *)
(* and nothing else changes.                                               *)
LEMMA BlockedShrunk ==
  ASSUME BlockedWhenFull, UNCHANGED <<writeBuffer, blocked, noTargetMSHR, mustSendRetry>>,
         Cardinality(Allocated(mshr')) <= Cardinality(Allocated(mshr)),
         Cardinality(Allocated(mshr)) \in Nat, Cardinality(Allocated(mshr')) \in Nat,
         \A b \in noTargetMSHR : mshr'[b].cmd # "free",
         \A b \in Block : getNumTargets(mshr'[b]) >= numTarget => getNumTargets(mshr[b]) >= numTarget
  PROVE  BlockedWhenFull'
<1>1. Cardinality(Allocated(mshr')) <= mshrs /\ (isFull(mshr') => isFull(mshr))
  BY MSHRsAssumption DEF BlockedWhenFull, isFull
<1> QED BY <1>1, Zenon DEF BlockedWhenFull, HasMSHR, WBFull

LEMMA SendMissStep ==
  ASSUME SetFacts, IInv, NEW accept \in BOOLEAN, SendMiss(accept)
  PROVE  IInv'
<1> DEFINE c == Head(readyList)
<1> USE DEF IInv
<1>1. /\ c \in Block /\ mshr[c].cmd = "pending"
      /\ Tail(readyList) \in Seq(Block) /\ NoRepeats(Tail(readyList))
      /\ InSeq(Tail(readyList)) = {b \in Block : mshr[b].cmd = "pending"} \ {c}
  BY ReadyTail, Zenon DEF SendMiss
<1>2. UNCHANGED <<in_flight, pf, blk, writeBuffer, blocked, noTargetMSHR,
                  mustSendRetry, above, aborted>>
  BY Zenon DEF SendMiss
<1>3. CASE accept
  <2>1. /\ mshr' = [mshr EXCEPT ![c].cmd = getBusPacket(c)]
        /\ readyList' = Tail(readyList) /\ waitingOnRetry' = "no"
    BY <1>3, Zenon DEF SendMiss
  <2> HIDE DEF c
  <2>2. getBusPacket(c) \in {"Upgrade", "Forward", "ReadEx", "Read"}
    BY Zenon DEF getBusPacket
  <2>3. mshr \in [Block -> MSHRType]
    BY Zenon DEF TypeOK
  <2>4. /\ mshr' \in [Block -> MSHRType]
        /\ mshr'[c].cmd = getBusPacket(c)
        /\ \A x \in Block \ {c} : mshr'[x] = mshr[x]
        /\ \A x \in Block : /\ mshr'[x].pf = mshr[x].pf /\ mshr'[x].reads = mshr[x].reads
                            /\ mshr'[x].excl = mshr[x].excl /\ mshr'[x].wb = mshr[x].wb
    <3> DEFINE n == [mshr[c] EXCEPT !.cmd = getBusPacket(c)]
    <3>1. mshr[c] \in MSHRType
      BY <1>1, <2>3, Zenon
    <3>2. /\ n \in MSHRType /\ n.cmd = getBusPacket(c)
          /\ n.pf = mshr[c].pf /\ n.reads = mshr[c].reads
          /\ n.excl = mshr[c].excl /\ n.wb = mshr[c].wb
      BY <2>2, <3>1 DEF MSHRType
    <3>3. mshr' = [mshr EXCEPT ![c] = n]
      BY <2>1, Zenon
    <3> HIDE DEF n
    <3>4. mshr' \in [Block -> MSHRType] /\ mshr'[c] = n
      BY <1>1, <2>3, <3>2, <3>3, Zenon
    <3>5. \A x \in Block \ {c} : mshr'[x] = mshr[x]
      BY <2>3, <3>3, Zenon
    <3> QED BY <3>2, <3>4, <3>5, Zenon
  <2>5. \A x \in Block : getNumTargets(mshr'[x]) = getNumTargets(mshr[x])
    BY <2>4, Zenon DEF getNumTargets
  <2>6. \A x \in Block : mshr'[x].cmd # "free" <=> mshr[x].cmd # "free"
    BY <1>1, <2>2, <2>4, Zenon
  <2>7. Allocated(mshr') = Allocated(mshr)
    BY <2>6, Zenon DEF Allocated
  <2>8. TypeOK'
    BY <1>1, <1>2, <2>1, <2>4, Zenon DEF TypeOK
  <2>9. PrefetchInv'
    <3>1. InSeq(pf) \subseteq Block
      BY InSeqType, Zenon DEF TypeOK
    <3>2. \A x \in InSeq(pf) : Wanted(x) => Wanted(x)'
      BY <1>2, <2>6, <3>1, Zenon DEF Wanted, Valid, HasMSHR
    <3> QED BY <1>2, <2>4, <3>2, PrefetchKept, Zenon
  <2>10. ReadyListExact'
    <3>1. {b \in Block : mshr'[b].cmd = "pending"} = {b \in Block : mshr[b].cmd = "pending"} \ {c}
      BY <1>1, <2>2, <2>4, Zenon
    <3> QED BY <1>1, <2>1, <3>1 DEF ReadyListExact, InSeq, NoRepeats
  <2>11. BlockedWhenFull'
    <3>1. \A x \in noTargetMSHR : mshr'[x].cmd # "free"
      BY <2>6, Zenon DEF BlockedWhenFull, TypeOK, HasMSHR
    <3>2. Cardinality(Allocated(mshr')) = Cardinality(Allocated(mshr))
      BY <2>7, Zenon
    <3>3. Cardinality(Allocated(mshr)) \in Nat
      BY AllocatedFinite, Zenon
    <3>4. Cardinality(Allocated(mshr')) <= Cardinality(Allocated(mshr))
          /\ Cardinality(Allocated(mshr')) \in Nat
      BY <3>2, <3>3
    <3> QED BY <1>2, <2>5, <3>1, <3>3, <3>4, BlockedShrunk, SMTT(30)
  <2>12. TargetsInv'
    BY <1>2, <2>4, <2>5, Zenon DEF TargetsInv, TypeOK
  <2> QED BY <2>8, <2>9, <2>10, <2>11, <2>12, Zenon
<1>4. CASE ~accept
  <2>1. waitingOnRetry' = "miss" /\ UNCHANGED <<mshr, readyList>>
    BY <1>4, Zenon DEF SendMiss
  <2>2. TypeOK'
    BY <1>2, <2>1, Zenon DEF TypeOK
  <2>3. PrefetchInv'
    BY <1>2, <2>1, PrefetchKept, Zenon DEF Wanted, Valid, HasMSHR
  <2>4. ReadyListExact'
    BY <2>1, ReadyKept, Zenon
  <2>5. BlockedWhenFull' /\ TargetsInv'
    BY <1>2, <2>1, BlockedKept, Zenon DEF BlockedWhenFull
  <2> QED BY <2>2, <2>3, <2>4, <2>5, Zenon
<1> QED BY <1>3, <1>4, Zenon

LEMMA BailOutStep == ASSUME SetFacts, IInv, BailOut PROVE IInv'
<1> DEFINE c    == Head(readyList)
           rest == [mshr[c] EXCEPT !.pf = FALSE]
<1> USE DEF IInv
<1>1. /\ c \in Block /\ mshr[c].cmd = "pending"
      /\ Tail(readyList) \in Seq(Block) /\ NoRepeats(Tail(readyList))
      /\ InSeq(Tail(readyList)) = {b \in Block : mshr[b].cmd = "pending"} \ {c}
  BY ReadyTail, Zenon DEF BailOut
<1>2. /\ mshr[c].pf /\ waitingOnRetry' = "no"
      /\ UNCHANGED <<in_flight, pf, blk, writeBuffer, blocked, noTargetMSHR,
                     mustSendRetry, above, aborted>>
  BY Zenon DEF BailOut
<1>3. \/ /\ getNumTargets(rest) = 0
         /\ mshr' = [mshr EXCEPT ![c] = NoMSHR] /\ readyList' = Tail(readyList)
      \/ /\ getNumTargets(rest) # 0
         /\ mshr' = [mshr EXCEPT ![c] = rest] /\ UNCHANGED readyList
  BY Zenon DEF BailOut
<1> HIDE DEF c
<1>4. mshr \in [Block -> MSHRType] /\ mshr[c] \in MSHRType
  BY <1>1, Zenon DEF TypeOK
<1>5. /\ rest \in MSHRType /\ rest.pf = FALSE /\ rest.cmd = "pending" /\ rest.reads = mshr[c].reads
      /\ rest.excl = mshr[c].excl /\ rest.wb = mshr[c].wb
  BY <1>1, <1>4, Zenon DEF MSHRType
<1> HIDE DEF rest
<1>6. getNumTargets(rest) = getNumTargets(mshr[c]) - 1 /\ getNumTargets(mshr[c]) \in Nat
  BY <1>2, <1>4, <1>5 DEF MSHRType, getNumTargets
<1>7. NoMSHR \in MSHRType /\ getNumTargets(NoMSHR) = 0 /\ NoMSHR.cmd = "free" /\ NoMSHR.pf = FALSE
  BY NumTargetAssumption DEF NoMSHR, MSHRType, getNumTargets
<1>8. /\ mshr' \in [Block -> MSHRType] /\ \A x \in Block \ {c} : mshr'[x] = mshr[x]
      /\ mshr'[c].pf = FALSE /\ getNumTargets(mshr'[c]) <= getNumTargets(mshr[c])
  <2>1. CASE mshr' = [mshr EXCEPT ![c] = NoMSHR]
    BY <1>1, <1>4, <1>6, <1>7, <2>1
  <2>2. CASE mshr' = [mshr EXCEPT ![c] = rest]
    BY <1>1, <1>4, <1>5, <1>6, <2>2
  <2> QED BY <1>3, <2>1, <2>2, Zenon
<1>9. TypeOK'
  BY <1>1, <1>2, <1>3, <1>8, Zenon DEF TypeOK
<1>10. PrefetchInv'
  <2>1. InSeq(pf) \subseteq Block
    BY InSeqType, Zenon DEF TypeOK
  <2>2. \A x \in Block : mshr'[x].pf => mshr[x].pf
    BY <1>8, SMTT(30)
  <2>3. \A x \in InSeq(pf) : Wanted(x) => Wanted(x)'
    BY <1>1, <1>2, <1>8, <2>1, Zenon DEF Wanted, Valid, HasMSHR
  <2> QED BY <1>2, <2>2, <2>3, PrefetchKept, Zenon
<1>11. ReadyListExact'
  <2>1. CASE mshr' = [mshr EXCEPT ![c] = NoMSHR] /\ readyList' = Tail(readyList)
    <3>1. {b \in Block : mshr'[b].cmd = "pending"} = {b \in Block : mshr[b].cmd = "pending"} \ {c}
      BY <1>4, <1>7, <2>1, Zenon
    <3> QED BY <1>1, <2>1, <3>1 DEF ReadyListExact, InSeq, NoRepeats
  <2>2. CASE mshr' = [mshr EXCEPT ![c] = rest] /\ UNCHANGED readyList
    BY <1>1, <1>4, <1>5, <2>2, ReadyKept, SMTT(30)
  <2> QED BY <1>3, <2>1, <2>2, Zenon
<1>12. BlockedWhenFull'
  <2>1. Cardinality(Allocated(mshr)) \in Nat
    BY AllocatedFinite, Zenon
  <2>2. Cardinality(Allocated(mshr')) <= Cardinality(Allocated(mshr))
        /\ Cardinality(Allocated(mshr')) \in Nat
    <3>1. CASE mshr' = [mshr EXCEPT ![c] = NoMSHR]
      <4>1. HasMSHR(c)
        BY <1>1, Zenon DEF HasMSHR
      <4>2. Cardinality(Allocated(mshr')) = Cardinality(Allocated(mshr)) - 1
        BY <1>1, <3>1, <4>1, FreeMSHR, Zenon
      <4>3. Cardinality(Allocated(mshr')) \in Nat
        BY AllocatedFinite, Zenon
      <4> QED BY <2>1, <4>2, <4>3
    <3>2. CASE mshr' = [mshr EXCEPT ![c] = rest]
      <4>1. Allocated(mshr') = Allocated(mshr)
        BY <1>1, <1>4, <1>5, <3>2, Zenon DEF Allocated
      <4> QED BY <2>1, <4>1
    <3> QED BY <1>3, <3>1, <3>2, Zenon
  <2>3. ASSUME NEW x \in noTargetMSHR PROVE mshr'[x].cmd # "free"
    <3>0. x \in Block /\ mshr[x].cmd # "free"
      BY Zenon DEF TypeOK, BlockedWhenFull, HasMSHR
    <3>1. CASE x # c
      BY <1>8, <3>0, <3>1, Zenon
    <3>2. CASE x = c
      <4>1. getNumTargets(rest) # 0
        BY <1>2, <1>6, <3>2 DEF TargetsInv
      <4> QED BY <1>1, <1>3, <1>4, <1>5, <3>2, <4>1, SMTT(30)
    <3> QED BY <3>1, <3>2, Zenon
  <2>4. ASSUME NEW x \in Block, getNumTargets(mshr'[x]) >= numTarget
        PROVE  getNumTargets(mshr[x]) >= numTarget
    <3>1. CASE x = c
      <4>1. getNumTargets(mshr'[c]) \in Nat
        BY <1>1, <1>8, TargetsType, Zenon
      <4> QED BY <1>6, <1>8, <2>4, <3>1, <4>1, NumTargetAssumption, SMTT(30)
    <3>2. CASE x # c
      BY <1>8, <2>4, <3>2, SMTT(30)
    <3> QED BY <3>1, <3>2, Zenon
  <2> QED BY <1>2, <2>1, <2>2, <2>3, <2>4, BlockedShrunk, Zenon
<1>13. TargetsInv'
  BY <1>2, <1>8, Zenon DEF TargetsInv, TypeOK
<1> QED BY <1>9, <1>10, <1>11, <1>12, <1>13, Zenon

LEMMA SendWriteStep ==
  ASSUME SetFacts, IInv, NEW accept \in BOOLEAN, SendWrite(accept)
  PROVE  IInv'
<1> USE DEF IInv
<1>1. UNCHANGED <<in_flight, pf, blk, mshr, readyList, noTargetMSHR, above, aborted>>
  BY Zenon DEF SendWrite
<1>2. PrefetchInv'
  BY <1>1, PrefetchKept, Zenon DEF Wanted, Valid, HasMSHR
<1>3. ReadyListExact'
  BY <1>1, ReadyKept, Zenon
<1>4. CASE accept
  <2>1. PICK i \in 1 .. Len(writeBuffer) :
          /\ writeBuffer' = erase(writeBuffer, i)
          /\ IF WBFull(writeBuffer) /\ ~WBFull(erase(writeBuffer, i))
             THEN ChangeBlocked({"NoWBBuffers"}, {})
             ELSE UNCHANGED <<blocked, mustSendRetry>>
          /\ waitingOnRetry' = "no"
    BY <1>4, Zenon DEF SendWrite
  <2>2. writeBuffer \in Seq(Block) /\ Len(writeBuffer) \in Nat
    BY DEF TypeOK
  <2>3. writeBuffer' \in Seq(Block) /\ Len(writeBuffer') = Len(writeBuffer) - 1
    BY <2>1, <2>2, EraseAt, Zenon
  <2>4. WBFull(writeBuffer') => WBFull(writeBuffer)
    BY <2>2, <2>3, WriteBuffersAssumption DEF WBFull
  <2>5. /\ blocked' \in SUBSET BlockedCause /\ mustSendRetry' \in BOOLEAN
        /\ mustSendRetry' => blocked' # {}
        /\ WBFull(writeBuffer') <=> "NoWBBuffers" \in blocked'
        /\ \A c \in {"NoMSHRs", "NoTargets"} : c \in blocked' <=> c \in blocked
    <3>1. CASE WBFull(writeBuffer) /\ ~WBFull(writeBuffer')
      <4>1. ChangeBlocked({"NoWBBuffers"}, {})
        BY <2>1, <3>1, Zenon
      <4>2. {} \in SUBSET BlockedCause /\ (mustSendRetry => blocked # {})
        BY Zenon DEF BlockedWhenFull
      <4>3. /\ blocked' \in SUBSET BlockedCause /\ mustSendRetry' \in BOOLEAN
            /\ blocked' = (blocked \ {"NoWBBuffers"}) \cup {}
            /\ mustSendRetry' => blocked' # {}
        BY <4>1, <4>2, ChangeBlockedFact, Zenon
      <4> QED BY <3>1, <4>3, Zenon
    <3>2. CASE ~(WBFull(writeBuffer) /\ ~WBFull(writeBuffer'))
      BY <2>1, <2>4, <3>2, SMTT(30) DEF TypeOK, BlockedWhenFull
    <3> QED BY <3>1, <3>2, Zenon
  <2>6. TypeOK'
    BY <1>1, <2>1, <2>3, <2>5, Zenon DEF TypeOK
  <2>7. BlockedWhenFull' /\ TargetsInv'
    BY <1>1, <2>5, BlockedGrown, Zenon
  <2> QED BY <1>2, <1>3, <2>6, <2>7, Zenon
<1>5. CASE ~accept
  <2>1. waitingOnRetry' = "write" /\ UNCHANGED <<writeBuffer, blocked, mustSendRetry>>
    BY <1>5, Zenon DEF SendWrite
  <2>2. TypeOK'
    BY <1>1, <2>1, Zenon DEF TypeOK
  <2>3. BlockedWhenFull' /\ TargetsInv'
    BY <1>1, <2>1, BlockedKept, Zenon DEF BlockedWhenFull
  <2> QED BY <1>2, <1>3, <2>2, <2>3, Zenon
<1> QED BY <1>4, <1>5, Zenon

(* Requests that leave the queue, and what stays in it.                    *)
LEMMA QueueRest ==
  ASSUME TypeOK, OnePrefetchPerBlock, NEW n \in 1 .. Len(pf)
  PROVE  LET rest == SubSeq(pf, n + 1, Len(pf))
         IN  /\ rest \in Seq(Block) /\ NoRepeats(rest) /\ InSeq(rest) \subseteq InSeq(pf)
             /\ pf[n] \in InSeq(pf) /\ pf[n] \notin InSeq(rest) /\ InSeq(pf) \subseteq Block
<1> DEFINE rest == SubSeq(pf, n + 1, Len(pf))
<1>1. pf \in Seq(Block) /\ NoRepeats(pf) /\ Len(pf) \in Nat
  BY DEF TypeOK, OnePrefetchPerBlock
<1>2. n + 1 \in Nat \ {0} /\ Len(pf) \in 0 .. Len(pf)
  BY <1>1
<1>3. /\ rest \in Seq(Block) /\ NoRepeats(rest) /\ InSeq(rest) \subseteq InSeq(pf)
      /\ InSeq(rest) \subseteq {pf[i] : i \in n + 1 .. Len(pf)}
  BY <1>1, <1>2, SubSeqNoRepeats, Zenon
<1> HIDE DEF rest
<1>4. pf[n] \notin {pf[i] : i \in n + 1 .. Len(pf)}
  BY <1>1 DEF NoRepeats
<1>5. pf[n] \in InSeq(pf) /\ InSeq(pf) \subseteq Block
  BY <1>1 DEF InSeq
<1> QED BY <1>3, <1>4, <1>5, Zenon DEF rest

LEMMA SendPrefetchStep ==
  ASSUME SetFacts, IInv, NEW n \in 1 .. Len(pf), NEW accept \in BOOLEAN, SendPrefetch(n, accept)
  PROVE  IInv'
<1> DEFINE c    == pf[n]
           m    == [NoMSHR EXCEPT !.pf = TRUE, !.cmd = IF accept THEN "Read" ELSE "pending"]
           ms   == [mshr EXCEPT ![c] = m]
           set  == IF isFull(ms) THEN {"NoMSHRs"} ELSE {}
           rest == SubSeq(pf, n + 1, Len(pf))
<1> USE DEF IInv
<1>1. /\ Wanted(c) /\ ~isFull(mshr) /\ pf' = rest /\ mshr' = ms /\ ChangeBlocked({}, set)
      /\ IF accept THEN waitingOnRetry' = "no" /\ UNCHANGED readyList
                   ELSE waitingOnRetry' = "miss" /\ readyList' = <<c>> \o readyList
      /\ UNCHANGED <<in_flight, blk, writeBuffer, noTargetMSHR, above, aborted>>
  BY Zenon DEF SendPrefetch, PrefetchTurn
<1>2. /\ rest \in Seq(Block) /\ NoRepeats(rest) /\ InSeq(rest) \subseteq InSeq(pf)
      /\ c \in InSeq(pf) /\ c \notin InSeq(rest) /\ InSeq(pf) \subseteq Block
  BY QueueRest, Zenon DEF PrefetchInv
<1>3. /\ m \in MSHRType /\ m.pf = TRUE /\ getNumTargets(m) = 1
      /\ m.cmd = (IF accept THEN "Read" ELSE "pending")
  <2>1. CASE accept
    <3>0. m = [NoMSHR EXCEPT !.pf = TRUE, !.cmd = "Read"]
      BY <2>1, Zenon
    <3> HIDE DEF m
    <3>1. m = [pf |-> TRUE, reads |-> 0, excl |-> "none", wb |-> FALSE, cmd |-> "Read"]
      BY <3>0, Zenon DEF NoMSHR
    <3> QED BY <2>1, <3>1, NumTargetAssumption DEF MSHRType, getNumTargets
  <2>2. CASE ~accept
    <3>0. m = [NoMSHR EXCEPT !.pf = TRUE, !.cmd = "pending"]
      BY <2>2, Zenon
    <3> HIDE DEF m
    <3>1. m = [pf |-> TRUE, reads |-> 0, excl |-> "none", wb |-> FALSE, cmd |-> "pending"]
      BY <3>0, Zenon DEF NoMSHR
    <3> QED BY <2>2, <3>1, NumTargetAssumption DEF MSHRType, getNumTargets
  <2> QED BY <2>1, <2>2, Zenon
<1> HIDE DEF c, m, rest
<1>4. c \in Block /\ ~HasMSHR(c) /\ m.cmd # "free"
  BY <1>1, <1>2, <1>3, Zenon DEF Wanted
<1>5. /\ mshr' \in [Block -> MSHRType] /\ mshr'[c] = m
      /\ \A x \in Block \ {c} : mshr'[x] = mshr[x]
  BY <1>1, <1>3, <1>4, SMTT(30) DEF TypeOK
<1>6. OnePrefetchPerBlock'
  <2>1. \A x \in InSeq(pf) : x \in in_flight /\ ~mshr[x].pf
    BY Zenon DEF PrefetchInv, OnePrefetchPerBlock
  <2>2. \A x \in Block : mshr[x].pf => x \in in_flight
    BY Zenon DEF PrefetchInv, OnePrefetchPerBlock
  <2>3. \A x \in InSeq(rest) : x \in in_flight' /\ ~mshr'[x].pf
    BY <1>1, <1>2, <1>5, <2>1, Zenon
  <2>4. \A x \in Block : mshr'[x].pf => x \in in_flight'
    BY <1>1, <1>2, <1>5, <2>1, <2>2, SMTT(30)
  <2> QED BY <1>1, <1>2, <2>3, <2>4, Zenon DEF OnePrefetchPerBlock, InSeq, NoRepeats
<1>7. QueuedStillWanted'
  <2> SUFFICES ASSUME prefetchOnAccess, NEW x \in InSeq(rest) PROVE Wanted(x)'
    BY <1>1, Zenon DEF QueuedStillWanted, InSeq
  <2>1. Wanted(x) /\ x \in Block /\ x # c
    BY <1>2, Zenon DEF PrefetchInv, QueuedStillWanted
  <2>2. blk' = blk /\ mshr'[x] = mshr[x]
    BY <1>1, <1>5, <2>1, Zenon
  <2> QED BY <2>1, <2>2, Zenon DEF Wanted, Valid, HasMSHR
<1>8. PrefetchInv'
  BY <1>1, <1>6, <1>7, Zenon DEF PrefetchInv, InFlightBounded
<1>9. ReadyListExact' /\ readyList' \in Seq(Block)
  <2>0. readyList \in Seq(Block) /\ NoRepeats(readyList)
        /\ InSeq(readyList) = {b \in Block : mshr[b].cmd = "pending"}
    BY Zenon DEF TypeOK, ReadyListExact
  <2>1. CASE accept
    BY <1>1, <1>3, <1>4, <1>5, <2>0, <2>1, ReadyKept, Zenon DEF HasMSHR
  <2>2. CASE ~accept
    <3>1. c \notin InSeq(readyList)
      BY <1>4, <2>0, Zenon DEF HasMSHR
    <3>2. /\ readyList' \in Seq(Block) /\ NoRepeats(readyList')
          /\ InSeq(readyList') = InSeq(readyList) \cup {c}
      <4>1. readyList' = <<c>> \o readyList
        BY <1>1, <2>2, Zenon
      <4>2. /\ <<c>> \o readyList \in Seq(Block) /\ NoRepeats(<<c>> \o readyList)
            /\ InSeq(<<c>> \o readyList) = InSeq(readyList) \cup {c}
        BY <1>4, <2>0, <3>1, PrependNoRepeats
      <4> QED BY <4>1, <4>2, Zenon
    <3>3. {b \in Block : mshr'[b].cmd = "pending"}
            = {b \in Block : mshr[b].cmd = "pending"} \cup {c}
      BY <1>3, <1>4, <1>5, <2>2, Zenon
    <3> QED BY <2>0, <3>2, <3>3, Zenon DEF ReadyListExact, InSeq, NoRepeats
  <2> QED BY <2>1, <2>2, Zenon
<1>10. /\ blocked' \in SUBSET BlockedCause /\ mustSendRetry' \in BOOLEAN
       /\ blocked' = (blocked \ {}) \cup set
       /\ mustSendRetry' => blocked' # {}
  <2>1. set \in SUBSET BlockedCause /\ (mustSendRetry => blocked # {})
    BY Zenon DEF BlockedWhenFull, BlockedCause
  <2> HIDE DEF set
  <2> QED BY <1>1, <2>1, ChangeBlockedFact, Zenon
<1>11. Cardinality(Allocated(mshr')) <= mshrs
  <2>1. Cardinality(Allocated(mshr')) = Cardinality(Allocated(mshr)) + 1
    BY <1>1, <1>4, AllocateMSHR, Zenon
  <2> QED BY <1>1, <2>1, AllocatedFinite, MSHRsAssumption DEF isFull
<1>12. \A x \in Block : getNumTargets(mshr'[x]) >= numTarget => x \in noTargetMSHR
  <2>1. ~(getNumTargets(m) >= numTarget)
    BY <1>3, NumTargetAssumption
  <2> QED BY <1>5, <2>1, Zenon DEF BlockedWhenFull
<1>13. \A x \in noTargetMSHR : x \in Block /\ mshr[x].cmd # "free" /\ x # c
  BY <1>4, Zenon DEF BlockedWhenFull, TypeOK, HasMSHR
<1>14. BlockedWhenFull'
  <2>1. isFull(mshr') => "NoMSHRs" \in blocked'
    BY <1>1, <1>10, Zenon
  <2>2. WBFull(writeBuffer') <=> "NoWBBuffers" \in blocked'
    BY <1>1, <1>10, Zenon DEF BlockedWhenFull
  <2>3. "NoTargets" \in blocked' <=> noTargetMSHR' # {}
    BY <1>1, <1>10, Zenon DEF BlockedWhenFull
  <2>4. \A x \in noTargetMSHR' : mshr'[x].cmd # "free"
    BY <1>1, <1>5, <1>13, Zenon
  <2> QED BY <1>1, <1>10, <1>11, <1>12, <2>1, <2>2, <2>3, <2>4, ZenonT(30) DEF BlockedWhenFull, HasMSHR
<1>15. TargetsInv'
  BY <1>1, <1>5, <1>13, Zenon DEF TargetsInv
<1>16. TypeOK'
  BY <1>1, <1>2, <1>5, <1>9, <1>10, Zenon DEF TypeOK
<1> QED BY <1>8, <1>9, <1>14, <1>15, <1>16, Zenon

LEMMA DiscardPrefetchesStep ==
  ASSUME IInv, NEW n \in 1 .. Len(pf), DiscardPrefetches(n)
  PROVE  IInv'
<1> DEFINE rest == SubSeq(pf, n + 1, Len(pf))
<1> USE DEF IInv
<1>1. /\ pf' = rest
      /\ UNCHANGED <<in_flight, blk, mshr, readyList, writeBuffer, blocked,
                     noTargetMSHR, mustSendRetry, waitingOnRetry, above, aborted>>
  BY Zenon DEF DiscardPrefetches
<1>2. rest \in Seq(Block) /\ NoRepeats(rest) /\ InSeq(rest) \subseteq InSeq(pf)
  BY QueueRest, SMTT(30) DEF PrefetchInv
<1> HIDE DEF rest
<1>3. OnePrefetchPerBlock' /\ InFlightBounded'
  BY <1>1, <1>2, Zenon DEF PrefetchInv, OnePrefetchPerBlock, InFlightBounded, InSeq, NoRepeats
<1>4. QueuedStillWanted'
  <2> SUFFICES ASSUME prefetchOnAccess, NEW x \in InSeq(rest) PROVE Wanted(x)'
    BY <1>1, Zenon DEF QueuedStillWanted, InSeq
  <2> QED BY <1>1, <1>2, Zenon DEF PrefetchInv, QueuedStillWanted, Wanted, Valid, HasMSHR
<1>5. TypeOK'
  BY <1>1, <1>2, Zenon DEF TypeOK
<1>6. ReadyListExact'
  BY <1>1, ReadyKept, Zenon
<1>7. BlockedWhenFull' /\ TargetsInv'
  BY <1>1, BlockedKept, Zenon DEF BlockedWhenFull
<1> QED BY <1>3, <1>4, <1>5, <1>6, <1>7, Zenon DEF PrefetchInv

-----------------------------------------------------------------------------
(* handleResponse.                                                         *)

(* What all responses share: the MSHR is freed.                            *)
LEMMA FinishFact ==
  ASSUME TypeOK, NEW b \in Block, Answered(b), Finish(b)
  PROVE  /\ mshr[b].cmd # "free" /\ mshr[b].cmd # "pending"
         /\ mshr' = [mshr EXCEPT ![b] = NoMSHR] /\ mshr' \in [Block -> MSHRType]
         /\ mshr'[b].cmd = "free" /\ mshr'[b].pf = FALSE /\ getNumTargets(mshr'[b]) = 0
         /\ \A x \in Block \ {b} : mshr'[x] = mshr[x]
         /\ above' \in [Block -> {"none", "shared", "modified"}]
<1>1. mshr' = [mshr EXCEPT ![b] = NoMSHR]
  BY Zenon DEF Finish
<1>2. NoMSHR \in MSHRType /\ getNumTargets(NoMSHR) = 0 /\ NoMSHR.cmd = "free" /\ NoMSHR.pf = FALSE
  BY NumTargetAssumption DEF NoMSHR, MSHRType, getNumTargets
<1>3. /\ mshr' \in [Block -> MSHRType] /\ mshr'[b] = NoMSHR
      /\ \A x \in Block \ {b} : mshr'[x] = mshr[x]
  BY <1>1, <1>2, Zenon DEF TypeOK
<1>4. above' \in [Block -> {"none", "shared", "modified"}]
  BY Zenon DEF Finish, TypeOK
<1>5. mshr[b].cmd # "free" /\ mshr[b].cmd # "pending"
  BY Zenon DEF Answered, InService
<1> QED BY <1>1, <1>2, <1>3, <1>4, <1>5, Zenon

(* The prefetcher after a response: only the answered block can have       *)
(* become valid, and it leaves in_flight only if it was not queued.        *)
LEMMA FinishPrefetch ==
  ASSUME SetFacts, TypeOK, PrefetchInv, NEW b \in Block, UNCHANGED pf,
         in_flight' = (IF mshr[b].pf THEN in_flight \ {b} ELSE in_flight),
         mshr[b].cmd # "free", mshr'[b].pf = FALSE,
         \A x \in Block \ {b} : mshr'[x] = mshr[x],
         \A x \in Block \ {b} : blk'[x] \subseteq blk[x]
  PROVE  PrefetchInv' /\ in_flight' \in SUBSET Block
<1>1. InSeq(pf) \subseteq Block /\ in_flight \in SUBSET Block
  BY InSeqType, Zenon DEF TypeOK
<1>2. \A x \in InSeq(pf) : x \in in_flight /\ ~mshr[x].pf
  BY Zenon DEF PrefetchInv, OnePrefetchPerBlock
<1>3. NoRepeats(pf) /\ \A x \in Block : mshr[x].pf => x \in in_flight
  BY Zenon DEF PrefetchInv, OnePrefetchPerBlock
<1>4. \A x \in InSeq(pf) : x \in in_flight' /\ ~mshr'[x].pf
  <2> SUFFICES ASSUME NEW x \in InSeq(pf) PROVE x \in in_flight' /\ ~mshr'[x].pf
    BY Zenon
  <2>1. x \in Block /\ x \in in_flight /\ ~mshr[x].pf
    BY <1>1, <1>2, Zenon
  <2>2. CASE x = b
    BY <2>1, <2>2, Zenon
  <2>3. CASE x # b
    BY <2>1, <2>3, Zenon
  <2> QED BY <2>2, <2>3, Zenon
<1>5. \A x \in Block : mshr'[x].pf => x \in in_flight'
  <2> SUFFICES ASSUME NEW x \in Block, mshr'[x].pf PROVE x \in in_flight'
    BY Zenon
  <2>1. x # b /\ mshr'[x] = mshr[x]
    BY Zenon
  <2> QED BY <1>3, <2>1, Zenon
<1>9. in_flight' \in SUBSET Block
  BY <1>1, Zenon
<1>6. OnePrefetchPerBlock'
  BY <1>3, <1>4, <1>5, Zenon DEF OnePrefetchPerBlock, InSeq, NoRepeats
<1>7. InFlightBounded'
  <2>1. in_flight \in SUBSET Block /\ in_flight' \in SUBSET in_flight
    BY <1>1, Zenon
  <2>2. /\ Cardinality(in_flight') <= Cardinality(in_flight)
        /\ Cardinality(in_flight') \in Nat /\ Cardinality(in_flight) \in Nat
    <3>1. in_flight' \in SUBSET Block
      BY <2>1, Zenon
    <3> QED BY <2>1, <3>1, Zenon DEF SetFacts
  <2>3. Cardinality(in_flight) <= MAX_QUEUE_SIZE
    BY Zenon DEF PrefetchInv, InFlightBounded
  <2>4. Cardinality(in_flight') <= MAX_QUEUE_SIZE
    BY <2>2, <2>3, MaxQueueSizeAssumption
  <2> QED BY <2>4, Zenon DEF InFlightBounded
<1>8. QueuedStillWanted'
  <2> SUFFICES ASSUME prefetchOnAccess, NEW x \in InSeq(pf) PROVE Wanted(x)'
    BY Zenon DEF QueuedStillWanted, InSeq
  <2>1. x \in Block /\ Wanted(x)
    BY <1>1, Zenon DEF PrefetchInv, QueuedStillWanted
  <2>2. x # b
    BY <2>1, Zenon DEF Wanted, HasMSHR
  <2> QED BY <2>1, <2>2, Zenon DEF Wanted, Valid, HasMSHR
<1> QED BY <1>6, <1>7, <1>8, <1>9, Zenon DEF PrefetchInv

(* The blocking causes after a response: the MSHR is free with whatever it *)
(* blocked.                                                                *)
LEMMA FinishBlocked ==
  ASSUME SetFacts, TypeOK, BlockedWhenFull, TargetsInv, NEW b \in Block,
         mshr[b].cmd # "free", mshr' = [mshr EXCEPT ![b] = NoMSHR],
         mshr'[b].pf = FALSE, getNumTargets(mshr'[b]) = 0,
         \A x \in Block \ {b} : mshr'[x] = mshr[x],
         noTargetMSHR' = noTargetMSHR \ {b},
         WBFull(writeBuffer') <=> "NoWBBuffers" \in blocked',
         mustSendRetry' => blocked' # {},
         "NoTargets" \in blocked' <=> "NoTargets" \in blocked /\ b \notin noTargetMSHR
  PROVE  BlockedWhenFull' /\ TargetsInv'
<1>1. ~isFull(mshr') /\ Cardinality(Allocated(mshr')) <= mshrs
  <2>1. HasMSHR(b)
    BY Zenon DEF HasMSHR
  <2>2. /\ Cardinality(Allocated(mshr')) = Cardinality(Allocated(mshr)) - 1
        /\ Cardinality(Allocated(mshr)) \in Nat
    BY <2>1, FreeMSHR, Zenon
  <2>3. Cardinality(Allocated(mshr)) <= mshrs
    BY Zenon DEF BlockedWhenFull
  <2> QED BY <2>2, <2>3, MSHRsAssumption DEF isFull
<1>2. "NoTargets" \in blocked' <=> noTargetMSHR' # {}
  <2>1. "NoTargets" \in blocked <=> noTargetMSHR # {}
    BY Zenon DEF BlockedWhenFull
  <2>2. \A x, y \in noTargetMSHR : x = y
    BY Zenon DEF TargetsInv
  <2> QED BY <2>1, <2>2, Zenon
<1>3. \A x \in noTargetMSHR' : mshr'[x].cmd # "free"
  BY Zenon DEF BlockedWhenFull, TypeOK, HasMSHR
<1>4. ASSUME NEW x \in Block, getNumTargets(mshr'[x]) >= numTarget PROVE x \in noTargetMSHR'
  <2>1. x # b
    BY <1>4, NumTargetAssumption
  <2> QED BY <1>4, <2>1, Zenon DEF BlockedWhenFull
<1>5. BlockedWhenFull'
  BY <1>1, <1>2, <1>3, <1>4, SMTT(30) DEF BlockedWhenFull, HasMSHR
<1>6. TargetsInv'
  BY Zenon DEF TargetsInv, TypeOK
<1> QED BY <1>5, <1>6, Zenon

LEMMA FinishStep ==
  ASSUME SetFacts, IInv, NEW b \in Block, Answered(b), Finish(b),
         blk' \in [Block -> SUBSET Status],
         \A x \in Block \ {b} : blk'[x] \subseteq blk[x],
         writeBuffer' \in Seq(Block),
         blocked' \in SUBSET BlockedCause, mustSendRetry' \in BOOLEAN,
         WBFull(writeBuffer') <=> "NoWBBuffers" \in blocked',
         mustSendRetry' => blocked' # {},
         \A c \in {"NoMSHRs", "NoTargets"} : c \in blocked' <=> c \in blocked \ Unblocks(b)
  PROVE  IInv'
<1>1. TypeOK /\ PrefetchInv /\ ReadyListExact /\ BlockedWhenFull /\ TargetsInv
  BY Zenon DEF IInv
<1>2. /\ noTargetMSHR' = noTargetMSHR \ {b}
      /\ in_flight' = (IF mshr[b].pf THEN in_flight \ {b} ELSE in_flight)
      /\ UNCHANGED <<pf, readyList, waitingOnRetry, aborted>>
  BY Zenon DEF Finish
<1>3. /\ mshr[b].cmd # "free" /\ mshr[b].cmd # "pending"
      /\ mshr' = [mshr EXCEPT ![b] = NoMSHR] /\ mshr' \in [Block -> MSHRType]
      /\ mshr'[b].cmd = "free" /\ mshr'[b].pf = FALSE /\ getNumTargets(mshr'[b]) = 0
      /\ \A x \in Block \ {b} : mshr'[x] = mshr[x]
      /\ above' \in [Block -> {"none", "shared", "modified"}]
  BY <1>1, FinishFact, Zenon
<1>4. PrefetchInv' /\ in_flight' \in SUBSET Block
  BY <1>1, <1>2, <1>3, FinishPrefetch, Zenon
<1>5. "NoTargets" \in blocked' <=> "NoTargets" \in blocked /\ b \notin noTargetMSHR
  <2>1. "NoTargets" \in Unblocks(b) <=> b \in noTargetMSHR
    BY Zenon DEF Unblocks
  <2> QED BY <2>1, Zenon
<1>6. BlockedWhenFull' /\ TargetsInv'
  BY <1>1, <1>2, <1>3, <1>5, FinishBlocked, Zenon
<1>7. ReadyListExact'
  <2>1. \A x \in Block : mshr'[x].cmd = "pending" <=> mshr[x].cmd = "pending"
    BY <1>3, Zenon
  <2> QED BY <1>1, <1>2, <2>1, ReadyKept, ZenonT(30)
<1>8. noTargetMSHR' \in SUBSET Block
  BY <1>1, <1>2, Zenon DEF TypeOK
<1>9. TypeOK'
  BY <1>1, <1>2, <1>3, <1>4, <1>8, Zenon DEF TypeOK
<1> QED BY <1>4, <1>6, <1>7, <1>9, Zenon DEF IInv

LEMMA FilledType == ASSUME NEW m PROVE Filled(m) \in SUBSET Status
BY Zenon DEF Filled, Status

LEMMA UnblocksType == ASSUME NEW b \in Block PROVE Unblocks(b) \in SUBSET {"NoMSHRs", "NoTargets"}
BY Zenon DEF Unblocks

(* A response that leaves the write buffer alone.                          *)
LEMMA FinishUnblocks ==
  ASSUME TypeOK, BlockedWhenFull, NEW b \in Block,
         ChangeBlocked(Unblocks(b), {}), UNCHANGED writeBuffer
  PROVE  /\ writeBuffer' \in Seq(Block)
         /\ blocked' \in SUBSET BlockedCause /\ mustSendRetry' \in BOOLEAN
         /\ WBFull(writeBuffer') <=> "NoWBBuffers" \in blocked'
         /\ mustSendRetry' => blocked' # {}
         /\ \A c \in {"NoMSHRs", "NoTargets"} : c \in blocked' <=> c \in blocked \ Unblocks(b)
<1>1. {} \in SUBSET BlockedCause /\ (mustSendRetry => blocked # {})
  BY Zenon DEF BlockedWhenFull
<1>2. /\ blocked' \in SUBSET BlockedCause /\ mustSendRetry' \in BOOLEAN
      /\ blocked' = (blocked \ Unblocks(b)) \cup {}
      /\ mustSendRetry' => blocked' # {}
  BY <1>1, ChangeBlockedFact, Zenon
<1> QED BY <1>2, UnblocksType, Zenon DEF TypeOK, BlockedWhenFull

LEMMA RespondStep ==
  ASSUME SetFacts, IInv, NEW b \in Block, Respond(b)
  PROVE  IInv'
<1> USE DEF IInv
<1>1. CASE RespondInPlace(b)
  <2>1. /\ Answered(b) /\ Finish(b) /\ ChangeBlocked(Unblocks(b), {}) /\ UNCHANGED writeBuffer
        /\ blk' = (IF mshr[b].cmd = "Forward" THEN blk ELSE [blk EXCEPT ![b] = Filled(mshr[b])])
    BY <1>1, Zenon DEF RespondInPlace
  <2>2. blk' \in [Block -> SUBSET Status] /\ \A x \in Block \ {b} : blk'[x] \subseteq blk[x]
    BY <2>1, FilledType, Zenon DEF TypeOK
  <2> QED BY <2>1, <2>2, FinishUnblocks, FinishStep, ZenonT(30)
<1>2. ASSUME NEW v \in Victims(b), RespondAndFill(b, v) PROVE IInv'
  <2>0. v \in Block
    BY VictimsType, Zenon
  <2>1. /\ Answered(b) /\ Finish(b) /\ WritebackVictim(b, v, Unblocks(b))
        /\ blk' = Install(b, v, Filled(mshr[b]))
    BY <1>2, Zenon DEF RespondAndFill
  <2>2. blk' \in [Block -> SUBSET Status] /\ \A x \in Block \ {b} : blk'[x] \subseteq blk[x]
    BY <2>0, <2>1, FilledType, Zenon DEF TypeOK, Install
  <2>3. /\ writeBuffer' \in Seq(Block)
        /\ blocked' \in SUBSET BlockedCause /\ mustSendRetry' \in BOOLEAN
        /\ WBFull(writeBuffer') <=> "NoWBBuffers" \in blocked'
        /\ mustSendRetry' => blocked' # {}
        /\ \A c \in {"NoMSHRs", "NoTargets"} : c \in blocked' <=> c \in blocked \ Unblocks(b)
    BY <2>0, <2>1, UnblocksType, WritebackVictimFact
  <2> QED BY <2>1, <2>2, <2>3, FinishStep, Zenon
<1>3. ASSUME NEW v \in Victims(b), RespondUncached(b, v) PROVE IInv'
  <2>1. /\ Answered(b) /\ Finish(b) /\ ChangeBlocked(Unblocks(b), {})
        /\ UNCHANGED <<blk, writeBuffer>>
    BY <1>3, Zenon DEF RespondUncached
  <2>2. blk' \in [Block -> SUBSET Status] /\ \A x \in Block \ {b} : blk'[x] \subseteq blk[x]
    BY <2>1, Zenon DEF TypeOK
  <2> QED BY <2>1, <2>2, FinishUnblocks, FinishStep, Zenon
<1> QED BY <1>1, <1>2, <1>3, Zenon DEF Respond

-----------------------------------------------------------------------------
LEMMA NextIInv == ASSUME SetFacts, IInv, [Next]_vars PROVE IInv'
<1>1. CASE Request
  BY <1>1, RefuseRequestStep, MSHRHitStep, HitStep, MissStep, Zenon DEF Request
<1>2. CASE Writeback
  <2>1. ASSUME NEW b \in Block, NEW v \in Victims(b), WritebackAborts(b, v) PROVE IInv'
    BY <2>1, AbortStep, Zenon DEF WritebackAborts
  <2> QED BY <1>2, <2>1, WritebackHitStep, WritebackInsertStep, WritebackForwardStep, Zenon DEF Writeback
<1>3. CASE sendPacket
  BY <1>3, BailOutStep, SendMissStep, SendWriteStep, SendPrefetchStep, DiscardPrefetchesStep, Zenon
     DEF sendPacket
<1>4. CASE handleResponse
  <2>1. ASSUME NEW b \in Block, NEW v \in Victims(b), ResponseAborts(b, v) PROVE IInv'
    BY <2>1, AbortStep, Zenon DEF ResponseAborts
  <2> QED BY <1>4, <2>1, RespondStep, Zenon DEF handleResponse
<1>5. CASE UNCHANGED vars
  <2> USE DEF IInv, vars
  <2>1. TypeOK'
    BY <1>5, Zenon DEF TypeOK
  <2>2. PrefetchInv'
    BY <1>5, PrefetchKept, Zenon DEF Wanted, Valid, HasMSHR
  <2>3. ReadyListExact'
    BY <1>5, ReadyKept, SMTT(30)
  <2>4. BlockedWhenFull' /\ TargetsInv'
    BY <1>5, BlockedKept, Zenon DEF BlockedWhenFull
  <2> QED BY <2>1, <2>2, <2>3, <2>4, SMTT(30)
<1> QED BY <1>1, <1>2, <1>3, <1>4, <1>5, Zenon DEF Next
=============================================================================

--------------------------- MODULE MIExample_proofs ---------------------------
(***************************************************************************)
(* The MI_example protocol, for any number of caches, DMA controllers,     *)
(* words and requests, over ordered and unordered networks: no two         *)
(* controllers have the block, no write is lost, DMA reads are answered    *)
(* with the latest data, and where the tables are complete no message      *)
(* meets a state without a transition for it.                              *)
(***************************************************************************)
EXTENDS MIExample, TLAPS

\* The messages on their way from the directory to a cache
Msgs(c) == {fwd[c][i] : i \in 1..Len(fwd[c])}

Has(c, t) == \E m \in Msgs(c) : m.type = t

\* A request of cache r that was forwarded to c
For(c, r) == \E m \in Msgs(c) : m.type = "GETX" /\ m.requestor = r

Once(s, T) == \A i, j \in 1..Len(s) : s[i].type \in T /\ s[j].type \in T => i = j

\* A writeback that was refused arrives behind the request it was refused for
NackLast(s) == \A i, j \in 1..Len(s) : s[i].type = "GETX" /\ s[j].type = "WB_NACK" => i < j

Answers == {"WB_ACK", "WB_NACK"}

-----------------------------------------------------------------------------
(* The forward network.                                                    *)

LEMMA AppendFact ==
  ASSUME NEW s \in Seq(Forward), NEW m \in Forward
  PROVE  LET t == Append(s, m)
         IN  /\ t \in Seq(Forward) /\ Len(s) \in Nat /\ Len(t) = Len(s) + 1
             /\ t[Len(s) + 1] = m /\ \A i \in 1..Len(s) : t[i] = s[i]
OBVIOUS

LEMMA RemoveFact ==
  ASSUME NEW s \in Seq(Forward), NEW k \in 1..Len(s)
  PROVE  LET t == RemoveAt(s, k)
         IN  /\ t \in Seq(Forward) /\ Len(s) \in Nat /\ Len(t) = Len(s) - 1
             /\ \A i \in 1..Len(s) - 1 : t[i] = s[IF i < k THEN i ELSE i + 1]
<1> DEFINE a == SubSeq(s, 1, k - 1)
           z == SubSeq(s, k + 1, Len(s))
           t == RemoveAt(s, k)
<1>1. /\ Len(s) \in Nat /\ k \in Nat /\ k >= 1 /\ k <= Len(s)
      /\ a \in Seq(Forward) /\ Len(a) = k - 1 /\ \A i \in 1..k - 1 : a[i] = s[i]
      /\ z \in Seq(Forward) /\ Len(z) = Len(s) - k /\ \A i \in 1..Len(s) - k : z[i] = s[i + k]
  OBVIOUS
<1>2. t = a \o z
  BY DEF RemoveAt
<1> HIDE DEF a, z, t
<1>3. /\ t \in Seq(Forward) /\ Len(t) = Len(a) + Len(z)
      /\ \A i \in 1..Len(a) : t[i] = a[i]
      /\ \A i \in Len(a) + 1..Len(a) + Len(z) : t[i] = z[i - Len(a)]
  <2>1. a \in Seq(Forward) /\ z \in Seq(Forward)
    BY <1>1
  <2> QED BY <1>2, <2>1
<1>4. ASSUME NEW i \in 1..Len(s) - 1 PROVE t[i] = s[IF i < k THEN i ELSE i + 1]
  <2>1. CASE i < k
    <3>1. i \in 1..Len(a) /\ i \in 1..k - 1
      BY <1>1, <2>1
    <3> QED BY <1>1, <1>3, <2>1, <3>1
  <2>2. CASE ~(i < k)
    <3>1. /\ i \in Len(a) + 1..Len(a) + Len(z)
          /\ i - Len(a) \in 1..Len(s) - k /\ (i - Len(a)) + k = i + 1
      BY <1>1, <2>2
    <3> QED BY <1>1, <1>3, <2>2, <3>1
  <2> QED BY <2>1, <2>2
<1>5. t \in Seq(Forward) /\ Len(t) = Len(s) - 1
  BY <1>1, <1>3
<1> QED BY <1>1, <1>4, <1>5 DEF t

\* A message is sent.
LEMMA SendFact ==
  ASSUME fwd \in [Caches -> Seq(Forward)], NEW c \in Caches,
         NEW t \in {"GETX", "INV", "WB_ACK", "WB_NACK"}, NEW r \in Caches \cup {None},
         Send(c, t, r)
  PROVE  /\ fwd' \in [Caches -> Seq(Forward)]
         /\ \A x \in Caches : x # c => fwd'[x] = fwd[x]
         /\ \A x \in Caches : \A y : Has(x, y)' <=> Has(x, y) \/ (x = c /\ y = t)
         /\ \A x \in Caches : \A q :
              For(x, q)' <=> For(x, q) \/ (x = c /\ t = "GETX" /\ q = r)
         /\ \A T : Once(fwd[c], T) /\ (t \in T => \A y \in T : ~Has(c, y)) => Once(fwd'[c], T)
         /\ NackLast(fwd[c]) /\ (t = "GETX" => ~Has(c, "WB_NACK")) => NackLast(fwd'[c])
<1> DEFINE m == [type |-> t, requestor |-> r]
           s == fwd[c]
           u == fwd'[c]
<1>1. /\ fwd' = [fwd EXCEPT ![c] = Append(s, m)] /\ m \in Forward /\ s \in Seq(Forward)
      /\ m.type = t /\ m.requestor = r
  BY Zenon DEF Send, Forward
<1>2. u = Append(s, m) /\ \A x \in Caches : x # c => fwd'[x] = fwd[x]
  BY <1>1
<1> HIDE DEF m
<1>3. /\ u \in Seq(Forward) /\ Len(s) \in Nat /\ Len(u) = Len(s) + 1
      /\ u[Len(s) + 1] = m /\ \A i \in 1..Len(s) : u[i] = s[i]
  BY <1>1, <1>2, AppendFact
<1>4. fwd' \in [Caches -> Seq(Forward)]
  BY <1>1, <1>2, <1>3
<1>5. Msgs(c)' = Msgs(c) \cup {m}
  <2> DEFINE S == {s[i] : i \in 1..Len(s)}
             U == {u[i] : i \in 1..Len(u)}
  <2>1. ASSUME NEW i \in 1..Len(u) PROVE u[i] \in S \cup {m}
    <3>1. i \in 1..Len(s) \/ i = Len(s) + 1
      BY <1>3
    <3> QED BY <1>3, <3>1
  <2>2. ASSUME NEW i \in 1..Len(s) PROVE s[i] \in U
    <3>1. i \in 1..Len(u) /\ s[i] = u[i]
      BY <1>3
    <3> QED BY <3>1
  <2>3. m \in U
    <3>1. Len(s) + 1 \in 1..Len(u)
      BY <1>3
    <3> QED BY <1>3, <3>1
  <2>4. U = S \cup {m}
    BY <2>1, <2>2, <2>3, Zenon
  <2> QED BY <2>4, Zenon DEF Msgs
<1>6. \A x \in Caches : x # c => Msgs(x)' = Msgs(x)
  BY <1>2 DEF Msgs
<1>7. \A x \in Caches : \A y : Has(x, y)' <=> Has(x, y) \/ (x = c /\ y = t)
  BY <1>1, <1>5, <1>6 DEF Has
<1>8. \A x \in Caches : \A q : For(x, q)' <=> For(x, q) \/ (x = c /\ t = "GETX" /\ q = r)
  BY <1>1, <1>5, <1>6 DEF For
<1>9. ASSUME NEW T, Once(s, T), t \in T => \A y \in T : ~Has(c, y) PROVE Once(u, T)
  <2>1. t \in T => \A i \in 1..Len(s) : s[i].type \notin T
    BY <1>9, Zenon DEF Has, Msgs
  <2> SUFFICES ASSUME NEW i \in 1..Len(u), NEW j \in 1..Len(u), u[i].type \in T, u[j].type \in T
               PROVE  i = j
    BY DEF Once
  <2>2. (i \in 1..Len(s) \/ i = Len(s) + 1) /\ (j \in 1..Len(s) \/ j = Len(s) + 1)
    BY <1>3
  <2> QED BY <1>1, <1>3, <1>9, <2>1, <2>2 DEF Once
<1>10. ASSUME NackLast(s), t = "GETX" => ~Has(c, "WB_NACK") PROVE NackLast(u)
  <2>1. t = "GETX" => \A i \in 1..Len(s) : s[i].type # "WB_NACK"
    BY <1>10 DEF Has, Msgs
  <2> SUFFICES ASSUME NEW i \in 1..Len(u), NEW j \in 1..Len(u),
                      u[i].type = "GETX", u[j].type = "WB_NACK"
               PROVE  i < j
    BY DEF NackLast
  <2>2. (i \in 1..Len(s) \/ i = Len(s) + 1) /\ (j \in 1..Len(s) \/ j = Len(s) + 1)
    BY <1>3
  <2> QED BY <1>1, <1>3, <1>10, <2>1, <2>2 DEF NackLast
<1> QED BY <1>2, <1>4, <1>7, <1>8, <1>9, <1>10

\* The same, by name.
Sent(c, t, r) ==
  /\ fwd' \in [Caches -> Seq(Forward)]
  /\ \A x \in Caches : x # c => fwd'[x] = fwd[x]
  /\ \A x \in Caches : \A y : Has(x, y)' <=> Has(x, y) \/ (x = c /\ y = t)
  /\ \A x \in Caches : \A q : For(x, q)' <=> For(x, q) \/ (x = c /\ t = "GETX" /\ q = r)
  /\ \A T : Once(fwd[c], T) /\ (t \in T => \A y \in T : ~Has(c, y)) => Once(fwd'[c], T)

LEMMA SentFact ==
  ASSUME fwd \in [Caches -> Seq(Forward)], NEW c \in Caches,
         NEW t \in {"GETX", "INV", "WB_ACK", "WB_NACK"}, NEW r \in Caches \cup {None},
         Send(c, t, r)
  PROVE  Sent(c, t, r)
<1>1. /\ fwd' \in [Caches -> Seq(Forward)]
      /\ \A x \in Caches : x # c => fwd'[x] = fwd[x]
  BY SendFact
<1>2. \A x \in Caches : \A y : Has(x, y)' <=> Has(x, y) \/ (x = c /\ y = t)
  BY SendFact
<1>3. \A x \in Caches : \A q : For(x, q)' <=> For(x, q) \/ (x = c /\ t = "GETX" /\ q = r)
  BY SendFact
<1>4. \A T : Once(fwd[c], T) /\ (t \in T => \A y \in T : ~Has(c, y)) => Once(fwd'[c], T)
  BY SendFact
<1> QED BY <1>1, <1>2, <1>3, <1>4, Zenon DEF Sent

\* A message is taken: of the types that are there once, none is left.
LEMMA PopFact ==
  ASSUME fwd \in [Caches -> Seq(Forward)], NEW c \in Caches, NEW k \in 1..Len(fwd[c]), Pop(c, k)
  PROVE  /\ fwd' \in [Caches -> Seq(Forward)]
         /\ \A x \in Caches : x # c => fwd'[x] = fwd[x]
         /\ \A x \in Caches : \A y : Has(x, y)' => Has(x, y)
         /\ \A x \in Caches : \A q : For(x, q)' => For(x, q)
         /\ \A y : y # fwd[c][k].type => (Has(c, y)' <=> Has(c, y))
         /\ \A x \in Caches : \A q :
              x # c \/ fwd[c][k].type # "GETX" => (For(x, q)' <=> For(x, q))
         /\ \A T : Once(fwd[c], T) => Once(fwd'[c], T)
         /\ \A T : Once(fwd[c], T) /\ fwd[c][k].type \in T => \A y \in T : ~Has(c, y)'
         /\ NackLast(fwd[c]) => NackLast(fwd'[c])
<1> DEFINE s == fwd[c]
           u == fwd'[c]
           f(i) == IF i < k THEN i ELSE i + 1
<1>1. fwd' = [fwd EXCEPT ![c] = RemoveAt(s, k)] /\ s \in Seq(Forward)
  BY DEF Pop
<1>2. u = RemoveAt(s, k) /\ \A x \in Caches : x # c => fwd'[x] = fwd[x]
  BY <1>1
<1>3. /\ u \in Seq(Forward) /\ Len(s) \in Nat /\ Len(u) = Len(s) - 1
      /\ \A i \in 1..Len(s) - 1 : u[i] = s[f(i)]
  BY <1>1, <1>2, RemoveFact
<1>4. fwd' \in [Caches -> Seq(Forward)]
  BY <1>1, <1>2, <1>3
<1>5. ASSUME NEW i \in 1..Len(u)
      PROVE  f(i) \in 1..Len(s) /\ f(i) # k /\ u[i] = s[f(i)]
  BY <1>3
<1>6. \A i, j \in 1..Len(u) : (i < j => f(i) < f(j)) /\ (f(i) < f(j) => i < j) /\ (i # j => f(i) # f(j))
  BY <1>3
<1>7. ASSUME NEW i \in 1..Len(s), i # k PROVE \E j \in 1..Len(u) : s[i] = u[j]
  <2>1. CASE i < k
    <3>1. i \in 1..Len(u) /\ f(i) = i
      BY <1>3, <2>1
    <3> QED BY <1>5, <3>1
  <2>2. CASE ~(i < k)
    <3>1. i - 1 \in 1..Len(u) /\ f(i - 1) = i
      BY <1>3, <1>7, <2>2
    <3> QED BY <1>5, <3>1, Zenon
  <2> QED BY <2>1, <2>2
<1> HIDE DEF f
<1>8. /\ \A y \in Msgs(c)' : y \in Msgs(c)
      /\ \A y \in Msgs(c) : y.type # s[k].type => y \in Msgs(c)'
  <2> DEFINE S == {s[i] : i \in 1..Len(s)}
             U == {u[i] : i \in 1..Len(u)}
  <2>1. \A y \in U : y \in S
    BY <1>5
  <2>2. ASSUME NEW y \in S, y.type # s[k].type PROVE y \in U
    <3>1. PICK i \in 1..Len(s) : y = s[i] /\ i # k
      BY <2>2
    <3> QED BY <1>7, <3>1
  <2> QED BY <2>1, <2>2 DEF Msgs
<1>9. \A x \in Caches : x # c => Msgs(x)' = Msgs(x)
  BY <1>2 DEF Msgs
<1>10. \A x \in Caches : \A y : Has(x, y)' => Has(x, y)
  BY <1>8, <1>9 DEF Has
<1>11. \A x \in Caches : \A q : For(x, q)' => For(x, q)
  BY <1>8, <1>9 DEF For
<1>12. \A y : y # fwd[c][k].type => (Has(c, y)' <=> Has(c, y))
  BY <1>8 DEF Has
<1>13. \A x \in Caches : \A q : x # c \/ fwd[c][k].type # "GETX" => (For(x, q)' <=> For(x, q))
  BY <1>8, <1>9 DEF For
<1>14. ASSUME NEW T, Once(s, T) PROVE Once(u, T)
  BY <1>5, <1>6, <1>14, Zenon DEF Once
<1>15. ASSUME NEW T, Once(s, T), s[k].type \in T, NEW y \in T PROVE ~Has(c, y)'
  <2>1. \A i \in 1..Len(u) : u[i].type \notin T
    BY <1>5, <1>15 DEF Once
  <2> QED BY <2>1 DEF Has, Msgs
<1>16. ASSUME NackLast(s) PROVE NackLast(u)
  <2> SUFFICES ASSUME NEW i \in 1..Len(u), NEW j \in 1..Len(u),
                      u[i].type = "GETX", u[j].type = "WB_NACK"
               PROVE  i < j
    BY DEF NackLast
  <2>1. f(i) < f(j)
    BY <1>5, <1>16 DEF NackLast
  <2> QED BY <1>6, <2>1
<1> QED BY <1>2, <1>4, <1>10, <1>11, <1>12, <1>13, <1>14, <1>15, <1>16

\* The same, by name, for messages other than forwarded requests.
Popped(c, t) ==
  /\ fwd' \in [Caches -> Seq(Forward)]
  /\ \A x \in Caches : x # c => fwd'[x] = fwd[x]
  /\ Has(c, "GETX")' <=> Has(c, "GETX")
  /\ \A x \in Caches : \A q : For(x, q)' <=> For(x, q)
  /\ \A T : Once(fwd[c], T) => Once(fwd'[c], T)
  /\ \A T : Once(fwd[c], T) /\ t \in T => \A y \in T : ~Has(c, y)'

LEMMA PoppedFact ==
  ASSUME fwd \in [Caches -> Seq(Forward)], NEW c \in Caches, NEW k \in 1..Len(fwd[c]), Pop(c, k),
         NEW t, t = fwd[c][k].type, t # "GETX"
  PROVE  Popped(c, t)
<1>1. /\ fwd' \in [Caches -> Seq(Forward)]
      /\ \A x \in Caches : x # c => fwd'[x] = fwd[x]
  BY PopFact
<1>2. Has(c, "GETX")' <=> Has(c, "GETX")
  BY PopFact
<1>3. \A x \in Caches : \A q : For(x, q)' <=> For(x, q)
  BY PopFact
<1>4. \A T : Once(fwd[c], T) => Once(fwd'[c], T)
  BY PopFact
<1>5. \A T : Once(fwd[c], T) /\ t \in T => \A y \in T : ~Has(c, y)'
  BY PopFact
<1> QED BY <1>1, <1>2, <1>3, <1>4, <1>5, Zenon DEF Popped

-----------------------------------------------------------------------------
(* The inductive invariant.                                                *)

\* A writeback on its way to the directory, and at the memory controller; a
\* block that is fetched for a cache
Putx(c) == req[c] # None /\ req[c].type = "PUTX"
Storing(c) == memq # None /\ memq.type = "WB" /\ memq.requestor = c
Fetching(c) == memq # None /\ memq.type = "READ" /\ memq.requestor = c

\* A cache whose request the directory has taken waits for the block
Waits(c) == cache[c].state \in {"IS", "IM"} /\ req[c] = None

\* A cache that has the block and will hand it on
Keeps(c) == \/ cache[c].state \in {"M", "MII"}
            \/ cache[c].state = "MI" /\ (Putx(c) \/ Has(c, "WB_NACK"))
Holds(c) == Keeps(c) \/ resp[c] # None

\* One cache: its writeback is in one place, a request of its own is in none
\* when it has the block, and it has or waits for the block exactly when it is
\* the directory's owner or a request is forwarded to it.
CacheOK(c) ==
    /\ cache[c].state \in {"MI", "II"}
          <=> Putx(c) \/ Storing(c) \/ Has(c, "WB_ACK") \/ Has(c, "WB_NACK")
    /\ Putx(c) => ~Storing(c) /\ ~Has(c, "WB_ACK") /\ ~Has(c, "WB_NACK")
    /\ Storing(c) => ~Has(c, "WB_ACK") /\ ~Has(c, "WB_NACK")
    /\ Has(c, "WB_ACK") => ~Has(c, "WB_NACK")
    /\ cache[c].state = "II" => Putx(c) \/ Has(c, "WB_NACK")
    /\ req[c] # None /\ ~Putx(c) => cache[c].state \in {"IS", "IM"}
    /\ resp[c] # None => Waits(c)
    /\ dir.owner = c \/ Has(c, "GETX") <=> Keeps(c) \/ Waits(c)
    /\ ~(dir.owner = c /\ Has(c, "GETX"))
    /\ cache[c].state = "MII" \/ Has(c, "WB_NACK") => dir.owner # c
    /\ Fetching(c) => Waits(c) /\ resp[c] = None
    /\ Once(fwd[c], {"GETX"}) /\ Once(fwd[c], Answers)

\* The requests that are forwarded: each for one cache, which waits for the
\* block and gets it from nobody else.
ForOK == /\ \A x \in Caches : \A r : For(x, r) => /\ r \in Caches /\ Waits(r)
                                                  /\ resp[r] = None /\ ~Fetching(r)
         /\ \A x, y \in Caches : \A r : For(x, r) /\ For(y, r) => x = y

Owned == {"M", "M_DRD", "M_DWR"}

\* One cache has the block or is sent it, and only while the directory says so
HoldsOK == /\ \A x, y \in Caches : Holds(x) /\ Holds(y) => x = y
           /\ \A x \in Caches : Holds(x) => dir.state \in Owned

DmaWrite == [type : {"WRITE"}, word : Words, value : Values]

\* The directory's state tells what is at the memory controller and for whom
DirOK == /\ dir.owner # None <=> dir.state \in Owned \cup {"IM"}
         /\ memq = None <=> dir.state \in Owned \cup {"I"}
         /\ memq # None => (memq.type = "READ" <=> dir.state \in {"IM", "ID"})
         /\ dir.state = "IM" => memq.requestor = dir.owner
         /\ dir.state \in {"ID", "ID_W"} => memq.requestor = None
         /\ dir.state \in {"MI", "M_DRDI", "M_DWRI"} => memq.requestor # None
         /\ dir.state \in {"M_DWR", "M_DWRI", "ID_W"} => dir.tbe \in DmaWrite

\* What the writes so far left is wherever the block is
Current(x) == /\ Keeps(x) => cache[x].data = latest
              /\ Keeps(x) /\ Putx(x) => req[x].data = latest
              /\ resp[x] # None => resp[x] = latest

DataOK == /\ \A x \in Caches : Current(x)
          /\ dir.state \notin Owned => mem = latest
          /\ memq # None /\ memq.type = "READ" => memq.data = latest

IInv == /\ TypeOK /\ (\A x \in Caches : CacheOK(x))
        /\ ForOK /\ HoldsOK /\ DirOK /\ DataOK

-----------------------------------------------------------------------------
(* What a step leaves alone.                                               *)

Same(x) == /\ cache'[x] = cache[x] /\ req'[x] = req[x]
           /\ resp'[x] = resp[x] /\ fwd'[x] = fwd[x]

LEMMA SameKept ==
  ASSUME NEW x \in Caches, Same(x)
  PROVE  /\ Putx(x)' <=> Putx(x)
         /\ \A t : Has(x, t)' <=> Has(x, t)
         /\ \A r : For(x, r)' <=> For(x, r)
         /\ Waits(x)' <=> Waits(x)
         /\ Keeps(x)' <=> Keeps(x)
         /\ Holds(x)' <=> Holds(x)
<1>1. Putx(x)' <=> Putx(x)
  BY DEF Same, Putx
<1>2. Msgs(x)' = Msgs(x)
  BY DEF Same, Msgs
<1>3. /\ \A t : Has(x, t)' <=> Has(x, t)
      /\ \A r : For(x, r)' <=> For(x, r)
  BY <1>2 DEF Has, For
<1>4. (Waits(x)' <=> Waits(x)) /\ (Keeps(x)' <=> Keeps(x))
  BY <1>1, <1>3 DEF Waits, Keeps, Same
<1> QED BY <1>1, <1>3, <1>4 DEF Holds, Same

LEMMA CacheKept ==
  ASSUME NEW x \in Caches, Same(x), CacheOK(x), dir'.owner = x <=> dir.owner = x,
         Storing(x)' <=> Storing(x), Fetching(x)' <=> Fetching(x)
  PROVE  CacheOK(x)'
BY SameKept DEF CacheOK, Same

LEMMA CurrentKept ==
  ASSUME NEW x \in Caches, Same(x), Current(x), latest' = latest
  PROVE  Current(x)'
BY SameKept DEF Current, Same

LEMMA MemqKept ==
  ASSUME memq' = memq
  PROVE  \A x : (Storing(x)' <=> Storing(x)) /\ (Fetching(x)' <=> Fetching(x))
BY DEF Storing, Fetching

LEMMA FwdKept ==
  ASSUME fwd' = fwd
  PROVE  \A x \in Caches : /\ \A t : Has(x, t)' <=> Has(x, t)
                           /\ \A r : For(x, r)' <=> For(x, r)
<1>1. \A x \in Caches : Msgs(x)' = Msgs(x)
  BY DEF Msgs
<1> QED BY <1>1 DEF Has, For

\* No request is forwarded for a cache that does not wait for the block.
LEMMA ForKept ==
  ASSUME ForOK, NEW c \in Caches, ~Waits(c), \A x \in Caches : x # c => Same(x),
         \A x \in Caches : \A r : For(x, r)' => For(x, r), memq' = memq
  PROVE  ForOK'
<1>1. \A x \in Caches : \A r : For(x, r)' => For(x, r) /\ r # c
  BY Zenon DEF ForOK
<1>2. \A r \in Caches : r # c => (Waits(r)' <=> Waits(r)) /\ resp'[r] = resp[r]
  BY SameKept, Zenon DEF Same
<1>3. ASSUME NEW x \in Caches, NEW r, For(x, r)'
      PROVE  r \in Caches /\ Waits(r)' /\ resp'[r] = None /\ ~Fetching(r)'
  BY <1>1, <1>2, <1>3, MemqKept, Zenon DEF ForOK
<1>4. ASSUME NEW x \in Caches, NEW y \in Caches, NEW r, For(x, r)', For(y, r)'
      PROVE  x = y
  BY <1>1, <1>4, Zenon DEF ForOK
<1> QED BY <1>3, <1>4, Zenon DEF ForOK

LEMMA BlankType == Blank \in Block
BY MIAssumption DEF Blank, Block

LEMMA WrittenType ==
  ASSUME NEW b \in Block, NEW w \in Words, NEW v \in Values
  PROVE  Written(b, w, v) \in Block
BY DEF Written, Block

-----------------------------------------------------------------------------
(* The cache controller.                                                   *)

LEMMA MissIInv ==
  ASSUME IInv, NEW c \in Caches, NEW s \in {"IS", "IM"}, Miss(c, s), system' = system
  PROVE  IInv'
<1>1. /\ cache[c].state = "I" /\ left[c] > 0
      /\ cache' = [cache EXCEPT ![c] = [state |-> s, data |-> Blank]]
      /\ req' = [req EXCEPT ![c] = [type |-> "GETX", data |-> Blank]]
      /\ left' = [left EXCEPT ![c] = left[c] - 1]
      /\ UNCHANGED <<fwd, resp, dir, mem, memq, dma, dmaReq, dmaResp, latest, error>>
  BY Zenon DEF Miss, Goto, dirVars, dmaVars
<1>2. /\ TypeOK /\ CacheOK(c) /\ ForOK /\ HoldsOK /\ DirOK /\ DataOK
      /\ \A x \in Caches : CacheOK(x)
  BY Zenon DEF IInv
<1>3. TypeOK'
  <2>1. cache' \in [Caches -> [state : CacheState, data : Block]]
    BY <1>1, <1>2, BlankType, Zenon DEF TypeOK, CacheState
  <2>2. req' \in [Caches -> {None} \cup Request]
    BY <1>1, <1>2, BlankType, Zenon DEF TypeOK, Request
  <2>3. left' \in [Caches \cup Dmas -> Nat]
    BY <1>1, <1>2 DEF TypeOK
  <2> QED BY <1>1, <1>2, <2>1, <2>2, <2>3, Zenon DEF TypeOK
<1>4. /\ cache'[c].state = s /\ req'[c] = [type |-> "GETX", data |-> Blank]
      /\ req'[c].type = "GETX" /\ req'[c] # None
      /\ \A x \in Caches : x # c => Same(x)
  BY <1>1, <1>2, MIAssumption, BlankType DEF TypeOK, Same, Request
<1>5. /\ ~Putx(c) /\ ~Storing(c) /\ ~Has(c, "WB_ACK") /\ ~Has(c, "WB_NACK")
      /\ ~Waits(c) /\ ~Keeps(c) /\ resp[c] = None /\ ~Fetching(c)
  BY <1>1, <1>2, Zenon DEF CacheOK, Waits, Keeps
<1>6. ~Putx(c)' /\ ~Waits(c)' /\ ~Keeps(c)' /\ ~Holds(c)'
  BY <1>1, <1>4, <1>5, Zenon DEF Putx, Waits, Keeps, Holds
<1>7. CacheOK(c)'
  BY <1>1, <1>2, <1>4, <1>5, <1>6, MemqKept, FwdKept, Zenon DEF CacheOK
<1>8. \A x \in Caches : CacheOK(x)'
  BY <1>1, <1>2, <1>4, <1>7, CacheKept, MemqKept, Zenon
<1>9. ForOK'
  BY <1>1, <1>2, <1>4, <1>5, ForKept, FwdKept, Zenon
<1>10. HoldsOK'
  BY <1>1, <1>2, <1>4, <1>6, SameKept, Zenon DEF HoldsOK
<1>11. DirOK'
  BY <1>1, <1>2, Zenon DEF DirOK
<1>12. DataOK'
  <2>1. Current(c)'
    BY <1>1, <1>5, <1>6, Zenon DEF Current
  <2> QED BY <1>1, <1>2, <1>4, <2>1, CurrentKept, Zenon DEF DataOK
<1> QED BY <1>3, <1>8, <1>9, <1>10, <1>11, <1>12, Zenon DEF IInv

LEMMA StoreHitIInv ==
  ASSUME IInv, NEW c \in Caches, NEW w \in Words, NEW v \in Values, StoreHit(c, w, v),
         system' = system
  PROVE  IInv'
<1>1. /\ cache[c].state = "M"
      /\ cache' = [cache EXCEPT ![c].data = Written(cache[c].data, w, v)]
      /\ latest' = Written(latest, w, v)
      /\ UNCHANGED <<req, fwd, resp, dir, mem, memq, dma, dmaReq, dmaResp, left, error>>
  BY Zenon DEF StoreHit, netVars, dirVars, dmaVars
<1>2. /\ TypeOK /\ CacheOK(c) /\ ForOK /\ HoldsOK /\ DirOK /\ DataOK
      /\ \A x \in Caches : CacheOK(x)
  BY Zenon DEF IInv
<1>3. TypeOK'
  <2>1. cache' \in [Caches -> [state : CacheState, data : Block]] /\ latest' \in Block
    BY <1>1, <1>2, WrittenType, Zenon DEF TypeOK
  <2> QED BY <1>1, <1>2, <2>1, Zenon DEF TypeOK
<1>4. /\ cache'[c].state = cache[c].state /\ cache'[c].data = Written(cache[c].data, w, v)
      /\ \A x \in Caches : x # c => Same(x)
  BY <1>1, <1>2, Zenon DEF TypeOK, Same
<1>5. /\ Keeps(c) /\ Holds(c) /\ ~Putx(c)
      /\ dir.state \in Owned /\ memq = None /\ cache[c].data = latest
      /\ \A x \in Caches : x # c => ~Keeps(x) /\ resp[x] = None
  BY <1>1, <1>2, Zenon DEF CacheOK, Keeps, Holds, HoldsOK, DirOK, DataOK, Current
<1>6. /\ Putx(c)' <=> Putx(c)
      /\ Waits(c)' <=> Waits(c)
      /\ Keeps(c)' <=> Keeps(c)
      /\ Holds(c)' <=> Holds(c)
  BY <1>1, <1>4, FwdKept, Zenon DEF Putx, Waits, Keeps, Holds
<1>7. CacheOK(c)'
  BY <1>1, <1>2, <1>4, <1>6, MemqKept, FwdKept, Zenon DEF CacheOK
<1>8. \A x \in Caches : CacheOK(x)'
  BY <1>1, <1>2, <1>4, <1>7, CacheKept, MemqKept, Zenon
<1>9. ForOK'
  BY <1>1, <1>2, <1>4, <1>6, SameKept, MemqKept, FwdKept, Zenon DEF ForOK
<1>10. HoldsOK'
  BY <1>1, <1>2, <1>4, <1>6, SameKept, Zenon DEF HoldsOK
<1>11. DirOK'
  BY <1>1, <1>2, Zenon DEF DirOK
<1>12. DataOK'
  <2>1. Current(c)'
    BY <1>1, <1>2, <1>4, <1>5, <1>6, Zenon DEF Current, Holds, CacheOK, Waits
  <2>2. \A x \in Caches : x # c => Current(x)'
    BY <1>1, <1>4, <1>5, SameKept, Zenon DEF Current
  <2> QED BY <1>1, <1>5, <2>1, <2>2, Zenon DEF DataOK
<1> QED BY <1>3, <1>8, <1>9, <1>10, <1>11, <1>12, Zenon DEF IInv

LEMMA DataIInv ==
  ASSUME IInv, NEW c \in Caches, NEW w \in Words, NEW v \in Values, Data(c, w, v),
         system' = system
  PROVE  IInv'
<1>1. /\ resp[c] # None /\ cache[c].state \in {"IS", "IM"}
      /\ resp' = [resp EXCEPT ![c] = None]
      /\ UNCHANGED <<req, fwd, dir, mem, memq, dma, dmaReq, dmaResp, left, error>>
  BY Zenon DEF Data, dirVars, dmaVars
<1>2. /\ TypeOK /\ CacheOK(c) /\ ForOK /\ HoldsOK /\ DirOK /\ DataOK
      /\ \A x \in Caches : CacheOK(x)
  BY Zenon DEF IInv
<1>3. resp[c] \in Block /\ resp[c] = latest
  BY <1>1, <1>2, Zenon DEF TypeOK, DataOK, Current
<1>4. PICK b \in Block : /\ cache' = [cache EXCEPT ![c] = [state |-> "M", data |-> b]]
                         /\ latest' = b
  <2>1. \/ /\ cache' = [cache EXCEPT ![c] = [state |-> "M", data |-> resp[c]]]
           /\ latest' = latest
        \/ /\ cache' = [cache EXCEPT ![c] = [state |-> "M", data |-> Written(resp[c], w, v)]]
           /\ latest' = Written(latest, w, v)
    BY Zenon DEF Data
  <2> QED BY <1>3, <2>1, WrittenType, Zenon
<1>5. TypeOK'
  <2>1. cache' \in [Caches -> [state : CacheState, data : Block]] /\ latest' \in Block
    BY <1>2, <1>4, Zenon DEF TypeOK, CacheState
  <2>2. resp' \in [Caches -> {None} \cup Block]
    BY <1>1, <1>2, Zenon DEF TypeOK
  <2> QED BY <1>1, <1>2, <2>1, <2>2, Zenon DEF TypeOK
<1>6. /\ cache'[c].state = "M" /\ cache'[c].data = b /\ resp'[c] = None
      /\ \A x \in Caches : x # c => Same(x)
  BY <1>1, <1>2, <1>4, Zenon DEF TypeOK, Same
<1>7. /\ Waits(c) /\ Holds(c) /\ ~Keeps(c) /\ ~Putx(c) /\ ~Fetching(c)
      /\ dir.state \in Owned /\ memq = None
      /\ \A x \in Caches : x # c => ~Keeps(x) /\ resp[x] = None
  BY <1>1, <1>2, Zenon DEF CacheOK, Keeps, Waits, Holds, HoldsOK, DirOK
<1>8. (Putx(c)' <=> Putx(c)) /\ ~Waits(c)' /\ Keeps(c)' /\ Holds(c)'
  BY <1>1, <1>6, Zenon DEF Putx, Waits, Keeps, Holds
<1>9. CacheOK(c)'
  BY <1>1, <1>2, <1>6, <1>7, <1>8, MemqKept, FwdKept, Zenon DEF CacheOK, Waits
<1>10. \A x \in Caches : CacheOK(x)'
  BY <1>1, <1>2, <1>6, <1>9, CacheKept, MemqKept, Zenon
<1>11. ForOK'
  <2>1. \A x \in Caches : ~For(x, c)
    BY <1>1, <1>2, Zenon DEF ForOK
  <2>2. \A r \in Caches : r # c => /\ Waits(r)' <=> Waits(r)
                                   /\ resp'[r] = resp[r]
    BY <1>6, SameKept, Zenon DEF Same
  <2> QED BY <1>1, <1>2, <2>1, <2>2, MemqKept, FwdKept, Zenon DEF ForOK
<1>12. HoldsOK'
  BY <1>1, <1>2, <1>6, <1>7, <1>8, SameKept, Zenon DEF HoldsOK
<1>13. DirOK'
  BY <1>1, <1>2, Zenon DEF DirOK
<1>14. DataOK'
  <2>1. Current(c)'
    BY <1>4, <1>6, <1>7, <1>8, Zenon DEF Current
  <2>2. \A x \in Caches : x # c => Current(x)'
    <3>1. \A x \in Caches : x # c => ~Keeps(x)' /\ resp'[x] = None
      BY <1>6, <1>7, SameKept, Zenon DEF Same
    <3> QED BY <3>1, Zenon DEF Current
  <2> QED BY <1>1, <1>7, <2>1, <2>2, Zenon DEF DataOK
<1> QED BY <1>5, <1>10, <1>11, <1>12, <1>13, <1>14, Zenon DEF IInv

\* A cache starts to write its block back.
LEMMA PutIInv ==
  ASSUME IInv, NEW c \in Caches, cache[c].state = "M", issuePUT(c),
         UNCHANGED <<system, fwd, resp, dirVars, dmaVars, left, latest, error>>
  PROVE  IInv'
<1>1. /\ cache' = [cache EXCEPT ![c] = [state |-> "MI", data |-> cache[c].data]]
      /\ req' = [req EXCEPT ![c] = [type |-> "PUTX", data |-> cache[c].data]]
      /\ UNCHANGED <<system, fwd, resp, dir, mem, memq, dma, dmaReq, dmaResp, left, latest, error>>
  BY Zenon DEF issuePUT, Goto, dirVars, dmaVars
<1>2. /\ TypeOK /\ CacheOK(c) /\ ForOK /\ HoldsOK /\ DirOK /\ DataOK
      /\ \A x \in Caches : CacheOK(x)
  BY Zenon DEF IInv
<1>3. cache[c].data \in Block
  BY <1>2, Zenon DEF TypeOK
<1>4. TypeOK'
  <2>1. cache' \in [Caches -> [state : CacheState, data : Block]]
    BY <1>1, <1>2, <1>3, Zenon DEF TypeOK, CacheState
  <2>2. req' \in [Caches -> {None} \cup Request]
    BY <1>1, <1>2, <1>3, Zenon DEF TypeOK, Request
  <2> QED BY <1>1, <1>2, <2>1, <2>2, Zenon DEF TypeOK
<1>5. /\ cache'[c].state = "MI" /\ cache'[c].data = cache[c].data
      /\ req'[c] = [type |-> "PUTX", data |-> cache[c].data]
      /\ req'[c].type = "PUTX" /\ req'[c].data = cache[c].data /\ req'[c] # None
      /\ \A x \in Caches : x # c => Same(x)
  <2> DEFINE p == [type |-> "PUTX", data |-> cache[c].data]
             n == [state |-> "MI", data |-> cache[c].data]
  <2>1. p.type = "PUTX" /\ p.data = cache[c].data /\ p \in Request
    BY <1>3 DEF Request
  <2>2. p # None
    BY <2>1, MIAssumption, Zenon
  <2>3. n.state = "MI" /\ n.data = cache[c].data
    BY Zenon
  <2> HIDE DEF p, n
  <2>4. cache'[c] = n /\ \A x \in Caches : x # c => cache'[x] = cache[x]
    BY <1>1, <1>2, Zenon DEF TypeOK, n
  <2>5. req'[c] = p /\ \A x \in Caches : x # c => req'[x] = req[x]
    BY <1>1, <1>2, Zenon DEF TypeOK, p
  <2>6. \A x \in Caches : x # c => Same(x)
    BY <1>1, <2>4, <2>5, Zenon DEF Same
  <2> QED BY <2>1, <2>2, <2>3, <2>4, <2>5, <2>6, Zenon DEF p
<1>6. /\ ~Putx(c) /\ ~Storing(c) /\ ~Has(c, "WB_ACK") /\ ~Has(c, "WB_NACK")
      /\ ~Waits(c) /\ Keeps(c) /\ Holds(c) /\ resp[c] = None /\ ~Fetching(c)
      /\ cache[c].data = latest
  BY <1>2, Zenon DEF CacheOK, Waits, Keeps, Holds, DataOK, Current
<1>7. Putx(c)' /\ ~Waits(c)' /\ Keeps(c)' /\ Holds(c)'
  BY <1>5, Zenon DEF Putx, Waits, Keeps, Holds
<1>8. CacheOK(c)'
  BY <1>1, <1>2, <1>5, <1>6, <1>7, MemqKept, FwdKept, Zenon DEF CacheOK
<1>9. \A x \in Caches : CacheOK(x)'
  BY <1>1, <1>2, <1>5, <1>8, CacheKept, MemqKept, Zenon
<1>10. ForOK'
  <2>1. /\ \A x \in Caches : \A r : For(x, r)' <=> For(x, r)
        /\ \A x : Fetching(x)' <=> Fetching(x)
    BY <1>1, MemqKept, FwdKept, Zenon
  <2>2. \A r \in Caches : Waits(r) => Waits(r)'
    BY <1>5, <1>6, SameKept, Zenon
  <2>3. \A x \in Caches : \A r : For(x, r)' => /\ r \in Caches /\ Waits(r)'
                                               /\ resp'[r] = None /\ ~Fetching(r)'
    BY <1>1, <1>2, <2>1, <2>2, Zenon DEF ForOK
  <2> QED BY <1>2, <2>1, <2>3, Zenon DEF ForOK
<1>11. HoldsOK'
  BY <1>1, <1>2, <1>5, <1>6, SameKept, Zenon DEF HoldsOK
<1>12. DirOK'
  BY <1>1, <1>2, Zenon DEF DirOK
<1>13. DataOK'
  <2>1. Current(c)'
    BY <1>1, <1>5, <1>6, <1>7, Zenon DEF Current
  <2> QED BY <1>1, <1>2, <1>5, <2>1, CurrentKept, Zenon DEF DataOK
<1> QED BY <1>4, <1>9, <1>10, <1>11, <1>12, <1>13, Zenon DEF IInv

LEMMA ReplacementIInv ==
  ASSUME IInv, NEW c \in Caches, Replacement(c), system' = system
  PROVE  IInv'
BY PutIInv, Zenon DEF Replacement

LEMMA InvIInv ==
  ASSUME IInv, NEW c \in Caches, NEW i \in 1..Len(fwd[c]), Inv(c, i), system' = system
  PROVE  IInv'
<1>1. CASE cache[c].state = "M" /\ issuePUT(c) /\ fwd' = fwd
  BY <1>1, PutIInv, Zenon DEF Inv
<1>2. CASE Pop(c, i) /\ UNCHANGED <<cache, req>>
  <2>1. /\ fwd[c][i].type = "INV"
        /\ UNCHANGED <<cache, req, resp, dir, mem, memq, dma, dmaReq, dmaResp, left, latest, error>>
    BY <1>2, Zenon DEF Inv, dirVars, dmaVars
  <2>2. /\ TypeOK /\ CacheOK(c) /\ ForOK /\ HoldsOK /\ DirOK /\ DataOK
        /\ \A x \in Caches : CacheOK(x)
    BY Zenon DEF IInv
  <2>3. /\ fwd' \in [Caches -> Seq(Forward)]
        /\ \A x \in Caches : x # c => fwd'[x] = fwd[x]
        /\ \A t : t # "INV" => (Has(c, t)' <=> Has(c, t))
        /\ \A x \in Caches : \A r : For(x, r)' <=> For(x, r)
        /\ \A T : Once(fwd[c], T) => Once(fwd'[c], T)
    <3>1. fwd \in [Caches -> Seq(Forward)]
      BY <2>2, Zenon DEF TypeOK
    <3> QED BY <1>2, <2>1, <3>1, PopFact, Zenon
  <2>4. TypeOK'
    BY <2>1, <2>2, <2>3, Zenon DEF TypeOK
  <2>5. \A x \in Caches : x # c => Same(x)
    BY <2>1, <2>3, Zenon DEF Same
  <2>6. /\ Putx(c)' <=> Putx(c)
        /\ Waits(c)' <=> Waits(c)
        /\ Keeps(c)' <=> Keeps(c)
        /\ Holds(c)' <=> Holds(c)
    BY <2>1, <2>3, Zenon DEF Putx, Waits, Keeps, Holds
  <2>7. CacheOK(c)'
    BY <2>1, <2>2, <2>3, <2>6, MemqKept, Zenon DEF CacheOK
  <2>8. \A x \in Caches : CacheOK(x)'
    BY <2>1, <2>2, <2>5, <2>7, CacheKept, MemqKept, Zenon
  <2>9. ForOK'
    BY <2>1, <2>2, <2>3, <2>5, <2>6, SameKept, MemqKept, Zenon DEF ForOK
  <2>10. HoldsOK'
    BY <2>1, <2>2, <2>5, <2>6, SameKept, Zenon DEF HoldsOK
  <2>11. DirOK'
    BY <2>1, <2>2, Zenon DEF DirOK
  <2>12. DataOK'
    <3>1. Current(c)'
      BY <2>1, <2>2, <2>6, Zenon DEF DataOK, Current
    <3> QED BY <2>1, <2>2, <2>5, <3>1, CurrentKept, Zenon DEF DataOK
  <2> QED BY <2>4, <2>8, <2>9, <2>10, <2>11, <2>12, Zenon DEF IInv
<1> QED BY <1>1, <1>2, Zenon DEF Inv

\* The owner hands its block to the cache the request is from, which waits for
\* it and is another one.
LEMMA FwdIInv ==
  ASSUME IInv, NEW c \in Caches, NEW i \in 1..Len(fwd[c]), Fwd_GETX(c, i), system' = system
  PROVE  IInv'
<1> DEFINE s == IF cache[c].state = "MI" THEN "II" ELSE "I"
<1>1. /\ fwd[c][i].type = "GETX" /\ cache[c].state \in {"M", "MI", "MII"}
      /\ cache' = [cache EXCEPT ![c] = [state |-> s, data |-> Blank]]
      /\ resp' = [resp EXCEPT ![fwd[c][i].requestor] = cache[c].data]
      /\ Pop(c, i)
      /\ UNCHANGED <<req, dir, mem, memq, dma, dmaReq, dmaResp, left, latest, error>>
  BY Zenon DEF Fwd_GETX, Goto, dirVars, dmaVars
<1>2. /\ TypeOK /\ CacheOK(c) /\ ForOK /\ HoldsOK /\ DirOK /\ DataOK
      /\ \A x \in Caches : CacheOK(x)
  BY Zenon DEF IInv
<1>3. Has(c, "GETX") /\ For(c, fwd[c][i].requestor)
  BY <1>1, Zenon DEF Has, For, Msgs
<1>r. PICK r \in Caches : r = fwd[c][i].requestor
  BY <1>2, <1>3, Zenon DEF ForOK
<1>4. /\ resp' = [resp EXCEPT ![r] = cache[c].data]
      /\ Waits(r) /\ resp[r] = None /\ ~Fetching(r) /\ r # c
      /\ \A x \in Caches : For(x, r) => x = c
  BY <1>1, <1>2, <1>3, <1>r, Zenon DEF ForOK, Waits
<1>5. /\ ~Waits(c) /\ Keeps(c) /\ Holds(c) /\ dir.owner # c /\ resp[c] = None /\ ~Fetching(c)
      /\ cache[c].data = latest /\ cache[c].data \in Block
      /\ \A x \in Caches : x # c => ~Holds(x)
  <2>1. ~Waits(c)
    BY <1>1, Zenon DEF Waits
  <2> QED BY <1>1, <1>2, <1>3, <2>1, Zenon DEF CacheOK, HoldsOK, Holds, DataOK, Current, TypeOK
<1>6. /\ fwd' \in [Caches -> Seq(Forward)]
      /\ \A x \in Caches : x # c => fwd'[x] = fwd[x]
      /\ \A t : t # "GETX" => (Has(c, t)' <=> Has(c, t))
      /\ ~Has(c, "GETX")'
      /\ \A x \in Caches : \A q : For(x, q)' => For(x, q)
      /\ \A T : Once(fwd[c], T) => Once(fwd'[c], T)
  <2>1. fwd \in [Caches -> Seq(Forward)] /\ Once(fwd[c], {"GETX"})
    BY <1>2, Zenon DEF TypeOK, CacheOK
  <2> QED BY <1>1, <2>1, PopFact, Zenon
<1>7. TypeOK'
  <2>1. cache' \in [Caches -> [state : CacheState, data : Block]]
    BY <1>1, <1>2, BlankType, Zenon DEF TypeOK, CacheState
  <2>2. resp' \in [Caches -> {None} \cup Block]
    BY <1>4, <1>2, <1>5, Zenon DEF TypeOK
  <2> QED BY <1>1, <1>2, <1>6, <2>1, <2>2, Zenon DEF TypeOK
<1>8. /\ cache'[c].state = s /\ resp'[c] = resp[c]
      /\ cache'[r] = cache[r] /\ resp'[r] = latest /\ resp'[r] # None /\ req'[r] = req[r]
      /\ fwd'[r] = fwd[r]
      /\ \A x \in Caches : x # c /\ x # r => Same(x)
  <2>1. latest # None
    BY <1>5, MIAssumption, Zenon
  <2> DEFINE new == [state |-> s, data |-> Blank]
  <2>2. new.state = s /\ cache' = [cache EXCEPT ![c] = new]
    BY <1>1, Zenon
  <2> HIDE DEF new
  <2>3. cache'[c] = new /\ \A x \in Caches : x # c => cache'[x] = cache[x]
    BY <1>2, <2>2, Zenon DEF TypeOK
  <2>4. resp'[r] = latest /\ \A x \in Caches : x # r => resp'[x] = resp[x]
    BY <1>2, <1>4, <1>5, Zenon DEF TypeOK
  <2> QED BY <1>1, <1>4, <1>6, <2>1, <2>2, <2>3, <2>4, Zenon DEF Same
<1>9. /\ Putx(c)' <=> Putx(c)
      /\ ~Waits(c)' /\ ~Keeps(c)' /\ ~Holds(c)'
  <2>1. s \in {"I", "II"} /\ s \notin {"IS", "IM", "M", "MII", "MI"}
    OBVIOUS
  <2>2. req'[c] = req[c]
    BY <1>1, Zenon
  <2> HIDE DEF s
  <2> QED BY <1>5, <1>8, <2>1, <2>2, Zenon DEF Putx, Waits, Keeps, Holds
<1>10. CacheOK(c)'
  <2>1. cache[c].state = "MI" => Putx(c) \/ Has(c, "WB_NACK")
    BY <1>5, Zenon DEF Keeps
  <2>2. Once(fwd'[c], {"GETX"}) /\ Once(fwd'[c], Answers)
    BY <1>2, <1>6, Zenon DEF CacheOK
  <2>3. (Storing(c)' <=> Storing(c)) /\ ~Fetching(c)'
    BY <1>1, <1>5, MemqKept, Zenon
  <2>4. CASE cache[c].state = "MI"
    <3>1. cache'[c].state = "II" /\ req'[c] = req[c] /\ dir'.owner = dir.owner
      BY <1>1, <1>8, <2>4, Zenon
    <3> QED BY <1>2, <1>5, <1>6, <1>8, <1>9, <2>1, <2>2, <2>3, <2>4, <3>1, Zenon DEF CacheOK
  <2>5. CASE cache[c].state \in {"M", "MII"}
    <3>1. cache'[c].state = "I" /\ req'[c] = req[c] /\ dir'.owner = dir.owner
      BY <1>1, <1>8, <2>5, Zenon
    <3> QED BY <1>2, <1>5, <1>6, <1>8, <1>9, <2>2, <2>3, <2>5, <3>1, Zenon DEF CacheOK
  <2> QED BY <1>1, <2>4, <2>5, Zenon
<1>11. /\ Putx(r)' <=> Putx(r)
       /\ \A t : Has(r, t)' <=> Has(r, t)
       /\ Waits(r)' <=> Waits(r)
       /\ Keeps(r)' <=> Keeps(r)
  <2>1. Msgs(r)' = Msgs(r)
    BY <1>8, Zenon DEF Msgs
  <2>2. \A t : Has(r, t)' <=> Has(r, t)
    BY <2>1, Zenon DEF Has
  <2> QED BY <1>8, <2>2, Zenon DEF Putx, Waits, Keeps
<1>12. CacheOK(r)'
  <2>1. CacheOK(r) /\ cache'[r].state = cache[r].state /\ req'[r] = req[r] /\ fwd'[r] = fwd[r]
        /\ (Storing(r)' <=> Storing(r)) /\ ~Fetching(r)' /\ dir' = dir /\ Waits(r)'
    BY <1>1, <1>2, <1>4, <1>8, <1>11, MemqKept, Zenon
  <2> QED BY <1>11, <2>1, Zenon DEF CacheOK
<1>13. \A x \in Caches : CacheOK(x)'
  BY <1>1, <1>2, <1>8, <1>10, <1>12, CacheKept, MemqKept, Zenon
<1>14. ForOK'
  <2>1. \A q : ~For(c, q)'
    BY <1>6, Zenon DEF For, Has
  <2>2. \A x \in Caches : \A q : For(x, q)' => x # c /\ For(x, q) /\ q # r /\ q # c
    <3>1. \A x \in Caches : \A q : For(x, q)' => x # c /\ For(x, q)
      BY <1>6, <2>1, Zenon
    <3>2. \A x \in Caches : ~For(x, c)
      BY <1>2, <1>5, Zenon DEF ForOK
    <3> QED BY <1>4, <3>1, <3>2, Zenon
  <2>3. \A q \in Caches : q # r /\ q # c => /\ Waits(q)' <=> Waits(q)
                                            /\ resp'[q] = resp[q]
    BY <1>8, SameKept, Zenon DEF Same
  <2>4. ASSUME NEW x \in Caches, NEW q, For(x, q)'
        PROVE  q \in Caches /\ Waits(q)' /\ resp'[q] = None /\ ~Fetching(q)'
    BY <1>1, <1>2, <2>2, <2>3, <2>4, MemqKept, Zenon DEF ForOK
  <2>5. ASSUME NEW x \in Caches, NEW y \in Caches, NEW q, For(x, q)', For(y, q)' PROVE x = y
    BY <1>2, <2>2, <2>5, Zenon DEF ForOK
  <2> QED BY <2>4, <2>5, Zenon DEF ForOK
<1>15. HoldsOK'
  <2>1. \A x \in Caches : x # c /\ x # r => ~Holds(x)'
    BY <1>5, <1>8, SameKept, Zenon
  <2> QED BY <1>1, <1>2, <1>5, <1>9, <2>1, Zenon DEF HoldsOK
<1>16. DirOK'
  BY <1>1, <1>2, Zenon DEF DirOK
<1>17. DataOK'
  <2>1. Current(c)'
    BY <1>5, <1>8, <1>9, Zenon DEF Current
  <2>2. Current(r)'
    <3>1. ~Keeps(r)'
      BY <1>4, <1>5, <1>11, Zenon DEF Holds
    <3> QED BY <1>1, <1>8, <3>1, Zenon DEF Current
  <2> QED BY <1>1, <1>2, <1>8, <2>1, <2>2, CurrentKept, Zenon DEF DataOK
<1> QED BY <1>7, <1>13, <1>14, <1>15, <1>16, <1>17, Zenon DEF IInv

LEMMA AckIInv ==
  ASSUME IInv, NEW c \in Caches, NEW i \in 1..Len(fwd[c]), Writeback_Ack(c, i), system' = system
  PROVE  IInv'
<1>1. /\ fwd[c][i].type = "WB_ACK" /\ cache[c].state = "MI" /\ Pop(c, i)
      /\ cache' = [cache EXCEPT ![c] = [state |-> "I", data |-> Blank]]
      /\ UNCHANGED <<req, resp, dir, mem, memq, dma, dmaReq, dmaResp, left, latest, error>>
  BY Zenon DEF Writeback_Ack, Goto, dirVars, dmaVars
<1>2. /\ TypeOK /\ CacheOK(c) /\ ForOK /\ HoldsOK /\ DirOK /\ DataOK
      /\ \A x \in Caches : CacheOK(x)
  BY Zenon DEF IInv
<1>3. Has(c, "WB_ACK")
  BY <1>1, Zenon DEF Has, Msgs
<1>4. /\ fwd' \in [Caches -> Seq(Forward)]
      /\ \A x \in Caches : x # c => fwd'[x] = fwd[x]
      /\ ~Has(c, "WB_ACK")' /\ ~Has(c, "WB_NACK")'
      /\ Has(c, "GETX")' <=> Has(c, "GETX")
      /\ \A x \in Caches : \A q : For(x, q)' <=> For(x, q)
      /\ \A T : Once(fwd[c], T) => Once(fwd'[c], T)
  <2>1. fwd \in [Caches -> Seq(Forward)] /\ Once(fwd[c], Answers)
    BY <1>2, Zenon DEF TypeOK, CacheOK
  <2>2. "WB_ACK" \in Answers /\ "WB_NACK" \in Answers
    BY Zenon DEF Answers
  <2>3. Popped(c, "WB_ACK")
    BY <1>1, <2>1, PoppedFact, Zenon
  <2> QED BY <2>1, <2>2, <2>3, Zenon DEF Popped
<1>5. TypeOK'
  <2>1. cache' \in [Caches -> [state : CacheState, data : Block]]
    BY <1>1, <1>2, BlankType, Zenon DEF TypeOK, CacheState
  <2> QED BY <1>1, <1>2, <1>4, <2>1, Zenon DEF TypeOK
<1>6. /\ cache'[c].state = "I"
      /\ \A x \in Caches : x # c => Same(x)
  BY <1>1, <1>2, <1>4, Zenon DEF TypeOK, Same
<1>7. /\ ~Putx(c) /\ ~Storing(c) /\ ~Has(c, "WB_NACK") /\ ~Waits(c) /\ ~Keeps(c)
      /\ ~Holds(c) /\ resp[c] = None
  BY <1>1, <1>2, <1>3, Zenon DEF CacheOK, Keeps, Waits, Holds
<1>8. ~Putx(c)' /\ ~Waits(c)' /\ ~Keeps(c)' /\ ~Holds(c)'
  BY <1>1, <1>6, <1>7, Zenon DEF Putx, Waits, Keeps, Holds
<1>9. CacheOK(c)'
  BY <1>1, <1>2, <1>4, <1>6, <1>7, <1>8, MemqKept, Zenon DEF CacheOK
<1>10. \A x \in Caches : CacheOK(x)'
  BY <1>1, <1>2, <1>6, <1>9, CacheKept, MemqKept, Zenon
<1>11. ForOK'
  BY <1>1, <1>2, <1>4, <1>6, <1>7, ForKept, Zenon
<1>12. HoldsOK'
  BY <1>1, <1>2, <1>6, <1>8, SameKept, Zenon DEF HoldsOK
<1>13. DirOK'
  BY <1>1, <1>2, Zenon DEF DirOK
<1>14. DataOK'
  <2>1. Current(c)'
    BY <1>1, <1>7, <1>8, Zenon DEF Current
  <2> QED BY <1>1, <1>2, <1>6, <2>1, CurrentKept, Zenon DEF DataOK
<1> QED BY <1>5, <1>10, <1>11, <1>12, <1>13, <1>14, Zenon DEF IInv

LEMMA NackIInv ==
  ASSUME IInv, NEW c \in Caches, NEW i \in 1..Len(fwd[c]), Writeback_Nack(c, i), system' = system
  PROVE  IInv'
<1>1. /\ fwd[c][i].type = "WB_NACK" /\ cache[c].state \in {"MI", "II"} /\ Pop(c, i)
      /\ UNCHANGED <<req, resp, dir, mem, memq, dma, dmaReq, dmaResp, left, latest, error>>
  BY Zenon DEF Writeback_Nack, dirVars, dmaVars
<1>2. /\ TypeOK /\ CacheOK(c) /\ ForOK /\ HoldsOK /\ DirOK /\ DataOK
      /\ \A x \in Caches : CacheOK(x)
  BY Zenon DEF IInv
<1>3. Has(c, "WB_NACK")
  BY <1>1, Zenon DEF Has, Msgs
<1>4. /\ fwd' \in [Caches -> Seq(Forward)]
      /\ \A x \in Caches : x # c => fwd'[x] = fwd[x]
      /\ ~Has(c, "WB_ACK")' /\ ~Has(c, "WB_NACK")'
      /\ Has(c, "GETX")' <=> Has(c, "GETX")
      /\ \A x \in Caches : \A q : For(x, q)' <=> For(x, q)
      /\ \A T : Once(fwd[c], T) => Once(fwd'[c], T)
  <2>1. fwd \in [Caches -> Seq(Forward)] /\ Once(fwd[c], Answers)
    BY <1>2, Zenon DEF TypeOK, CacheOK
  <2>2. "WB_ACK" \in Answers /\ "WB_NACK" \in Answers
    BY Zenon DEF Answers
  <2>3. Popped(c, "WB_NACK")
    BY <1>1, <2>1, PoppedFact, Zenon
  <2> QED BY <2>1, <2>2, <2>3, Zenon DEF Popped
<1>5. PICK s \in {"MII", "I"}, b \in Block :
         /\ cache' = [cache EXCEPT ![c] = [state |-> s, data |-> b]]
         /\ cache[c].state = "MI" => s = "MII" /\ b = cache[c].data
         /\ cache[c].state = "II" => s = "I"
  <2>1. CASE cache[c].state = "MI"
    <3>1. cache' = [cache EXCEPT ![c] = [state |-> "MII", data |-> cache[c].data]]
      BY <2>1, Zenon DEF Writeback_Nack, Goto
    <3>2. cache[c].data \in Block
      BY <1>2, Zenon DEF TypeOK
    <3> QED BY <2>1, <3>1, <3>2, Zenon
  <2>2. CASE cache[c].state = "II"
    <3>1. cache' = [cache EXCEPT ![c] = [state |-> "I", data |-> Blank]]
      BY <2>2, Zenon DEF Writeback_Nack, Goto
    <3> QED BY <2>2, <3>1, BlankType, Zenon
  <2> QED BY <1>1, <2>1, <2>2, Zenon
<1>6. TypeOK'
  <2>1. cache' \in [Caches -> [state : CacheState, data : Block]]
    BY <1>2, <1>5, Zenon DEF TypeOK, CacheState
  <2> QED BY <1>1, <1>2, <1>4, <2>1, Zenon DEF TypeOK
<1>7. /\ cache'[c].state = s /\ cache'[c].data = b
      /\ \A x \in Caches : x # c => Same(x)
  BY <1>1, <1>2, <1>4, <1>5, Zenon DEF TypeOK, Same
<1>8. /\ ~Putx(c) /\ ~Storing(c) /\ ~Waits(c) /\ (Keeps(c) <=> cache[c].state = "MI")
      /\ resp[c] = None /\ dir.owner # c /\ ~Fetching(c) /\ req[c] = None
  BY <1>1, <1>2, <1>3, Zenon DEF CacheOK, Keeps, Waits
<1>9. /\ ~Putx(c)' /\ ~Waits(c)' /\ (Keeps(c)' <=> cache[c].state = "MI")
      /\ Keeps(c)' <=> Keeps(c)
      /\ Holds(c)' <=> Holds(c)
  BY <1>1, <1>5, <1>7, <1>8, Zenon DEF Putx, Waits, Keeps, Holds
<1>10. CacheOK(c)'
  <2>1. Once(fwd'[c], {"GETX"}) /\ Once(fwd'[c], Answers)
    BY <1>2, <1>4, Zenon DEF CacheOK
  <2>2. ~Storing(c)' /\ ~Fetching(c)'
    BY <1>1, <1>8, MemqKept, Zenon
  <2>3. /\ cache'[c].state \in {"MII", "I"} /\ req'[c] = None /\ resp'[c] = None
        /\ dir'.owner # c /\ (Has(c, "GETX")' <=> Keeps(c)')
    BY <1>1, <1>2, <1>4, <1>7, <1>8, <1>9, Zenon DEF CacheOK
  <2> QED BY <1>4, <1>9, <2>1, <2>2, <2>3, Zenon DEF CacheOK
<1>11. \A x \in Caches : CacheOK(x)'
  BY <1>1, <1>2, <1>7, <1>10, CacheKept, MemqKept, Zenon
<1>12. ForOK'
  BY <1>1, <1>2, <1>4, <1>7, <1>8, ForKept, Zenon
<1>13. HoldsOK'
  BY <1>1, <1>2, <1>7, <1>9, SameKept, Zenon DEF HoldsOK
<1>14. DirOK'
  BY <1>1, <1>2, Zenon DEF DirOK
<1>15. DataOK'
  <2>1. Current(c)'
    BY <1>1, <1>2, <1>5, <1>7, <1>8, <1>9, Zenon DEF Current, DataOK
  <2> QED BY <1>1, <1>2, <1>7, <2>1, CurrentKept, Zenon DEF DataOK
<1> QED BY <1>6, <1>11, <1>12, <1>13, <1>14, <1>15, Zenon DEF IInv

-----------------------------------------------------------------------------
(* The directory.                                                          *)

LEMMA NobodyHolds ==
  ASSUME HoldsOK, dir.state \notin Owned
  PROVE  \A x \in Caches : ~Holds(x) /\ ~Keeps(x) /\ resp[x] = None
BY Zenon DEF HoldsOK, Holds

LEMMA GETXIInv ==
  ASSUME IInv, NEW c \in Caches, GETX(c), system' = system
  PROVE  IInv'
<1>1. /\ req[c] # None /\ req[c].type = "GETX" /\ req' = [req EXCEPT ![c] = None]
      /\ UNCHANGED <<cache, resp, mem, dma, dmaReq, dmaResp, left, latest, error>>
  BY Zenon DEF GETX, Taken, dmaVars
<1>2. /\ TypeOK /\ CacheOK(c) /\ ForOK /\ HoldsOK /\ DirOK /\ DataOK
      /\ \A x \in Caches : CacheOK(x)
  BY Zenon DEF IInv
<1>3. /\ cache[c].state \in {"IS", "IM"} /\ ~Putx(c) /\ ~Waits(c) /\ ~Keeps(c)
      /\ resp[c] = None /\ dir.owner # c /\ ~Has(c, "GETX") /\ ~Fetching(c)
      /\ ~Storing(c) /\ ~Has(c, "WB_ACK") /\ ~Has(c, "WB_NACK")
  <2>1. ~Putx(c) /\ ~Waits(c)
    BY <1>1, Zenon DEF Putx, Waits
  <2>2. cache[c].state \in {"IS", "IM"}
    BY <1>1, <1>2, <2>1, Zenon DEF CacheOK
  <2>3. ~Keeps(c)
    BY <2>1, <2>2, Zenon DEF Keeps
  <2> QED BY <1>2, <2>1, <2>2, <2>3, Zenon DEF CacheOK
<1>4. req' \in [Caches -> {None} \cup Request] /\ req'[c] = None
  BY <1>1, <1>2, Zenon DEF TypeOK
<1>5. \A x \in Caches : x # c => req'[x] = req[x]
  BY <1>1, <1>2, Zenon DEF TypeOK
<1>6. ~Putx(c)' /\ Waits(c)'
  BY <1>1, <1>3, <1>4, Zenon DEF Putx, Waits
<1>7. CASE dir.state = "I" /\ fwd' = fwd
  <2>1. /\ dir' = [dir EXCEPT !.state = "IM", !.owner = c]
        /\ memq' = [type |-> "READ", data |-> mem, requestor |-> c]
    BY <1>7, Zenon DEF GETX, Fetch
  <2>2. /\ dir'.state = "IM" /\ dir'.owner = c /\ dir.owner = None /\ memq = None
        /\ mem \in Block /\ mem = latest
    BY <1>2, <1>7, <2>1, Zenon DEF TypeOK, DirOK, DataOK, Owned
  <2>3. memq' \in MemRequest
    BY <2>1, <2>2, Zenon DEF MemRequest
  <2>4. memq'.type = "READ" /\ memq'.requestor = c /\ memq'.data = latest /\ memq' # None
    BY <2>1, <2>2, <2>3, MIAssumption, Zenon
  <2>5. TypeOK'
    <3>1. dir' \in [state : DirState, owner : Caches \cup {None},
                    requestor : Dmas \cup {None}, tbe : {None} \cup DmaMsg]
      BY <1>2, <2>1, Zenon DEF TypeOK, DirState
    <3> QED BY <1>1, <1>2, <1>4, <1>7, <2>3, <3>1, Zenon DEF TypeOK
  <2>6. \A x \in Caches : x # c => Same(x)
    BY <1>1, <1>5, <1>7, Zenon DEF Same
  <2>7. /\ Fetching(c)' /\ \A x : ~Storing(x)' /\ ~Storing(x)
        /\ \A x : x # c => ~Fetching(x)' /\ ~Fetching(x)
    BY <2>2, <2>4, Zenon DEF Fetching, Storing
  <2>8. ~Keeps(c)' /\ ~Holds(c)'
    BY <1>1, <1>3, <1>6, <1>7, Zenon DEF Keeps, Holds
  <2>9. CacheOK(c)'
    BY <1>1, <1>2, <1>3, <1>4, <1>6, <1>7, <2>2, <2>7, <2>8, FwdKept, Zenon DEF CacheOK
  <2>10. \A x \in Caches : CacheOK(x)'
    BY <1>2, <2>2, <2>6, <2>7, <2>9, MIAssumption, CacheKept, Zenon
  <2>11. ForOK'
    <3>1. \A x \in Caches : \A r : For(x, r)' => For(x, r) /\ r # c
      BY <1>2, <1>3, <1>7, FwdKept, Zenon DEF ForOK
    <3>2. \A r \in Caches : r # c => (Waits(r)' <=> Waits(r)) /\ resp'[r] = resp[r]
      BY <2>6, SameKept, Zenon DEF Same
    <3>3. ASSUME NEW x \in Caches, NEW r, For(x, r)'
          PROVE  r \in Caches /\ Waits(r)' /\ resp'[r] = None /\ ~Fetching(r)'
      BY <1>2, <2>7, <3>1, <3>2, <3>3, Zenon DEF ForOK
    <3>4. ASSUME NEW x \in Caches, NEW y \in Caches, NEW r, For(x, r)', For(y, r)'
          PROVE  x = y
      BY <1>2, <3>1, <3>4, Zenon DEF ForOK
    <3> QED BY <3>3, <3>4, Zenon DEF ForOK
  <2>12. \A x \in Caches : ~Holds(x) /\ ~Keeps(x) /\ resp[x] = None
    BY <1>2, <1>7, NobodyHolds, Zenon DEF Owned
  <2>13. \A x \in Caches : ~Holds(x)'
    BY <2>6, <2>8, <2>12, SameKept, Zenon
  <2>14. HoldsOK'
    BY <2>13, Zenon DEF HoldsOK
  <2>15. DirOK'
    BY <2>2, <2>4, MIAssumption, Zenon DEF DirOK, Owned
  <2>16. DataOK'
    <3>1. \A x \in Caches : Current(x)'
      BY <2>13, Zenon DEF Current, Holds
    <3> QED BY <1>1, <2>2, <2>4, <3>1, Zenon DEF DataOK
  <2> QED BY <2>5, <2>10, <2>11, <2>14, <2>15, <2>16, Zenon DEF IInv
<1>8. CASE dir.state = "M" /\ memq' = memq
  <2>1. dir' = [dir EXCEPT !.owner = c] /\ Send(dir.owner, "GETX", c)
    BY <1>8, Zenon DEF GETX
  <2>2. PICK o \in Caches : o = dir.owner
    BY <1>2, <1>8, Zenon DEF TypeOK, DirOK, Owned
  <2>3. /\ dir'.state = dir.state /\ dir'.owner = c /\ dir'.tbe = dir.tbe
        /\ o # c /\ memq = None
    BY <1>2, <1>3, <1>8, <2>1, <2>2, Zenon DEF TypeOK, DirOK, Owned
  <2>4. /\ fwd' \in [Caches -> Seq(Forward)]
        /\ \A x \in Caches : x # o => fwd'[x] = fwd[x]
        /\ \A x \in Caches : \A t : Has(x, t)' <=> Has(x, t) \/ (x = o /\ t = "GETX")
        /\ \A x \in Caches : \A r : For(x, r)' <=> For(x, r) \/ (x = o /\ r = c)
        /\ Once(fwd'[o], {"GETX"}) /\ Once(fwd'[o], Answers)
    <3>1. /\ fwd \in [Caches -> Seq(Forward)] /\ ~Has(o, "GETX")
          /\ Once(fwd[o], {"GETX"}) /\ Once(fwd[o], Answers)
      BY <1>2, <2>2, Zenon DEF TypeOK, CacheOK
    <3>2. "GETX" \notin Answers /\ "GETX" \in {"GETX", "INV", "WB_ACK", "WB_NACK"}
      BY Zenon DEF Answers
    <3>3. Send(o, "GETX", c) /\ c \in Caches \cup {None}
      BY <2>1, <2>2, Zenon
    <3>4. /\ fwd' \in [Caches -> Seq(Forward)]
          /\ \A x \in Caches : x # o => fwd'[x] = fwd[x]
          /\ \A x \in Caches : \A t : Has(x, t)' <=> Has(x, t) \/ (x = o /\ t = "GETX")
          /\ \A x \in Caches : \A r : For(x, r)' <=> For(x, r) \/ (x = o /\ "GETX" = "GETX" /\ r = c)
          /\ \A T : Once(fwd[o], T) /\ ("GETX" \in T => \A y \in T : ~Has(o, y)) => Once(fwd'[o], T)
      <4>1. Sent(o, "GETX", c)
        BY <3>1, <3>2, <3>3, SentFact, Zenon
      <4> QED BY <4>1, Zenon DEF Sent
    <3>5. Once(fwd'[o], {"GETX"})
      <4>1. \A y \in {"GETX"} : ~Has(o, y)
        BY <3>1, Zenon
      <4> QED BY <3>1, <3>4, <4>1, Zenon
    <3>6. Once(fwd'[o], Answers)
      BY <3>1, <3>2, <3>4, Zenon
    <3>7. \A x \in Caches : \A r : For(x, r)' <=> For(x, r) \/ (x = o /\ r = c)
      BY <3>4
    <3>8. /\ fwd' \in [Caches -> Seq(Forward)]
          /\ \A x \in Caches : x # o => fwd'[x] = fwd[x]
          /\ \A x \in Caches : \A t : Has(x, t)' <=> Has(x, t) \/ (x = o /\ t = "GETX")
      BY <3>4, Zenon
    <3> QED BY <3>5, <3>6, <3>7, <3>8, Zenon
  <2>5. TypeOK'
    <3>1. dir' \in [state : DirState, owner : Caches \cup {None},
                    requestor : Dmas \cup {None}, tbe : {None} \cup DmaMsg]
      BY <1>2, <2>1, Zenon DEF TypeOK
    <3> QED BY <1>1, <1>2, <1>4, <1>8, <2>4, <3>1, Zenon DEF TypeOK
  <2>6. \A x \in Caches : x # c /\ x # o => Same(x)
    BY <1>1, <1>5, <2>4, Zenon DEF Same
  <2>7. ~Keeps(c)' /\ ~Holds(c)' /\ ~Has(c, "GETX")'
    BY <1>1, <1>3, <1>6, <2>3, <2>4, Zenon DEF Keeps, Holds
  <2>8. CacheOK(c)'
    BY <1>1, <1>2, <1>3, <1>4, <1>6, <1>8, <2>3, <2>4, <2>7, MemqKept, Zenon DEF CacheOK
  <2>9. /\ Putx(o)' <=> Putx(o)
        /\ Waits(o)' <=> Waits(o)
        /\ Keeps(o)' <=> Keeps(o)
        /\ Holds(o)' <=> Holds(o)
    <3>1. cache'[o] = cache[o] /\ req'[o] = req[o] /\ resp'[o] = resp[o]
      BY <1>1, <1>5, <2>3, Zenon
    <3>2. Has(o, "WB_NACK")' <=> Has(o, "WB_NACK")
      BY <2>4
    <3>3. (Putx(o)' <=> Putx(o)) /\ (Waits(o)' <=> Waits(o))
      BY <3>1, Zenon DEF Putx, Waits
    <3>4. Keeps(o)' <=> Keeps(o)
      BY <3>1, <3>2, <3>3, Zenon DEF Keeps
    <3> QED BY <3>1, <3>3, <3>4, Zenon DEF Holds
  <2>10. CacheOK(o)'
    <3>1. cache'[o] = cache[o] /\ req'[o] = req[o] /\ resp'[o] = resp[o]
      BY <1>1, <1>5, <2>3, Zenon
    <3>2. /\ Has(o, "GETX")' /\ dir.owner = o /\ dir'.owner # o
          /\ Has(o, "WB_ACK")' <=> Has(o, "WB_ACK")
          /\ Has(o, "WB_NACK")' <=> Has(o, "WB_NACK")
      BY <2>2, <2>3, <2>4
    <3>3. CacheOK(o) /\ (Storing(o)' <=> Storing(o)) /\ (Fetching(o)' <=> Fetching(o))
      BY <1>2, <1>8, MemqKept, Zenon
    <3> QED BY <2>4, <2>9, <3>1, <3>2, <3>3, Zenon DEF CacheOK
  <2>11. \A x \in Caches : CacheOK(x)'
    BY <1>2, <1>8, <2>2, <2>3, <2>6, <2>8, <2>10, CacheKept, MemqKept, Zenon
  <2>12. \A x \in Caches : Holds(x)' <=> Holds(x)
    BY <1>3, <2>6, <2>7, <2>9, SameKept, Zenon DEF Holds
  <2>13. ForOK'
    <3>1. \A x \in Caches : \A r : For(x, r) => r # c
      BY <1>2, <1>3, Zenon DEF ForOK
    <3>2. \A r \in Caches : Waits(r) => Waits(r)'
      BY <1>6, <2>6, <2>9, SameKept, Zenon
    <3>3. ~Fetching(c)' /\ resp'[c] = None
      BY <1>1, <1>3, <1>8, MemqKept, Zenon
    <3>4. ASSUME NEW x \in Caches, NEW r, For(x, r)'
          PROVE  r \in Caches /\ Waits(r)' /\ resp'[r] = None /\ ~Fetching(r)'
      <4>1. (x = o /\ r = c) \/ For(x, r)
        BY <2>4, <3>4, Zenon
      <4>2. CASE r = c
        BY <1>6, <3>3, <4>2, Zenon
      <4>3. CASE For(x, r)
        BY <1>1, <1>2, <1>8, <3>2, <4>3, MemqKept, Zenon DEF ForOK
      <4> QED BY <4>1, <4>2, <4>3, Zenon
    <3>5. ASSUME NEW x \in Caches, NEW y \in Caches, NEW r, For(x, r)', For(y, r)'
          PROVE  x = y
      BY <1>2, <2>4, <3>1, <3>5, Zenon DEF ForOK
    <3> QED BY <3>4, <3>5, Zenon DEF ForOK
  <2>14. HoldsOK'
    BY <1>2, <2>3, <2>12, Zenon DEF HoldsOK
  <2>15. DirOK'
    BY <1>2, <1>8, <2>3, MIAssumption, Zenon DEF DirOK, Owned
  <2>16. DataOK'
    <3>1. Current(c)'
      BY <1>1, <1>3, <2>7, Zenon DEF Current
    <3>2. Current(o)'
      BY <1>1, <1>2, <1>5, <2>3, <2>9, Zenon DEF Current, DataOK
    <3> QED BY <1>1, <1>2, <1>8, <2>3, <2>6, <3>1, <3>2, CurrentKept, Zenon DEF DataOK
  <2> QED BY <2>5, <2>11, <2>13, <2>14, <2>15, <2>16, Zenon DEF IInv
<1> QED BY <1>7, <1>8, Zenon DEF GETX

\* The owner's writeback: nobody has the block until memory has stored it.
LEMMA PUTXIInv ==
  ASSUME IInv, NEW c \in Caches, PUTX(c), system' = system
  PROVE  IInv'
<1>1. /\ req[c] # None /\ req[c].type = "PUTX" /\ dir.owner = c
      /\ req' = [req EXCEPT ![c] = None] /\ dir.state \in DOMAIN AfterPUTX
      /\ dir' = [dir EXCEPT !.state = AfterPUTX[dir.state], !.owner = None]
      /\ mem' = req[c].data
      /\ memq' = [type |-> "WB", data |-> Blank, requestor |-> c]
      /\ UNCHANGED <<cache, fwd, resp, dma, dmaReq, left, latest, error>>
  BY Zenon DEF PUTX, Taken
<1>2. /\ TypeOK /\ CacheOK(c) /\ ForOK /\ HoldsOK /\ DirOK /\ DataOK
      /\ \A x \in Caches : CacheOK(x)
  BY Zenon DEF IInv
<1>3. /\ dir.state \in Owned
      /\ dir.state = "M" => AfterPUTX[dir.state] = "MI"
      /\ dir.state = "M_DRD" => AfterPUTX[dir.state] = "M_DRDI"
      /\ dir.state = "M_DWR" => AfterPUTX[dir.state] = "M_DWRI"
  BY <1>1 DEF AfterPUTX, Owned
<1>4. /\ Putx(c) /\ ~Waits(c) /\ Keeps(c) /\ cache[c].state = "MI"
      /\ ~Has(c, "GETX") /\ ~Has(c, "WB_ACK") /\ ~Has(c, "WB_NACK") /\ memq = None
      /\ Holds(c) /\ resp[c] = None
  <2>1. Putx(c) /\ ~Waits(c)
    BY <1>1, Zenon DEF Putx, Waits
  <2>2. Keeps(c) /\ ~Has(c, "WB_NACK") /\ ~Has(c, "WB_ACK") /\ ~Has(c, "GETX") /\ resp[c] = None
    BY <1>1, <1>2, <2>1, Zenon DEF CacheOK
  <2>3. cache[c].state = "MI"
    BY <1>2, <2>1, <2>2, Zenon DEF CacheOK, Keeps
  <2> QED BY <1>2, <1>3, <2>1, <2>2, <2>3, Zenon DEF DirOK, Holds, Owned
<1>5. req[c].data \in Block /\ req[c].data = latest /\ req[c] \in Request
  <2>1. req[c] \in Request
    BY <1>1, <1>2, Zenon DEF TypeOK
  <2>2. req[c].data \in Block
    BY <2>1, Zenon DEF Request
  <2> QED BY <1>2, <1>4, <2>1, <2>2, Zenon DEF DataOK, Current
<1>6. /\ dir'.state \in {"MI", "M_DRDI", "M_DWRI"} /\ dir'.owner = None
      /\ dir'.tbe = dir.tbe /\ (dir'.state = "M_DWRI" => dir.state = "M_DWR")
      /\ dir' \in [state : DirState, owner : Caches \cup {None},
                   requestor : Dmas \cup {None}, tbe : {None} \cup DmaMsg]
  BY <1>1, <1>2, <1>3, Zenon DEF TypeOK, DirState, Owned
<1>7. memq' \in MemRequest
  BY <1>1, BlankType, Zenon DEF MemRequest
<1>8. memq' # None /\ memq'.type = "WB" /\ memq'.requestor = c
  BY <1>1, <1>7, MIAssumption, Zenon
<1>9. /\ req' \in [Caches -> {None} \cup Request] /\ req'[c] = None
      /\ \A x \in Caches : x # c => Same(x)
  BY <1>1, <1>2, Zenon DEF TypeOK, Same
<1>10. TypeOK'
  <2>1. dmaResp' \in [Dmas -> {None} \cup DmaAnswer]
    <3>1. [type |-> "DATA", data |-> req[c].data] \in DmaAnswer
      BY <1>5, Zenon DEF DmaAnswer
    <3>2. \/ dmaResp' = [dmaResp EXCEPT ![dir.requestor] = [type |-> "DATA", data |-> req[c].data]]
          \/ dmaResp' = dmaResp
      BY Zenon DEF PUTX
    <3> QED BY <1>2, <3>1, <3>2, Zenon DEF TypeOK
  <2> QED BY <1>1, <1>2, <1>5, <1>6, <1>7, <1>9, <2>1, Zenon DEF TypeOK
<1>11. /\ ~Putx(c)' /\ ~Waits(c)' /\ ~Keeps(c)' /\ ~Holds(c)'
  <2>1. ~Has(c, "WB_NACK")'
    BY <1>1, <1>4, FwdKept, Zenon
  <2>2. cache'[c].state = "MI" /\ resp'[c] = None
    BY <1>1, <1>4, Zenon
  <2> QED BY <1>9, <2>1, <2>2 DEF Putx, Waits, Keeps, Holds
<1>12. /\ Storing(c)' /\ \A x : ~Fetching(x)' /\ ~Fetching(x) /\ ~Storing(x)
       /\ \A x : x # c => ~Storing(x)'
  BY <1>4, <1>8, Zenon DEF Storing, Fetching
<1>13. CacheOK(c)'
  <2>1. ~Has(c, "GETX")' /\ ~Has(c, "WB_ACK")' /\ ~Has(c, "WB_NACK")'
    BY <1>1, <1>4, FwdKept, Zenon
  <2>2. /\ cache'[c].state = "MI" /\ req'[c] = None /\ resp'[c] = None /\ dir'.owner # c
        /\ Once(fwd'[c], {"GETX"}) /\ Once(fwd'[c], Answers)
    BY <1>1, <1>2, <1>4, <1>6, <1>9, MIAssumption, Zenon DEF CacheOK
  <2> QED BY <1>11, <1>12, <2>1, <2>2, Zenon DEF CacheOK
<1>14. \A x \in Caches : CacheOK(x)'
  BY <1>1, <1>2, <1>6, <1>9, <1>12, <1>13, MIAssumption, CacheKept, Zenon
<1>15. ForOK'
  <2>1. \A x \in Caches : \A r : For(x, r)' => For(x, r) /\ r # c
    BY <1>1, <1>2, <1>4, FwdKept, Zenon DEF ForOK
  <2>2. \A r \in Caches : r # c => (Waits(r)' <=> Waits(r)) /\ resp'[r] = resp[r]
    BY <1>9, SameKept, Zenon DEF Same
  <2>3. ASSUME NEW x \in Caches, NEW r, For(x, r)'
        PROVE  r \in Caches /\ Waits(r)' /\ resp'[r] = None /\ ~Fetching(r)'
    BY <1>2, <1>12, <2>1, <2>2, <2>3, Zenon DEF ForOK
  <2>4. ASSUME NEW x \in Caches, NEW y \in Caches, NEW r, For(x, r)', For(y, r)'
        PROVE  x = y
    BY <1>2, <2>1, <2>4, Zenon DEF ForOK
  <2> QED BY <2>3, <2>4, Zenon DEF ForOK
<1>16. \A x \in Caches : ~Holds(x)'
  <2>1. \A x \in Caches : x # c => ~Holds(x)
    BY <1>2, <1>4, Zenon DEF HoldsOK
  <2> QED BY <1>9, <1>11, <2>1, SameKept, Zenon
<1>17. HoldsOK'
  BY <1>16, Zenon DEF HoldsOK
<1>18. DirOK'
  <2>1. dir'.state = "M_DWRI" => dir'.tbe \in DmaWrite
    BY <1>2, <1>6, Zenon DEF DirOK
  <2> QED BY <1>6, <1>8, <2>1, MIAssumption, Zenon DEF DirOK, Owned
<1>19. DataOK'
  <2>1. \A x \in Caches : Current(x)'
    BY <1>16, Zenon DEF Current, Holds
  <2> QED BY <1>1, <1>5, <1>8, <2>1, Zenon DEF DataOK
<1> QED BY <1>10, <1>14, <1>15, <1>17, <1>18, <1>19, Zenon DEF IInv

LEMMA NotOwnerIInv ==
  ASSUME IInv, NEW c \in Caches, PUTX_NotOwner(c), system' = system
  PROVE  IInv'
<1>1. /\ req[c] # None /\ req[c].type = "PUTX" /\ dir.owner # c
      /\ req' = [req EXCEPT ![c] = None] /\ Send(c, "WB_NACK", c)
      /\ UNCHANGED <<cache, resp, dir, mem, memq, dma, dmaReq, dmaResp, left, latest, error>>
  BY Zenon DEF PUTX_NotOwner, Taken, dirVars, dmaVars
<1>2. /\ TypeOK /\ CacheOK(c) /\ ForOK /\ HoldsOK /\ DirOK /\ DataOK
      /\ \A x \in Caches : CacheOK(x)
  BY Zenon DEF IInv
<1>3. /\ Putx(c) /\ ~Waits(c) /\ cache[c].state \in {"MI", "II"} /\ resp[c] = None
      /\ ~Has(c, "WB_ACK") /\ ~Has(c, "WB_NACK") /\ ~Storing(c) /\ ~Fetching(c)
      /\ Has(c, "GETX") <=> Keeps(c)
      /\ Keeps(c) <=> cache[c].state = "MI"
  <2>1. Putx(c) /\ ~Waits(c)
    BY <1>1, Zenon DEF Putx, Waits
  <2>2. cache[c].state \in {"MI", "II"}
    BY <1>2, <2>1, Zenon DEF CacheOK
  <2>3. Keeps(c) <=> cache[c].state = "MI"
    BY <2>1, <2>2, Zenon DEF Keeps
  <2> QED BY <1>1, <1>2, <2>1, <2>2, <2>3, Zenon DEF CacheOK
<1>4. /\ fwd' \in [Caches -> Seq(Forward)]
      /\ \A x \in Caches : x # c => fwd'[x] = fwd[x]
      /\ \A x \in Caches : \A t : Has(x, t)' <=> Has(x, t) \/ (x = c /\ t = "WB_NACK")
      /\ \A x \in Caches : \A r : For(x, r)' <=> For(x, r) \/ (x = c /\ "WB_NACK" = "GETX" /\ r = c)
      /\ Once(fwd'[c], {"GETX"}) /\ Once(fwd'[c], Answers)
  <2>1. /\ fwd \in [Caches -> Seq(Forward)]
        /\ Once(fwd[c], {"GETX"}) /\ Once(fwd[c], Answers)
    BY <1>2, Zenon DEF TypeOK, CacheOK
  <2>2. /\ "WB_NACK" \notin {"GETX"} /\ \A y \in Answers : ~Has(c, y)
        /\ "WB_NACK" \in {"GETX", "INV", "WB_ACK", "WB_NACK"} /\ c \in Caches \cup {None}
    BY <1>3, Zenon DEF Answers
  <2>3. \A T : Once(fwd[c], T) /\ ("WB_NACK" \in T => \A y \in T : ~Has(c, y)) => Once(fwd'[c], T)
    BY <1>1, <2>1, <2>2, SendFact, Zenon
  <2>4. Once(fwd'[c], {"GETX"}) /\ Once(fwd'[c], Answers)
    BY <2>1, <2>2, <2>3, Zenon
  <2> QED BY <1>1, <2>1, <2>2, <2>4, SendFact, Zenon
<1>5. /\ req' \in [Caches -> {None} \cup Request] /\ req'[c] = None
      /\ \A x \in Caches : x # c => Same(x)
  BY <1>1, <1>2, <1>4, Zenon DEF TypeOK, Same
<1>6. TypeOK'
  BY <1>1, <1>2, <1>4, <1>5, Zenon DEF TypeOK
<1>7. /\ Has(c, "WB_NACK")' /\ ~Has(c, "WB_ACK")' /\ (Has(c, "GETX")' <=> Has(c, "GETX"))
      /\ \A x \in Caches : \A r : For(x, r)' => For(x, r)
  BY <1>3, <1>4
<1>8. ~Putx(c)' /\ ~Waits(c)' /\ (Keeps(c)' <=> Keeps(c)) /\ (Holds(c)' <=> Holds(c))
  <2>1. cache'[c] = cache[c] /\ resp'[c] = resp[c]
    BY <1>1, Zenon
  <2>2. ~Putx(c)' /\ ~Waits(c)'
    BY <1>3, <1>5, <2>1, Zenon DEF Putx, Waits
  <2>3. Keeps(c)' <=> Keeps(c)
    BY <1>3, <1>7, <2>1, <2>2, Zenon DEF Keeps
  <2> QED BY <2>1, <2>2, <2>3, Zenon DEF Holds
<1>9. CacheOK(c)'
  <2>1. /\ cache'[c].state \in {"MI", "II"} /\ req'[c] = None /\ resp'[c] = None
        /\ dir'.owner # c /\ ~Storing(c)' /\ ~Fetching(c)'
    BY <1>1, <1>3, <1>5, MemqKept, Zenon
  <2> QED BY <1>3, <1>4, <1>7, <1>8, <2>1, Zenon DEF CacheOK
<1>10. \A x \in Caches : CacheOK(x)'
  BY <1>1, <1>2, <1>5, <1>9, CacheKept, MemqKept, Zenon
<1>11. ForOK'
  BY <1>1, <1>2, <1>3, <1>5, <1>7, ForKept, Zenon
<1>12. HoldsOK'
  BY <1>1, <1>2, <1>5, <1>8, SameKept, Zenon DEF HoldsOK
<1>13. DirOK'
  BY <1>1, <1>2, Zenon DEF DirOK
<1>14. DataOK'
  <2>1. Current(c)'
    BY <1>1, <1>2, <1>8, Zenon DEF Current, DataOK
  <2> QED BY <1>1, <1>2, <1>5, <2>1, CurrentKept, Zenon DEF DataOK
<1> QED BY <1>6, <1>10, <1>11, <1>12, <1>13, <1>14, Zenon DEF IInv

\* No cache is touched, and nothing at the memory controller is for one.
LEMMA CachesKept ==
  ASSUME IInv, \A x \in Caches : Same(x), \A x \in Caches : dir'.owner = x <=> dir.owner = x,
         \A x \in Caches : /\ Storing(x)' <=> Storing(x)
                           /\ Fetching(x)' <=> Fetching(x)
  PROVE  /\ \A x \in Caches : CacheOK(x)'
         /\ ForOK'
         /\ \A x \in Caches : Holds(x)' <=> Holds(x)
         /\ \A x \in Caches : resp'[x] = resp[x]
<1>1. \A x \in Caches : CacheOK(x)'
  BY CacheKept, Zenon DEF IInv
<1>2. ForOK'
  <2>1. \A x \in Caches : \A r : For(x, r)' <=> For(x, r)
    BY SameKept, Zenon
  <2>2. \A r \in Caches : (Waits(r)' <=> Waits(r)) /\ resp'[r] = resp[r]
    BY SameKept, Zenon DEF Same
  <2>3. ASSUME NEW x \in Caches, NEW r, For(x, r)'
        PROVE  r \in Caches /\ Waits(r)' /\ resp'[r] = None /\ ~Fetching(r)'
    BY <2>1, <2>2, <2>3, Zenon DEF IInv, ForOK
  <2>4. ASSUME NEW x \in Caches, NEW y \in Caches, NEW r, For(x, r)', For(y, r)'
        PROVE  x = y
    BY <2>1, <2>4, Zenon DEF IInv, ForOK
  <2> QED BY <2>3, <2>4, Zenon DEF ForOK
<1>3. \A x \in Caches : (Holds(x)' <=> Holds(x)) /\ resp'[x] = resp[x]
  BY SameKept, Zenon DEF Same
<1> QED BY <1>1, <1>2, <1>3, Zenon

LEMMA MemoryDataIInv ==
  ASSUME IInv, Memory_Data, system' = system
  PROVE  IInv'
<1>1. /\ memq # None /\ memq.type = "READ" /\ memq' = None
      /\ UNCHANGED <<cache, req, fwd, mem, dma, dmaReq, left, latest, error>>
  BY Zenon DEF Memory_Data
<1>2. /\ TypeOK /\ ForOK /\ HoldsOK /\ DirOK /\ DataOK
      /\ \A x \in Caches : CacheOK(x)
  BY Zenon DEF IInv
<1>3. memq \in MemRequest /\ memq.data \in Block /\ memq.data = latest
  <2>1. memq \in MemRequest
    BY <1>1, <1>2, Zenon DEF TypeOK
  <2> QED BY <1>1, <1>2, <2>1, Zenon DEF DataOK, MemRequest
<1>4. /\ \A x : ~Fetching(x)' /\ ~Storing(x)' /\ ~Storing(x)
  BY <1>1 DEF Fetching, Storing
<1>5. CASE dir.state = "IM" /\ dmaResp' = dmaResp
  <2>1. /\ dir' = [dir EXCEPT !.state = "M"]
        /\ resp' = [resp EXCEPT ![memq.requestor] = memq.data]
    BY <1>5, Zenon DEF Memory_Data
  <2>2. PICK o \in Caches : o = dir.owner
    BY <1>2, <1>5, Zenon DEF TypeOK, DirOK
  <2>3. /\ memq.requestor = o /\ dir'.state = "M" /\ dir'.owner = o /\ dir'.tbe = dir.tbe
        /\ dir' \in [state : DirState, owner : Caches \cup {None},
                     requestor : Dmas \cup {None}, tbe : {None} \cup DmaMsg]
    BY <1>2, <1>5, <2>1, <2>2, Zenon DEF TypeOK, DirState, DirOK
  <2>4. Fetching(o) /\ Waits(o) /\ resp[o] = None /\ CacheOK(o) /\ \A x : x # o => ~Fetching(x)
    <3>1. Fetching(o) /\ \A x : x # o => ~Fetching(x)
      BY <1>1, <2>3, Zenon DEF Fetching
    <3> QED BY <1>2, <3>1, Zenon DEF CacheOK
  <2>5. latest # None
    BY <1>3, MIAssumption, Zenon
  <2>6. /\ resp' \in [Caches -> {None} \cup Block] /\ resp'[o] = latest /\ resp'[o] # None
        /\ \A x \in Caches : x # o => resp'[x] = resp[x]
    BY <1>2, <1>3, <2>1, <2>3, <2>5, Zenon DEF TypeOK
  <2>7. TypeOK'
    BY <1>1, <1>2, <1>5, <2>3, <2>6, Zenon DEF TypeOK
  <2>8. \A x \in Caches : x # o => Same(x)
    BY <1>1, <2>6, Zenon DEF Same
  <2>9. /\ Putx(o)' <=> Putx(o)
        /\ Waits(o)' <=> Waits(o)
        /\ Keeps(o)' <=> Keeps(o)
    <3>1. Has(o, "WB_NACK")' <=> Has(o, "WB_NACK")
      BY <1>1, FwdKept, Zenon
    <3>2. (Putx(o)' <=> Putx(o)) /\ (Waits(o)' <=> Waits(o))
      BY <1>1, Zenon DEF Putx, Waits
    <3> QED BY <1>1, <3>1, <3>2, Zenon DEF Keeps
  <2>10. CacheOK(o)'
    BY <1>1, <1>4, <2>2, <2>3, <2>4, <2>6, <2>9, FwdKept, Zenon DEF CacheOK
  <2>11. \A x \in Caches : CacheOK(x)'
    BY <1>2, <1>4, <2>2, <2>3, <2>4, <2>8, <2>10, CacheKept, Zenon
  <2>12. ForOK'
    <3>1. \A x \in Caches : \A r : For(x, r)' => For(x, r) /\ r # o
      BY <1>1, <1>2, <2>4, FwdKept, Zenon DEF ForOK
    <3>2. \A r \in Caches : r # o => (Waits(r)' <=> Waits(r)) /\ resp'[r] = resp[r]
      BY <2>8, SameKept, Zenon DEF Same
    <3>3. ASSUME NEW x \in Caches, NEW r, For(x, r)'
          PROVE  r \in Caches /\ Waits(r)' /\ resp'[r] = None /\ ~Fetching(r)'
      BY <1>2, <1>4, <3>1, <3>2, <3>3, Zenon DEF ForOK
    <3>4. ASSUME NEW x \in Caches, NEW y \in Caches, NEW r, For(x, r)', For(y, r)'
          PROVE  x = y
      BY <1>2, <3>1, <3>4, Zenon DEF ForOK
    <3> QED BY <3>3, <3>4, Zenon DEF ForOK
  <2>13. \A x \in Caches : ~Holds(x) /\ ~Keeps(x) /\ resp[x] = None
    BY <1>2, <1>5, NobodyHolds, Zenon DEF Owned
  <2>14. \A x \in Caches : x # o => ~Holds(x)'
    BY <2>8, <2>13, SameKept, Zenon
  <2>15. HoldsOK'
    BY <2>3, <2>14, Zenon DEF HoldsOK, Owned
  <2>16. DirOK'
    BY <1>1, <2>3, MIAssumption, Zenon DEF DirOK, Owned
  <2>17. DataOK'
    <3>1. Current(o)'
      BY <1>1, <2>6, <2>9, <2>13, Zenon DEF Current
    <3>2. \A x \in Caches : x # o => Current(x)'
      BY <2>14, Zenon DEF Current, Holds
    <3> QED BY <1>1, <2>3, <3>1, <3>2, Zenon DEF DataOK, Owned
  <2> QED BY <2>7, <2>11, <2>12, <2>15, <2>16, <2>17, Zenon DEF IInv
<1>6. CASE dir.state = "ID" /\ resp' = resp
  <2>1. /\ dir' = [dir EXCEPT !.state = "I", !.requestor = None]
        /\ dmaResp' = [dmaResp EXCEPT ![dir.requestor] = [type |-> "DATA", data |-> memq.data]]
    BY <1>6, Zenon DEF Memory_Data
  <2>2. /\ memq.requestor = None /\ dir'.state = "I" /\ dir'.owner = dir.owner /\ dir.owner = None
        /\ dir' \in [state : DirState, owner : Caches \cup {None},
                     requestor : Dmas \cup {None}, tbe : {None} \cup DmaMsg]
    BY <1>2, <1>6, <2>1, Zenon DEF TypeOK, DirState, DirOK, Owned
  <2>3. dmaResp' \in [Dmas -> {None} \cup DmaAnswer]
    <3>1. [type |-> "DATA", data |-> memq.data] \in DmaAnswer
      BY <1>3, Zenon DEF DmaAnswer
    <3> QED BY <1>2, <2>1, <3>1, Zenon DEF TypeOK
  <2>4. TypeOK'
    BY <1>1, <1>2, <1>6, <2>2, <2>3, Zenon DEF TypeOK
  <2>5. \A x \in Caches : Same(x) /\ ~Fetching(x)
    BY <1>1, <1>6, <2>2, MIAssumption, Zenon DEF Same, Fetching
  <2>6. /\ \A x \in Caches : CacheOK(x)'
        /\ ForOK'
        /\ \A x \in Caches : Holds(x)' <=> Holds(x)
    BY <1>4, <2>2, <2>5, CachesKept, Zenon
  <2>7. \A x \in Caches : ~Holds(x)'
    BY <1>2, <1>6, <2>6, NobodyHolds, Zenon DEF Owned
  <2>8. HoldsOK'
    BY <2>7, Zenon DEF HoldsOK
  <2>9. DirOK'
    BY <1>1, <2>2, MIAssumption, Zenon DEF DirOK, Owned
  <2>10. DataOK'
    <3>1. \A x \in Caches : Current(x)'
      BY <2>7, Zenon DEF Current, Holds
    <3> QED BY <1>1, <1>2, <1>6, <3>1, Zenon DEF DataOK, Owned
  <2> QED BY <2>4, <2>6, <2>8, <2>9, <2>10, Zenon DEF IInv
<1> QED BY <1>5, <1>6, Zenon DEF Memory_Data

\* Memory has stored a writeback or a DMA's bytes: the DMA's bytes are in what
\* memory has and in what the writes so far left.
LEMMA MemoryAckIInv ==
  ASSUME IInv, Memory_Ack, system' = system
  PROVE  IInv'
<1>1. /\ memq # None /\ memq.type = "WB" /\ memq' = None
      /\ dir.state \in {"MI", "M_DRDI", "M_DWRI", "ID_W"}
      /\ dir' = [dir EXCEPT !.state = "I", !.requestor = None, !.tbe = None]
      /\ UNCHANGED <<cache, req, resp, dma, dmaReq, left, error>>
  BY Zenon DEF Memory_Ack
<1>2. /\ TypeOK /\ ForOK /\ HoldsOK /\ DirOK /\ DataOK
      /\ \A x \in Caches : CacheOK(x)
  BY Zenon DEF IInv
<1>3. /\ dir'.state = "I" /\ dir'.owner = dir.owner /\ dir.owner = None
      /\ dir.state \notin Owned /\ mem = latest
      /\ dir' \in [state : DirState, owner : Caches \cup {None},
                   requestor : Dmas \cup {None}, tbe : {None} \cup DmaMsg]
  <2>1. /\ dir'.state = "I" /\ dir'.owner = dir.owner
        /\ dir' \in [state : DirState, owner : Caches \cup {None},
                     requestor : Dmas \cup {None}, tbe : {None} \cup DmaMsg]
    BY <1>1, <1>2, Zenon DEF TypeOK, DirState
  <2>2. dir.state \notin Owned /\ dir.state \notin Owned \cup {"IM"}
    BY <1>1, Zenon DEF Owned
  <2> QED BY <1>2, <2>1, <2>2, Zenon DEF DirOK, DataOK
<1>4. /\ mem' \in Block /\ latest' \in Block /\ mem' = latest'
      /\ dmaResp' \in [Dmas -> {None} \cup DmaAnswer]
  <2>1. CASE dir.state \in {"M_DWRI", "ID_W"}
    <3>1. /\ mem' = Written(mem, dir.tbe.word, dir.tbe.value)
          /\ latest' = Written(latest, dir.tbe.word, dir.tbe.value)
          /\ dmaResp' = [dmaResp EXCEPT ![dir.requestor] = [type |-> "ACK", data |-> Blank]]
      BY <2>1, Zenon DEF Memory_Ack, Merged
    <3>2. dir.tbe.word \in Words /\ dir.tbe.value \in Values
      <4>1. dir.tbe \in DmaWrite
        BY <1>2, <2>1, Zenon DEF DirOK
      <4> QED BY <4>1, Zenon DEF DmaWrite
    <3>3. [type |-> "ACK", data |-> Blank] \in DmaAnswer
      BY BlankType, Zenon DEF DmaAnswer
    <3>4. mem' \in Block /\ latest' \in Block
      BY <1>2, <3>1, <3>2, WrittenType, Zenon DEF TypeOK
    <3> QED BY <1>2, <1>3, <3>1, <3>3, <3>4, Zenon DEF TypeOK
  <2>2. CASE dir.state \notin {"M_DWRI", "ID_W"}
    <3>1. UNCHANGED <<mem, latest, dmaResp>>
      BY <2>2, Zenon DEF Memory_Ack
    <3> QED BY <1>2, <1>3, <3>1, Zenon DEF TypeOK
  <2> QED BY <2>1, <2>2, Zenon
<1>5. \A x : ~Fetching(x)' /\ ~Storing(x)' /\ ~Fetching(x)
  BY <1>1 DEF Fetching, Storing
<1>6. \A x \in Caches : ~Holds(x) /\ ~Keeps(x) /\ resp[x] = None
  BY <1>2, <1>3, NobodyHolds, Zenon
<1>7. ASSUME fwd' \in [Caches -> Seq(Forward)], \A x \in Caches : CacheOK(x)', ForOK',
             \A x \in Caches : ~Holds(x)'
      PROVE  IInv'
  <2>1. TypeOK'
    BY <1>1, <1>2, <1>3, <1>4, <1>7, Zenon DEF TypeOK
  <2>2. HoldsOK'
    BY <1>7, Zenon DEF HoldsOK
  <2>3. DirOK'
    BY <1>1, <1>3, Zenon DEF DirOK, Owned
  <2>4. DataOK'
    <3>1. \A x \in Caches : Current(x)'
      BY <1>7, Zenon DEF Current, Holds
    <3> QED BY <1>1, <1>4, <3>1, Zenon DEF DataOK
  <2> QED BY <1>7, <2>1, <2>2, <2>3, <2>4, Zenon DEF IInv
<1>8. CASE dir.state = "ID_W"
  <2>1. fwd' = fwd
    BY <1>8, Zenon DEF Memory_Ack
  <2>2. \A x \in Caches : Same(x) /\ ~Storing(x)
    BY <1>1, <1>2, <1>8, <2>1, MIAssumption, Zenon DEF Same, Storing, DirOK
  <2>3. /\ \A x \in Caches : CacheOK(x)'
        /\ ForOK'
        /\ \A x \in Caches : Holds(x)' <=> Holds(x)
    BY <1>3, <1>5, <2>2, CachesKept, Zenon
  <2>4. fwd' \in [Caches -> Seq(Forward)]
    BY <1>2, <2>1, Zenon DEF TypeOK
  <2> QED BY <1>6, <1>7, <2>3, <2>4, Zenon
<1>9. CASE dir.state # "ID_W"
  <2>1. Send(memq.requestor, "WB_ACK", memq.requestor)
    BY <1>9, Zenon DEF Memory_Ack
  <2>2. PICK q \in Caches : q = memq.requestor
    <3>1. memq \in MemRequest /\ memq.requestor # None
      BY <1>1, <1>2, <1>9, Zenon DEF TypeOK, DirOK
    <3> QED BY <3>1, Zenon DEF MemRequest
  <2>3. /\ Storing(q) /\ CacheOK(q)
        /\ \A x \in Caches : x # q => ~Storing(x)
    BY <1>1, <1>2, <2>2, Zenon DEF Storing
  <2>4. /\ cache[q].state \in {"MI", "II"} /\ ~Putx(q) /\ ~Has(q, "WB_ACK") /\ ~Has(q, "WB_NACK")
        /\ ~Waits(q) /\ cache[q].state # "II" /\ ~Has(q, "GETX") /\ req[q] = None
    <3>1. /\ cache[q].state \in {"MI", "II"} /\ ~Putx(q)
          /\ ~Has(q, "WB_ACK") /\ ~Has(q, "WB_NACK")
      BY <2>3, Zenon DEF CacheOK
    <3>2. ~Waits(q)
      BY <3>1, Zenon DEF Waits
    <3> QED BY <1>6, <2>3, <3>1, <3>2, Zenon DEF CacheOK
  <2>5. /\ fwd' \in [Caches -> Seq(Forward)]
        /\ \A x \in Caches : x # q => fwd'[x] = fwd[x]
        /\ \A x \in Caches : \A t : Has(x, t)' <=> Has(x, t) \/ (x = q /\ t = "WB_ACK")
        /\ \A x \in Caches : \A r : For(x, r)' <=> For(x, r) \/ (x = q /\ "WB_ACK" = "GETX" /\ r = q)
        /\ Once(fwd'[q], {"GETX"}) /\ Once(fwd'[q], Answers)
    <3>1. /\ fwd \in [Caches -> Seq(Forward)]
          /\ Once(fwd[q], {"GETX"}) /\ Once(fwd[q], Answers)
      BY <1>2, Zenon DEF TypeOK, CacheOK
    <3>2. /\ "WB_ACK" \notin {"GETX"} /\ \A y \in Answers : ~Has(q, y)
          /\ "WB_ACK" \in {"GETX", "INV", "WB_ACK", "WB_NACK"} /\ q \in Caches \cup {None}
      BY <2>4, Zenon DEF Answers
    <3>3. Send(q, "WB_ACK", q)
      BY <2>1, <2>2, Zenon
    <3>4. \A T : Once(fwd[q], T) /\ ("WB_ACK" \in T => \A y \in T : ~Has(q, y)) => Once(fwd'[q], T)
      BY <3>1, <3>2, <3>3, SendFact, Zenon
    <3>5. Once(fwd'[q], {"GETX"}) /\ Once(fwd'[q], Answers)
      BY <3>1, <3>2, <3>4, Zenon
    <3> QED BY <3>1, <3>2, <3>3, <3>5, SendFact, Zenon
  <2>6. /\ Has(q, "WB_ACK")' /\ ~Has(q, "WB_NACK")' /\ ~Has(q, "GETX")'
        /\ \A x \in Caches : \A r : For(x, r)' => For(x, r)
    BY <2>4, <2>5
  <2>7. \A x \in Caches : x # q => Same(x)
    BY <1>1, <2>5, Zenon DEF Same
  <2>8. ~Putx(q)' /\ ~Waits(q)' /\ ~Keeps(q)' /\ ~Holds(q)'
    <3>1. ~Putx(q)' /\ ~Waits(q)'
      BY <1>1, <2>4, Zenon DEF Putx, Waits
    <3>2. cache'[q].state = "MI" /\ resp'[q] = None
      BY <1>1, <1>6, <2>4, Zenon
    <3>3. ~Keeps(q)'
      BY <2>6, <3>1, <3>2 DEF Keeps
    <3> QED BY <3>1, <3>2, <3>3, Zenon DEF Holds
  <2>9. CacheOK(q)'
    <3>1. /\ cache'[q].state = "MI" /\ req'[q] = None /\ resp'[q] = None /\ dir'.owner # q
      BY <1>1, <1>3, <1>6, <2>4, MIAssumption, Zenon
    <3> QED BY <1>5, <2>5, <2>6, <2>8, <3>1, Zenon DEF CacheOK
  <2>10. \A x \in Caches : CacheOK(x)'
    BY <1>2, <1>3, <1>5, <2>3, <2>7, <2>9, CacheKept, Zenon
  <2>11. ForOK'
    <3>1. \A x \in Caches : \A r : For(x, r)' => For(x, r) /\ r # q
      BY <1>2, <2>4, <2>6, Zenon DEF ForOK
    <3>2. \A r \in Caches : r # q => (Waits(r)' <=> Waits(r)) /\ resp'[r] = resp[r]
      BY <2>7, SameKept, Zenon DEF Same
    <3>3. ASSUME NEW x \in Caches, NEW r, For(x, r)'
          PROVE  r \in Caches /\ Waits(r)' /\ resp'[r] = None /\ ~Fetching(r)'
      BY <1>2, <1>5, <3>1, <3>2, <3>3, Zenon DEF ForOK
    <3>4. ASSUME NEW x \in Caches, NEW y \in Caches, NEW r, For(x, r)', For(y, r)'
          PROVE  x = y
      BY <1>2, <3>1, <3>4, Zenon DEF ForOK
    <3> QED BY <3>3, <3>4, Zenon DEF ForOK
  <2>12. \A x \in Caches : ~Holds(x)'
    BY <1>6, <2>7, <2>8, SameKept, Zenon
  <2> QED BY <1>7, <2>5, <2>10, <2>11, <2>12, Zenon
<1> QED BY <1>8, <1>9, Zenon

LEMMA DmaRequestIInv ==
  ASSUME IInv, NEW d \in Dmas, DmaRequest(d), system' = system
  PROVE  IInv'
<1> DEFINE write == dmaReq[d].type = "WRITE"
           Wait(s) == dir' = [dir EXCEPT !.state = s, !.requestor = d,
                                  !.tbe = IF write THEN dmaReq[d] ELSE None]
<1>1. /\ dmaReq[d] # None /\ dmaReq' = [dmaReq EXCEPT ![d] = None]
      /\ UNCHANGED <<cache, req, resp, mem, dma, dmaResp, left, latest, error>>
  BY Zenon DEF DmaRequest
<1>2. /\ TypeOK /\ ForOK /\ HoldsOK /\ DirOK /\ DataOK
      /\ \A x \in Caches : CacheOK(x)
  BY Zenon DEF IInv
<1>3. \/ /\ dir.state = "I" /\ ~write /\ Wait("ID") /\ fwd' = fwd
         /\ memq' = [type |-> "READ", data |-> mem, requestor |-> None]
      \/ /\ dir.state = "I" /\ write /\ Wait("ID_W") /\ fwd' = fwd
         /\ memq' = [type |-> "WB", data |-> Blank, requestor |-> None]
      \/ /\ dir.state = "M" /\ Wait(IF write THEN "M_DWR" ELSE "M_DRD")
         /\ Send(dir.owner, "INV", None) /\ memq' = memq
  BY Zenon DEF DmaRequest, Fetch
<1>4. dmaReq' \in [Dmas -> {None} \cup DmaMsg]
  BY <1>1, <1>2, Zenon DEF TypeOK
<1>5. dmaReq[d] \in DmaMsg /\ (write => dmaReq[d] \in DmaWrite)
  <2>1. dmaReq[d] \in DmaMsg
    BY <1>1, <1>2, Zenon DEF TypeOK
  <2> QED BY <2>1 DEF DmaMsg, DmaWrite
<1>6. ASSUME NEW s \in {"ID", "ID_W", "M_DWR", "M_DRD"}, Wait(s)
      PROVE  /\ dir'.state = s /\ dir'.owner = dir.owner
             /\ write => dir'.tbe \in DmaWrite
             /\ dir' \in [state : DirState, owner : Caches \cup {None},
                          requestor : Dmas \cup {None}, tbe : {None} \cup DmaMsg]
  <2>1. (IF write THEN dmaReq[d] ELSE None) \in {None} \cup DmaMsg
    BY <1>5, Zenon
  <2> QED BY <1>2, <1>5, <1>6, <2>1, Zenon DEF TypeOK, DirState
<1> HIDE DEF write, Wait
<1>7. ASSUME dir.state = "I", NEW s \in {"ID", "ID_W"}, Wait(s), s = "ID_W" => write, fwd' = fwd,
             memq' \in MemRequest, memq'.requestor = None,
             memq'.type = "READ" <=> s = "ID", memq'.type = "READ" => memq'.data = mem
      PROVE  IInv'
  <2>1. /\ dir'.state = s /\ dir'.owner = dir.owner /\ dir.owner = None /\ memq = None
        /\ s = "ID_W" => dir'.tbe \in DmaWrite
        /\ dir' \in [state : DirState, owner : Caches \cup {None},
                     requestor : Dmas \cup {None}, tbe : {None} \cup DmaMsg]
        /\ mem = latest
    BY <1>2, <1>6, <1>7, Zenon DEF DirOK, DataOK, Owned
  <2>2. TypeOK'
    BY <1>1, <1>2, <1>4, <1>7, <2>1, Zenon DEF TypeOK
  <2>3. /\ \A x \in Caches : Same(x) /\ ~Fetching(x) /\ ~Storing(x) /\ ~Fetching(x)' /\ ~Storing(x)'
    BY <1>1, <1>7, <2>1, MIAssumption, Zenon DEF Same, Fetching, Storing
  <2>4. /\ \A x \in Caches : CacheOK(x)'
        /\ ForOK'
        /\ \A x \in Caches : Holds(x)' <=> Holds(x)
    BY <2>1, <2>3, CachesKept, Zenon
  <2>5. \A x \in Caches : ~Holds(x)'
    BY <1>2, <1>7, <2>4, NobodyHolds, Zenon DEF Owned
  <2>6. HoldsOK'
    BY <2>5, Zenon DEF HoldsOK
  <2>7. DirOK'
    BY <1>7, <2>1, MIAssumption, Zenon DEF DirOK, Owned
  <2>8. DataOK'
    <3>1. \A x \in Caches : Current(x)'
      BY <2>5, Zenon DEF Current, Holds
    <3> QED BY <1>1, <1>7, <2>1, <3>1, Zenon DEF DataOK
  <2> QED BY <2>2, <2>4, <2>6, <2>7, <2>8, Zenon DEF IInv
<1>8. CASE /\ dir.state = "I" /\ Wait("ID") /\ fwd' = fwd
           /\ memq' = [type |-> "READ", data |-> mem, requestor |-> None]
  <2>1. memq' \in MemRequest
    BY <1>2, <1>8, Zenon DEF MemRequest, TypeOK
  <2> QED BY <1>7, <1>8, <2>1, Zenon
<1>9. CASE /\ dir.state = "I" /\ write /\ Wait("ID_W") /\ fwd' = fwd
           /\ memq' = [type |-> "WB", data |-> Blank, requestor |-> None]
  <2>1. memq' \in MemRequest
    BY <1>9, BlankType, Zenon DEF MemRequest
  <2> QED BY <1>7, <1>9, <2>1, Zenon
<1>10. CASE /\ dir.state = "M" /\ Wait(IF write THEN "M_DWR" ELSE "M_DRD")
            /\ Send(dir.owner, "INV", None) /\ memq' = memq
  <2>1. PICK o \in Caches : o = dir.owner
    BY <1>2, <1>10, Zenon DEF TypeOK, DirOK, Owned
  <2>2. /\ dir'.state \in {"M_DWR", "M_DRD"} /\ dir'.owner = dir.owner /\ dir.owner # None
        /\ dir'.state = "M_DWR" => dir'.tbe \in DmaWrite
        /\ dir' \in [state : DirState, owner : Caches \cup {None},
                     requestor : Dmas \cup {None}, tbe : {None} \cup DmaMsg]
        /\ memq = None
    <3>1. CASE write
      BY <1>2, <1>6, <1>10, <3>1, Zenon DEF DirOK, Owned
    <3>2. CASE ~write
      BY <1>2, <1>6, <1>10, <3>2, Zenon DEF DirOK, Owned
    <3> QED BY <3>1, <3>2, Zenon
  <2>3. /\ fwd' \in [Caches -> Seq(Forward)]
        /\ \A x \in Caches : x # o => fwd'[x] = fwd[x]
        /\ \A x \in Caches : \A t : Has(x, t)' <=> Has(x, t) \/ (x = o /\ t = "INV")
        /\ \A x \in Caches : \A r : For(x, r)' <=> For(x, r) \/ (x = o /\ "INV" = "GETX" /\ r = None)
        /\ Once(fwd'[o], {"GETX"}) /\ Once(fwd'[o], Answers)
    <3>1. /\ fwd \in [Caches -> Seq(Forward)]
          /\ Once(fwd[o], {"GETX"}) /\ Once(fwd[o], Answers)
      BY <1>2, Zenon DEF TypeOK, CacheOK
    <3>2. /\ "INV" \notin {"GETX"} /\ "INV" \notin Answers
          /\ "INV" \in {"GETX", "INV", "WB_ACK", "WB_NACK"} /\ None \in Caches \cup {None}
      BY Zenon DEF Answers
    <3>3. Send(o, "INV", None)
      BY <1>10, <2>1, Zenon
    <3>4. \A T : Once(fwd[o], T) /\ ("INV" \in T => \A y \in T : ~Has(o, y)) => Once(fwd'[o], T)
      BY <3>1, <3>2, <3>3, SendFact, Zenon
    <3>5. Once(fwd'[o], {"GETX"}) /\ Once(fwd'[o], Answers)
      BY <3>1, <3>2, <3>4, Zenon
    <3> QED BY <3>1, <3>2, <3>3, <3>5, SendFact, Zenon
  <2>4. /\ \A t \in {"GETX", "WB_ACK", "WB_NACK"} : Has(o, t)' <=> Has(o, t)
        /\ \A x \in Caches : \A r : For(x, r)' <=> For(x, r)
    BY <2>3
  <2>5. TypeOK'
    BY <1>1, <1>2, <1>4, <1>10, <2>2, <2>3, Zenon DEF TypeOK
  <2>6. \A x \in Caches : x # o => Same(x)
    BY <1>1, <2>3, Zenon DEF Same
  <2>7. /\ Putx(o)' <=> Putx(o)
        /\ Waits(o)' <=> Waits(o)
        /\ Keeps(o)' <=> Keeps(o)
        /\ Holds(o)' <=> Holds(o)
    <3>1. (Putx(o)' <=> Putx(o)) /\ (Waits(o)' <=> Waits(o))
      BY <1>1, Zenon DEF Putx, Waits
    <3>2. Keeps(o)' <=> Keeps(o)
      BY <1>1, <2>4, <3>1, Zenon DEF Keeps
    <3> QED BY <1>1, <3>1, <3>2, Zenon DEF Holds
  <2>8. CacheOK(o)'
    <3>1. (Storing(o)' <=> Storing(o)) /\ (Fetching(o)' <=> Fetching(o)) /\ CacheOK(o)
      BY <1>2, <1>10, MemqKept, Zenon
    <3>2. /\ Has(o, "GETX")' <=> Has(o, "GETX")
          /\ Has(o, "WB_ACK")' <=> Has(o, "WB_ACK")
          /\ Has(o, "WB_NACK")' <=> Has(o, "WB_NACK")
      BY <2>4, Zenon
    <3> QED BY <1>1, <2>2, <2>3, <2>7, <3>1, <3>2, Zenon DEF CacheOK
  <2>9. \A x \in Caches : CacheOK(x)'
    BY <1>2, <1>10, <2>2, <2>6, <2>8, CacheKept, MemqKept, Zenon
  <2>10. \A x \in Caches : (Holds(x)' <=> Holds(x)) /\ (Waits(x)' <=> Waits(x))
    BY <2>6, <2>7, SameKept, Zenon
  <2>11. ForOK'
    BY <1>1, <1>2, <1>10, <2>4, <2>10, MemqKept, Zenon DEF ForOK
  <2>12. HoldsOK'
    BY <1>2, <2>2, <2>10, Zenon DEF HoldsOK, Owned
  <2>13. DirOK'
    BY <1>10, <2>2, Zenon DEF DirOK, Owned
  <2>14. DataOK'
    <3>1. Current(o)'
      BY <1>1, <1>2, <2>7, Zenon DEF Current, DataOK
    <3>2. \A x \in Caches : Current(x)'
      BY <1>1, <1>2, <2>6, <3>1, CurrentKept, Zenon DEF DataOK
    <3> QED BY <1>10, <2>2, <3>2, Zenon DEF DataOK, Owned
  <2> QED BY <2>5, <2>9, <2>11, <2>12, <2>13, <2>14, Zenon DEF IInv
<1> QED BY <1>3, <1>8, <1>9, <1>10, Zenon

-----------------------------------------------------------------------------
(* The DMA controllers and the steps that end the simulation.              *)

LEMMA QuietIInv ==
  ASSUME IInv, TypeOK', UNCHANGED <<cache, req, fwd, resp, dir, mem, memq, latest>>
  PROVE  IInv'
<1>1. \A x \in Caches : Same(x)
  BY Zenon DEF Same
<1>2. /\ \A x \in Caches : CacheOK(x)'
      /\ ForOK'
      /\ \A x \in Caches : Holds(x)' <=> Holds(x)
  BY <1>1, CachesKept, MemqKept, Zenon
<1>3. HoldsOK'
  BY <1>2, Zenon DEF HoldsOK, IInv
<1>4. DirOK'
  BY Zenon DEF DirOK, IInv
<1>5. DataOK'
  BY <1>1, CurrentKept, Zenon DEF DataOK, IInv
<1> QED BY <1>2, <1>3, <1>4, <1>5, Zenon DEF IInv

LEMMA DmaIInv ==
  ASSUME IInv, NEW d \in Dmas, system' = system,
         (\E m \in DmaMsg : DmaIssue(d, m)) \/ DmaDone(d)
  PROVE  IInv'
<1>1. TypeOK
  BY Zenon DEF IInv
<1>2. ASSUME NEW m \in DmaMsg, DmaIssue(d, m) PROVE IInv'
  <2>1. /\ left[d] > 0
        /\ dma' = [dma EXCEPT ![d] = IF m.type = "READ" THEN "BUSY_RD" ELSE "BUSY_WR"]
        /\ dmaReq' = [dmaReq EXCEPT ![d] = m] /\ left' = [left EXCEPT ![d] = left[d] - 1]
        /\ UNCHANGED <<cache, req, fwd, resp, dir, mem, memq, dmaResp, latest, error>>
    BY <1>2, Zenon DEF DmaIssue, netVars, dirVars
  <2>2. dma' \in [Dmas -> {"READY", "BUSY_RD", "BUSY_WR"}]
    BY <1>1, <2>1, Zenon DEF TypeOK
  <2>3. dmaReq' \in [Dmas -> {None} \cup DmaMsg]
    BY <1>1, <2>1, Zenon DEF TypeOK
  <2>4. left' \in [Caches \cup Dmas -> Nat]
    BY <1>1, <2>1 DEF TypeOK
  <2>5. TypeOK'
    BY <1>1, <2>1, <2>2, <2>3, <2>4, Zenon DEF TypeOK
  <2> QED BY <2>1, <2>5, QuietIInv, Zenon
<1>3. CASE DmaDone(d)
  <2>1. /\ dma' = [dma EXCEPT ![d] = "READY"] /\ dmaResp' = [dmaResp EXCEPT ![d] = None]
        /\ UNCHANGED <<cache, req, fwd, resp, dir, mem, memq, dmaReq, left, latest, error>>
    BY <1>3, Zenon DEF DmaDone, netVars, dirVars
  <2>2. dma' \in [Dmas -> {"READY", "BUSY_RD", "BUSY_WR"}]
    BY <1>1, <2>1, Zenon DEF TypeOK
  <2>3. dmaResp' \in [Dmas -> {None} \cup DmaAnswer]
    BY <1>1, <2>1, Zenon DEF TypeOK
  <2>4. TypeOK'
    BY <1>1, <2>1, <2>2, <2>3, Zenon DEF TypeOK
  <2> QED BY <2>1, <2>4, QuietIInv, Zenon
<1> QED BY <1>2, <1>3, Zenon

LEMMA ErrorIInv ==
  ASSUME IInv, system' = system, (\E c \in Caches : CacheError(c)) \/ DirError
  PROVE  IInv'
<1>1. /\ error' = TRUE
      /\ UNCHANGED <<cache, req, fwd, resp, dir, mem, memq, dma, dmaReq, dmaResp, left, latest>>
  BY Zenon DEF CacheError, DirError, netVars, dirVars, dmaVars
<1>2. TypeOK'
  BY <1>1, Zenon DEF TypeOK, IInv
<1> QED BY <1>1, <1>2, QuietIInv, Zenon

-----------------------------------------------------------------------------
(* The invariant holds.                                                    *)

LEMMA SystemFacts ==
  ASSUME TypeOK
  PROVE  /\ system \in Systems /\ system.requests \in [Caches \cup Dmas -> Nat]
         /\ system.words \subseteq Words /\ system.ordered \in BOOLEAN
BY MIAssumption, Zenon DEF TypeOK

LEMMA InitIInv ==
  ASSUME Init
  PROVE  IInv
<1>1. TypeOK
  <2>1. left \in [Caches \cup Dmas -> Nat] /\ system \in Systems
    BY MIAssumption, Zenon DEF Init
  <2>2. cache \in [Caches -> [state : CacheState, data : Block]]
    BY BlankType DEF Init, CacheState
  <2>3. dir \in [state : DirState, owner : Caches \cup {None},
                 requestor : Dmas \cup {None}, tbe : {None} \cup DmaMsg]
    BY DEF Init, DirState
  <2>4. fwd \in [Caches -> Seq(Forward)]
    BY DEF Init
  <2> QED BY <2>1, <2>2, <2>3, <2>4, BlankType, Zenon DEF Init, TypeOK
<1>2. ASSUME NEW c \in Caches
      PROVE  /\ cache[c].state = "I" /\ req[c] = None /\ resp[c] = None /\ fwd[c] = << >>
  BY Zenon DEF Init
<1>3. dir.state = "I" /\ dir.owner = None /\ memq = None /\ mem = latest
  BY Zenon DEF Init
<1>4. ASSUME NEW c \in Caches
      PROVE  /\ \A t : ~Has(c, t)
             /\ \A r : ~For(c, r)
             /\ Once(fwd[c], {"GETX"}) /\ Once(fwd[c], Answers)
  <2>1. Len(fwd[c]) = 0 /\ 1..Len(fwd[c]) = {}
    BY <1>2
  <2> QED BY <2>1, Zenon DEF Has, For, Msgs, Once
<1>5. ASSUME NEW c \in Caches
      PROVE  ~Putx(c) /\ ~Storing(c) /\ ~Fetching(c) /\ ~Waits(c) /\ ~Keeps(c) /\ ~Holds(c)
  BY <1>2, <1>3, <1>4 DEF Putx, Storing, Fetching, Waits, Keeps, Holds
<1>6. \A c \in Caches : CacheOK(c)
  BY <1>2, <1>3, <1>4, <1>5, MIAssumption, Zenon DEF CacheOK
<1>7. ForOK /\ HoldsOK
  BY <1>4, <1>5, Zenon DEF ForOK, HoldsOK
<1>8. DirOK
  BY <1>3, Zenon DEF DirOK, Owned
<1>9. DataOK
  BY <1>2, <1>3, <1>5, Zenon DEF DataOK, Current
<1> QED BY <1>1, <1>6, <1>7, <1>8, <1>9, Zenon DEF IInv

\* What a cache sees of the forward network is on its way to it.
LEMMA SeenType ==
  ASSUME IInv, NEW c \in Caches
  PROVE  Seen(c) \subseteq 1..Len(fwd[c])
<1>1. fwd[c] \in Seq(Forward)
  BY Zenon DEF IInv, TypeOK
<1>2. fwd[c] # << >> => 1 \in 1..Len(fwd[c])
  BY <1>1
<1>3. CASE system.ordered
  BY <1>2, <1>3, Zenon DEF Seen
<1>4. CASE ~system.ordered
  BY <1>4, Zenon DEF Seen
<1> QED BY <1>3, <1>4, Zenon

LEMMA ForwardedIInv ==
  ASSUME IInv, NEW c \in Caches, Forwarded(c), system' = system
  PROVE  IInv'
<1>1. PICK i \in Seen(c) : \/ Inv(c, i) \/ Fwd_GETX(c, i)
                           \/ Writeback_Ack(c, i) \/ Writeback_Nack(c, i)
  BY Zenon DEF Forwarded
<1>2. i \in 1..Len(fwd[c])
  BY SeenType, Zenon
<1> QED BY <1>1, <1>2, InvIInv, FwdIInv, AckIInv, NackIInv, Zenon

LEMMA NextIInv ==
  ASSUME IInv, [Next]_vars
  PROVE  IInv'
<1>1. CASE Next
  <2>1. system' = system /\ system.words \subseteq Words
    BY <1>1, SystemFacts, Zenon DEF Next, Running, IInv
  <2>2. ASSUME NEW c \in Caches,
               \/ \E s \in {"IS", "IM"} : Miss(c, s)
               \/ \E w \in system.words, v \in Values : StoreHit(c, w, v) \/ Data(c, w, v)
        PROVE  IInv'
    BY <2>1, <2>2, MissIInv, StoreHitIInv, DataIInv, Zenon
  <2>3. ASSUME NEW c \in Caches, Replacement(c) \/ Forwarded(c) \/ CacheError(c)
        PROVE  IInv'
    BY <2>1, <2>3, ReplacementIInv, ForwardedIInv, ErrorIInv, Zenon
  <2>4. ASSUME NEW c \in Caches, GETX(c) \/ PUTX(c) \/ PUTX_NotOwner(c)
        PROVE  IInv'
    BY <2>1, <2>4, GETXIInv, PUTXIInv, NotOwnerIInv, Zenon
  <2>5. ASSUME NEW d \in Dmas, (\E m \in DmaMsg : DmaIssue(d, m)) \/ DmaRequest(d) \/ DmaDone(d)
        PROVE  IInv'
    BY <2>1, <2>5, DmaIInv, DmaRequestIInv, Zenon
  <2>6. CASE Memory_Data \/ Memory_Ack \/ DirError
    BY <2>1, <2>6, MemoryDataIInv, MemoryAckIInv, ErrorIInv, Zenon
  <2> QED BY <1>1, <2>2, <2>3, <2>4, <2>5, <2>6, Zenon DEF Next
<1>2. CASE vars' = vars
  <2>1. UNCHANGED <<system, cache, req, fwd, resp, dir, mem, memq, dma, dmaReq, dmaResp,
                    left, latest, error>>
    BY <1>2, Zenon DEF vars, netVars, dirVars, dmaVars
  <2>2. TypeOK'
    BY <2>1, Zenon DEF TypeOK, IInv
  <2> QED BY <2>1, <2>2, QuietIInv, Zenon
<1> QED BY <1>1, <1>2, Zenon

LEMMA SpecIInv == Spec => []IInv
<1>1. Init => IInv
  BY InitIInv
<1>2. IInv /\ [Next]_vars => IInv'
  BY NextIInv
<1> QED BY <1>1, <1>2, PTL DEF Spec

\* The state is of its type, the asserts of the directory's setState hold, and
\* at most one cache has the block or is sent it, none while the directory has
\* it: for any number of caches, DMA controllers and requests, and whether the
\* forward network keeps the order or not.
THEOREM MIProtocol == Spec => []ProtocolInv
<1>1. IInv => ProtocolInv
  <2> SUFFICES ASSUME IInv PROVE ProtocolInv
    OBVIOUS
  <2>1. TypeOK /\ HoldsOK /\ DirOK /\ \A x \in Caches : CacheOK(x)
    BY Zenon DEF IInv
  <2>2. OwnerCount
    BY <2>1, Zenon DEF OwnerCount, DirOK, Owned
  <2>3. \A x \in Copies \cup Coming : x \in Caches /\ Holds(x)
    BY Zenon DEF Copies, Coming, Holds, Keeps
  <2>4. Copies \cap Coming = {}
    <3>1. ASSUME NEW x \in Caches, cache[x].state = "M" PROVE resp[x] = None
      BY <2>1, <3>1, Zenon DEF CacheOK, Waits
    <3> QED BY <3>1, Zenon DEF Copies, Coming
  <2>5. SingleCopy
    BY <2>1, <2>3, <2>4, Zenon DEF SingleCopy, HoldsOK, Owned
  <2> QED BY <2>1, <2>2, <2>5, Zenon DEF ProtocolInv
<1> QED BY <1>1, SpecIInv, PTL

\* No store and no DMA write is lost: the owner's block, the data on its way to
\* the next owner, and memory when nobody owns the block, are what the writes
\* so far left there.
THEOREM MILatestKept == Spec => []LatestKept
<1>1. IInv => LatestKept
  <2> SUFFICES ASSUME IInv PROVE LatestKept
    OBVIOUS
  <2>1. DataOK
    BY Zenon DEF IInv
  <2>2. \A x \in Copies : Keeps(x) /\ x \in Caches
    BY Zenon DEF Copies, Keeps
  <2>3. \A x \in Coming : resp[x] # None /\ x \in Caches
    BY Zenon DEF Coming
  <2> QED BY <2>1, <2>2, <2>3, Zenon DEF LatestKept, DataOK, Current, Owned
<1> QED BY <1>1, SpecIInv, PTL

\* Only the owner's writeback and the memory answer a DMA read.
LEMMA DmaAnswered ==
  ASSUME IInv, [Next]_vars, NEW d \in Dmas,
         dmaResp[d] = None, dmaResp'[d] # None, dmaResp'[d].type = "DATA"
  PROVE  dmaResp'[d].data = latest
<1>1. /\ TypeOK /\ DataOK /\ DirOK /\ \A x \in Caches : CacheOK(x)
      /\ dmaResp \in [Dmas -> {None} \cup DmaAnswer] /\ dmaResp' # dmaResp
  BY Zenon DEF IInv, TypeOK
<1>3. ASSUME NEW c \in Caches, PUTX(c) PROVE dmaResp'[d].data = latest
  <2>1. /\ Putx(c) /\ dir.owner = c
        /\ dmaResp' = [dmaResp EXCEPT ![dir.requestor] = [type |-> "DATA", data |-> req[c].data]]
    BY <1>1, <1>3, Zenon DEF PUTX, Putx
  <2>2. Keeps(c)
    BY <1>1, <2>1, Zenon DEF CacheOK, Waits, Putx
  <2>3. req[c].data = latest
    BY <1>1, <2>1, <2>2, Zenon DEF DataOK, Current
  <2>4. dmaResp'[d] = [type |-> "DATA", data |-> req[c].data]
    BY <1>1, <2>1, Zenon
  <2> QED BY <2>3, <2>4
<1>4. CASE Memory_Data
  <2>1. /\ memq # None /\ memq.type = "READ"
        /\ dmaResp' = [dmaResp EXCEPT ![dir.requestor] = [type |-> "DATA", data |-> memq.data]]
    BY <1>1, <1>4, Zenon DEF Memory_Data
  <2>2. memq.data = latest
    BY <1>1, <2>1, Zenon DEF DataOK
  <2>3. dmaResp'[d] = [type |-> "DATA", data |-> memq.data]
    BY <1>1, <2>1, Zenon
  <2> QED BY <2>2, <2>3
<1>5. CASE Memory_Ack
  <2>1. dmaResp' = [dmaResp EXCEPT ![dir.requestor] = [type |-> "ACK", data |-> Blank]]
    BY <1>1, <1>5, Zenon DEF Memory_Ack
  <2>2. dmaResp'[d] = [type |-> "ACK", data |-> Blank]
    BY <1>1, <2>1, Zenon
  <2>3. dmaResp'[d].type = "ACK"
    BY <2>2
  <2> QED BY <2>3
<1>6. ASSUME NEW e \in Dmas, DmaDone(e) PROVE FALSE
  <2>1. dmaResp' = [dmaResp EXCEPT ![e] = None]
    BY <1>6, Zenon DEF DmaDone
  <2> QED BY <1>1, <2>1, Zenon
<1>7. CASE dmaResp' = dmaResp
  BY <1>1, <1>7, Zenon
<1>8. \/ dmaResp' = dmaResp \/ Memory_Data \/ Memory_Ack
      \/ (\E c \in Caches : PUTX(c)) \/ (\E e \in Dmas : DmaDone(e))
  <2>1. ASSUME NEW c \in Caches,
               \/ \E t \in {"IS", "IM"} : Miss(c, t)
               \/ \E w \in system.words, v \in Values : StoreHit(c, w, v) \/ Data(c, w, v)
        PROVE  dmaResp' = dmaResp
    BY <2>1, Zenon DEF Miss, StoreHit, Data, dmaVars
  <2>2. ASSUME NEW c \in Caches,
               Replacement(c) \/ Forwarded(c) \/ CacheError(c) \/ GETX(c) \/ PUTX_NotOwner(c)
        PROVE  dmaResp' = dmaResp
    BY <2>2, Zenon DEF Replacement, Forwarded, Inv, Fwd_GETX, Writeback_Ack, Writeback_Nack,
                       CacheError, GETX, PUTX_NotOwner, dmaVars
  <2>3. ASSUME NEW e \in Dmas, (\E m \in DmaMsg : DmaIssue(e, m)) \/ DmaRequest(e)
        PROVE  dmaResp' = dmaResp
    BY <2>3, Zenon DEF DmaIssue, DmaRequest
  <2>4. DirError \/ vars' = vars => dmaResp' = dmaResp
    BY Zenon DEF DirError, vars, dmaVars
  <2> QED BY <2>1, <2>2, <2>3, <2>4, Zenon DEF Next
<1> QED BY <1>3, <1>4, <1>5, <1>6, <1>7, <1>8, Zenon

\* A DMA read is answered with what the writes so far left in the block, be it
\* from memory or from the writeback of the owner it invalidated.
THEOREM MIDmaReadsLatest == Spec => DmaReadsLatest
<1>1. IInv /\ [Next]_vars
        => [\A d \in Dmas :
              (dmaResp[d] = None /\ dmaResp'[d] # None /\ dmaResp'[d].type = "DATA")
                 => dmaResp'[d].data = latest]_vars
  BY DmaAnswered
<1> QED BY <1>1, SpecIInv, PTL DEF Spec, DmaReadsLatest

-----------------------------------------------------------------------------
(* No invalid transition.  What a step does to the forward network and to  *)
(* the state of a cache.                                                   *)

LEMMA FwdMoves ==
  ASSUME IInv, Next
  PROVE  \/ fwd' = fwd
         \/ \E c \in Caches : \E i \in 1..Len(fwd[c]) : Pop(c, i)
         \/ \E c \in Caches : \E r \in Caches : Send(c, "GETX", r) /\ dir.owner = c /\ GETX(r)
         \/ \E c \in Caches : Send(c, "WB_ACK", c) \/ Send(c, "WB_NACK", c)
         \/ \E c \in Caches : \E d \in Dmas : Send(c, "INV", None) /\ dmaReq[d] # None
<1>1. TypeOK /\ DirOK
  BY Zenon DEF IInv
<1>2. ASSUME NEW c \in Caches,
             \/ \E t \in {"IS", "IM"} : Miss(c, t)
             \/ \E w \in system.words, v \in Values : StoreHit(c, w, v) \/ Data(c, w, v)
             \/ Replacement(c) \/ CacheError(c) \/ PUTX(c)
      PROVE  fwd' = fwd
  BY <1>2, Zenon DEF Miss, StoreHit, Data, Replacement, CacheError, PUTX, netVars
<1>3. ASSUME NEW c \in Caches, Forwarded(c)
      PROVE  fwd' = fwd \/ \E i \in 1..Len(fwd[c]) : Pop(c, i)
  BY <1>3, SeenType, Zenon DEF Forwarded, Inv, Fwd_GETX, Writeback_Ack, Writeback_Nack
<1>4. ASSUME NEW r \in Caches, GETX(r)
      PROVE  fwd' = fwd \/ \E c \in Caches : Send(c, "GETX", r) /\ dir.owner = c
  <2>1. CASE fwd' = fwd
    BY <2>1, Zenon
  <2>2. CASE dir.state = "M" /\ Send(dir.owner, "GETX", r)
    <3>1. PICK c \in Caches : c = dir.owner
      BY <1>1, <2>2, Zenon DEF TypeOK, DirOK, Owned
    <3> QED BY <2>2, <3>1, Zenon
  <2> QED BY <1>4, <2>1, <2>2, Zenon DEF GETX
<1>5. ASSUME NEW c \in Caches, PUTX_NotOwner(c) PROVE Send(c, "WB_NACK", c)
  BY <1>5, Zenon DEF PUTX_NotOwner
<1>6. ASSUME NEW d \in Dmas, DmaRequest(d)
      PROVE  fwd' = fwd \/ \E c \in Caches : Send(c, "INV", None) /\ dmaReq[d] # None
  <2>1. CASE fwd' = fwd
    BY <2>1, Zenon
  <2>2. CASE dir.state = "M" /\ Send(dir.owner, "INV", None)
    <3>1. PICK c \in Caches : c = dir.owner
      BY <1>1, <2>2, Zenon DEF TypeOK, DirOK, Owned
    <3> QED BY <1>6, <2>2, <3>1, Zenon DEF DmaRequest
  <2> QED BY <1>6, <2>1, <2>2, Zenon DEF DmaRequest
<1>7. ASSUME Memory_Ack PROVE fwd' = fwd \/ \E c \in Caches : Send(c, "WB_ACK", c)
  <2>1. CASE dir.state = "ID_W"
    BY <1>7, <2>1, Zenon DEF Memory_Ack
  <2>2. CASE dir.state # "ID_W"
    <3>1. /\ Send(memq.requestor, "WB_ACK", memq.requestor)
          /\ memq # None /\ dir.state \in {"MI", "M_DRDI", "M_DWRI"}
      BY <1>7, <2>2, Zenon DEF Memory_Ack
    <3>2. memq \in MemRequest /\ memq.requestor # None
      BY <1>1, <3>1, Zenon DEF TypeOK, DirOK
    <3>3. PICK c \in Caches : c = memq.requestor
      BY <3>2, Zenon DEF MemRequest
    <3> QED BY <3>1, <3>3, Zenon
  <2> QED BY <2>1, <2>2, Zenon
<1>8. ASSUME NEW d \in Dmas, (\E m \in DmaMsg : DmaIssue(d, m)) \/ DmaDone(d)
      PROVE  fwd' = fwd
  BY <1>8, Zenon DEF DmaIssue, DmaDone, netVars
<1>9. Memory_Data \/ DirError => fwd' = fwd
  BY Zenon DEF Memory_Data, DirError, netVars
<1> QED BY <1>2, <1>3, <1>4, <1>5, <1>6, <1>7, <1>8, <1>9, Zenon DEF Next

LEMMA StateMoves ==
  ASSUME IInv, Next, NEW x \in Caches
  PROVE  /\ cache'[x].state # "I" => cache[x].state # "I" \/ \E s \in {"IS", "IM"} : Miss(x, s)
         /\ cache'[x].state = "MII" => \/ cache[x].state = "MII"
                                       \/ \E i \in Seen(x) : Writeback_Nack(x, i) /\ cache[x].state = "MI"
         /\ cache'[x].state = "II" => cache[x].state = "II" \/ Has(x, "GETX")
<1> DEFINE Goal == /\ cache'[x].state # "I" => cache[x].state # "I" \/ \E s \in {"IS", "IM"} : Miss(x, s)
                   /\ cache'[x].state = "MII" => \/ cache[x].state = "MII"
                                                 \/ \E i \in Seen(x) : Writeback_Nack(x, i) /\ cache[x].state = "MI"
                   /\ cache'[x].state = "II" => cache[x].state = "II" \/ Has(x, "GETX")
<1>1. cache \in [Caches -> [state : CacheState, data : Block]]
  BY Zenon DEF IInv, TypeOK
<1>2. cache'[x] = cache[x] => Goal
  BY Zenon
<1>3. ASSUME NEW c \in Caches, NEW s \in {"IS", "IM"}, Miss(c, s) PROVE Goal
  <2>1. cache' = [cache EXCEPT ![c] = [state |-> s, data |-> Blank]]
    BY <1>3, Zenon DEF Miss, Goto
  <2>2. x # c => cache'[x] = cache[x]
    BY <1>1, <2>1, Zenon
  <2>3. cache'[c].state = s
    BY <1>1, <2>1
  <2>4. CASE x = c
    BY <1>3, <2>3, <2>4, Zenon
  <2> QED BY <1>2, <2>2, <2>4, Zenon
<1>4. ASSUME NEW c \in Caches, cache[c].state \in {"M", "IS", "IM"},
             NEW s \in {"M", "MI"}, cache'[c].state = s,
             \A y \in Caches : y # c => cache'[y] = cache[y]
      PROVE  Goal
  <2>1. CASE x = c
    BY <1>4, <2>1, Zenon
  <2> QED BY <1>2, <1>4, <2>1, Zenon
<1>5. ASSUME NEW c \in Caches, NEW w, NEW v, StoreHit(c, w, v) \/ Data(c, w, v) PROVE Goal
  <2>1. /\ cache[c].state \in {"M", "IS", "IM"} /\ cache'[c].state = "M"
        /\ \A y \in Caches : y # c => cache'[y] = cache[y]
    <3>1. CASE StoreHit(c, w, v)
      BY <1>1, <3>1 DEF StoreHit
    <3>2. CASE Data(c, w, v)
      BY <1>1, <3>2 DEF Data
    <3> QED BY <1>5, <3>1, <3>2, Zenon
  <2> QED BY <1>4, <2>1, Zenon
<1>6. ASSUME NEW c \in Caches, cache[c].state = "M", issuePUT(c) PROVE Goal
  <2>1. cache' = [cache EXCEPT ![c] = [state |-> "MI", data |-> cache[c].data]]
    BY <1>6, Zenon DEF issuePUT, Goto
  <2>2. cache'[c].state = "MI" /\ \A y \in Caches : y # c => cache'[y] = cache[y]
    BY <1>1, <2>1
  <2> QED BY <1>4, <1>6, <2>2, Zenon
<1>7. ASSUME NEW c \in Caches, NEW i \in 1..Len(fwd[c]), Fwd_GETX(c, i) PROVE Goal
  <2>1. cache[c].state \in {"M", "MI", "MII"} /\ Has(c, "GETX")
    BY <1>7, Zenon DEF Fwd_GETX, Has, Msgs
  <2>2. \/ cache' = [cache EXCEPT ![c] = [state |-> "II", data |-> Blank]]
        \/ cache' = [cache EXCEPT ![c] = [state |-> "I", data |-> Blank]]
    BY <1>7, Zenon DEF Fwd_GETX, Goto
  <2>3. cache'[c].state \in {"II", "I"} /\ \A y \in Caches : y # c => cache'[y] = cache[y]
    BY <1>1, <2>2
  <2>4. CASE x = c
    BY <2>1, <2>3, <2>4, Zenon
  <2> QED BY <1>2, <2>3, <2>4, Zenon
<1>8. ASSUME NEW c \in Caches, NEW i, Writeback_Ack(c, i) PROVE Goal
  <2>1. cache' = [cache EXCEPT ![c] = [state |-> "I", data |-> Blank]]
    BY <1>8, Zenon DEF Writeback_Ack, Goto
  <2>2. cache'[c].state = "I" /\ \A y \in Caches : y # c => cache'[y] = cache[y]
    BY <1>1, <2>1
  <2>3. CASE x = c
    BY <2>2, <2>3, Zenon
  <2> QED BY <1>2, <2>2, <2>3, Zenon
<1>9. ASSUME NEW c \in Caches, NEW i \in Seen(c), Writeback_Nack(c, i) PROVE Goal
  <2>1. cache[c].state \in {"MI", "II"}
    BY <1>9, Zenon DEF Writeback_Nack
  <2>2. CASE cache[c].state = "MI"
    <3>1. cache' = [cache EXCEPT ![c] = [state |-> "MII", data |-> cache[c].data]]
      BY <1>9, <2>2, Zenon DEF Writeback_Nack, Goto
    <3>2. cache'[c].state = "MII" /\ \A y \in Caches : y # c => cache'[y] = cache[y]
      BY <1>1, <3>1
    <3>3. CASE x = c
      BY <1>9, <2>2, <3>2, <3>3, Zenon
    <3> QED BY <1>2, <3>2, <3>3, Zenon
  <2>3. CASE cache[c].state = "II"
    <3>1. cache' = [cache EXCEPT ![c] = [state |-> "I", data |-> Blank]]
      BY <1>9, <2>3, Zenon DEF Writeback_Nack, Goto
    <3>2. cache'[c].state = "I" /\ \A y \in Caches : y # c => cache'[y] = cache[y]
      BY <1>1, <3>1
    <3>3. CASE x = c
      BY <3>2, <3>3, Zenon
    <3> QED BY <1>2, <3>2, <3>3, Zenon
  <2> QED BY <2>1, <2>2, <2>3, Zenon
<1> HIDE DEF Goal
<1>10. ASSUME NEW c \in Caches, Forwarded(c) PROVE Goal
  <2>1. PICK i \in Seen(c) : \/ Inv(c, i) \/ Fwd_GETX(c, i)
                             \/ Writeback_Ack(c, i) \/ Writeback_Nack(c, i)
    BY <1>10, Zenon DEF Forwarded
  <2>2. i \in 1..Len(fwd[c])
    BY SeenType, Zenon
  <2>3. CASE Inv(c, i)
    BY <1>2, <1>6, <2>3, Zenon DEF Inv
  <2> QED BY <1>7, <1>8, <1>9, <2>1, <2>2, <2>3, Zenon
<1>11. ASSUME NEW c \in Caches, Replacement(c) PROVE Goal
  BY <1>6, <1>11, Zenon DEF Replacement
<1>12. ASSUME NEW c \in Caches, CacheError(c) \/ GETX(c) \/ PUTX(c) \/ PUTX_NotOwner(c)
       PROVE  Goal
  BY <1>2, <1>12, Zenon DEF CacheError, GETX, PUTX, PUTX_NotOwner
<1>13. ASSUME NEW d \in Dmas, (\E m \in DmaMsg : DmaIssue(d, m)) \/ DmaRequest(d) \/ DmaDone(d)
       PROVE  Goal
  BY <1>2, <1>13, Zenon DEF DmaIssue, DmaRequest, DmaDone
<1>14. Memory_Data \/ Memory_Ack \/ DirError => Goal
  BY <1>2, Zenon DEF Memory_Data, Memory_Ack, DirError
<1>15. Goal
  BY <1>3, <1>5, <1>10, <1>11, <1>12, <1>13, <1>14, Zenon DEF Next
<1> QED BY <1>15 DEF Goal

\* A controller that has made a request, a DMA controller that has made two
Spent(x) == left[x] < system.requests[x]
Twice(x) == left[x] + 2 <= system.requests[x]

\* The directory states in which a DMA request is served
Asking == {"ID", "ID_W", "M_DRD", "M_DWR", "M_DRDI", "M_DWRI"}

\* The request of a DMA controller is at one place; the next one may come while
\* memory stores the writeback that answered a read
DmaOK(d) ==
    /\ dma[d] # "READY" \/ dir.requestor = d => Spent(d)
    /\ dmaReq[d] # None => dma[d] # "READY" /\ dmaResp[d] = None
    /\ dmaResp[d] # None => dma[d] # "READY"
    /\ dir.requestor = d /\ dir.state # "M_DRDI"
          => dma[d] # "READY" /\ dmaReq[d] = None /\ dmaResp[d] = None
    /\ dir.requestor = d /\ dmaReq[d] # None => Twice(d)

RequestsOK ==
    /\ \A x \in Caches \cup Dmas : left[x] <= system.requests[x]
    /\ \A c \in Caches : cache[c].state # "I" => Spent(c)
    /\ \A d \in Dmas : DmaOK(d)
    /\ dir.state \in Asking <=> dir.requestor # None
    /\ \A c \in Caches : Has(c, "INV") => \E d \in Dmas : Spent(d)

\* Over an ordered network a refused writeback is never heard of before the
\* request it was refused for
OrderOK == system.ordered => \A c \in Caches : cache[c].state # "MII" /\ NackLast(fwd[c])

\* The only cache that makes requests is never asked for the block
Alone(a) == \A c \in Caches : system.requests[c] > 0 => c = a
OneCache == \A a \in Caches : Alone(a) =>
               \A c \in Caches : cache[c].state # "II" /\ ~Has(c, "GETX")

RInv == RequestsOK /\ OrderOK /\ OneCache /\ NoInvalidTransition

-----------------------------------------------------------------------------
(* How many requests are left.                                             *)

LEMMA LeftKept ==
  ASSUME left' = left, system' = system
  PROVE  \A x : (Spent(x) => Spent(x)') /\ (Twice(x) => Twice(x)')
BY Zenon DEF Spent, Twice

LEMMA LeftUsed ==
  ASSUME TypeOK, system' = system, NEW a \in Caches \cup Dmas, left[a] > 0,
         left' = [left EXCEPT ![a] = left[a] - 1],
         \A x \in Caches \cup Dmas : left[x] <= system.requests[x]
  PROVE  /\ \A x \in Caches \cup Dmas : left'[x] <= system'.requests[x]
         /\ \A x \in Caches \cup Dmas : (Spent(x) => Spent(x)') /\ (Twice(x) => Twice(x)')
         /\ Spent(a)' /\ (Spent(a) => Twice(a)')
<1>1. system.requests \in [Caches \cup Dmas -> Nat] /\ left \in [Caches \cup Dmas -> Nat]
  BY SystemFacts, Zenon DEF TypeOK
<1> DEFINE R == system.requests
<1> HIDE DEF R
<1>2. /\ R \in [Caches \cup Dmas -> Nat]
      /\ \A x \in Caches \cup Dmas : left[x] <= R[x]
      /\ system.requests = R /\ system'.requests = R
  BY <1>1, Zenon DEF R
<1>3. /\ left'[a] = left[a] - 1 /\ left[a] \in Nat /\ R[a] \in Nat
      /\ \A x \in Caches \cup Dmas : x # a => left'[x] = left[x]
  BY <1>1, <1>2
<1>4. \A x \in Caches \cup Dmas : left[x] \in Nat /\ R[x] \in Nat
  BY <1>1, <1>2
<1>5. left'[a] < R[a] /\ (left[a] < R[a] => left'[a] + 2 <= R[a]) /\ left'[a] <= R[a]
      /\ (left[a] + 2 <= R[a] => left'[a] + 2 <= R[a])
  BY <1>2, <1>3
<1>6. \A x \in Caches \cup Dmas : /\ left'[x] <= R[x]
                                  /\ left[x] < R[x] => left'[x] < R[x]
                                  /\ left[x] + 2 <= R[x] => left'[x] + 2 <= R[x]
  BY <1>2, <1>3, <1>5, Zenon
<1> QED BY <1>2, <1>5, <1>6, Zenon DEF Spent, Twice

\* Only a miss and a DMA request use one up.
LEMMA LeftMoves ==
  ASSUME Next
  PROVE  \/ left' = left
         \/ \E c \in Caches, s \in {"IS", "IM"} : Miss(c, s)
         \/ \E d \in Dmas, m \in DmaMsg : DmaIssue(d, m)
<1>1. ASSUME NEW c \in Caches,
             \/ \E w \in system.words, v \in Values : StoreHit(c, w, v) \/ Data(c, w, v)
             \/ Replacement(c) \/ Forwarded(c) \/ CacheError(c)
             \/ GETX(c) \/ PUTX(c) \/ PUTX_NotOwner(c)
      PROVE  left' = left
  BY <1>1, Zenon DEF StoreHit, Data, Replacement, Forwarded, Inv, Fwd_GETX, Writeback_Ack,
                     Writeback_Nack, CacheError, GETX, PUTX, PUTX_NotOwner
<1>2. ASSUME NEW d \in Dmas, DmaRequest(d) \/ DmaDone(d) PROVE left' = left
  BY <1>2, Zenon DEF DmaRequest, DmaDone
<1>3. Memory_Data \/ Memory_Ack \/ DirError => left' = left
  BY Zenon DEF Memory_Data, Memory_Ack, DirError
<1> QED BY <1>1, <1>2, <1>3, Zenon DEF Next

LEMMA LeftStep ==
  ASSUME IInv, RequestsOK, Next
  PROVE  /\ \A x \in Caches \cup Dmas : left'[x] <= system'.requests[x]
         /\ \A x \in Caches \cup Dmas : (Spent(x) => Spent(x)') /\ (Twice(x) => Twice(x)')
         /\ \A c \in Caches : (cache[c].state # "I")' => Spent(c)'
<1>1. /\ TypeOK /\ system' = system
      /\ \A x \in Caches \cup Dmas : left[x] <= system.requests[x]
  BY Zenon DEF IInv, RequestsOK, Next, Running
<1>2. /\ \A x \in Caches \cup Dmas : left'[x] <= system'.requests[x]
      /\ \A x \in Caches \cup Dmas : (Spent(x) => Spent(x)') /\ (Twice(x) => Twice(x)')
  <2>1. CASE left' = left
    BY <1>1, <2>1, LeftKept, Zenon
  <2>2. ASSUME NEW c \in Caches, NEW s \in {"IS", "IM"}, Miss(c, s)
        PROVE  left[c] > 0 /\ left' = [left EXCEPT ![c] = left[c] - 1]
    BY <2>2, Zenon DEF Miss
  <2>3. ASSUME NEW d \in Dmas, NEW m \in DmaMsg, DmaIssue(d, m)
        PROVE  left[d] > 0 /\ left' = [left EXCEPT ![d] = left[d] - 1]
    BY <2>3, Zenon DEF DmaIssue
  <2> QED BY <1>1, <2>1, <2>2, <2>3, LeftMoves, LeftUsed, Zenon
<1>3. ASSUME NEW c \in Caches, cache'[c].state # "I" PROVE Spent(c)'
  <2>1. CASE cache[c].state # "I"
    BY <1>2, <2>1, Zenon DEF RequestsOK
  <2>2. ASSUME NEW s \in {"IS", "IM"}, Miss(c, s) PROVE Spent(c)'
    <3>1. left[c] > 0 /\ left' = [left EXCEPT ![c] = left[c] - 1]
      BY <2>2, Zenon DEF Miss
    <3> QED BY <1>1, <3>1, LeftUsed, Zenon
  <2> QED BY <1>3, <2>1, <2>2, StateMoves, Zenon
<1> QED BY <1>2, <1>3, Zenon

\* Only a DMA request is followed by an invalidation.
LEMMA InvStep ==
  ASSUME IInv, RequestsOK, Next
  PROVE  \A c \in Caches : Has(c, "INV")' => \E d \in Dmas : Spent(d)'
<1>1. /\ \A d \in Dmas : Spent(d) => Spent(d)'
      /\ \A c \in Caches : Has(c, "INV") => \E d \in Dmas : Spent(d)
      /\ fwd \in [Caches -> Seq(Forward)]
  BY LeftStep, Zenon DEF RequestsOK, IInv, TypeOK
<1>2. SUFFICES (\A c \in Caches : Has(c, "INV")' => Has(c, "INV")) \/ \E d \in Dmas : Spent(d)
  BY <1>1, Zenon
<1>3. CASE fwd' = fwd
  BY <1>3, FwdKept, Zenon
<1>4. ASSUME NEW c \in Caches, NEW i \in 1..Len(fwd[c]), Pop(c, i)
      PROVE  \A x \in Caches : Has(x, "INV")' => Has(x, "INV")
  BY <1>1, <1>4, PopFact, Zenon
<1>5. ASSUME NEW c \in Caches, NEW t \in {"GETX", "WB_ACK", "WB_NACK"}, NEW r \in Caches, Send(c, t, r)
      PROVE  \A x \in Caches : Has(x, "INV")' => Has(x, "INV")
  <2>1. \A x \in Caches : \A y : Has(x, y)' <=> Has(x, y) \/ (x = c /\ y = t)
    <3>1. t \in {"GETX", "INV", "WB_ACK", "WB_NACK"} /\ r \in Caches \cup {None}
      BY Zenon
    <3>2. Sent(c, t, r)
      BY <1>1, <1>5, <3>1, SentFact, Zenon
    <3> QED BY <3>2, Zenon DEF Sent
  <2> QED BY <2>1
<1>6. ASSUME NEW d \in Dmas, dmaReq[d] # None PROVE Spent(d)
  BY <1>6, Zenon DEF RequestsOK, DmaOK
<1> QED BY <1>3, <1>4, <1>5, <1>6, FwdMoves, Zenon

-----------------------------------------------------------------------------
(* The DMA requests.                                                       *)

LEMMA DmaKept ==
  ASSUME NEW e \in Dmas, DmaOK(e),
         dma'[e] = dma[e], dmaReq'[e] = dmaReq[e], dmaResp'[e] = dmaResp[e],
         dir'.requestor = e => dir.requestor = e /\ (dir.state = "M_DRDI" => dir'.state = "M_DRDI"),
         Spent(e) => Spent(e)', Twice(e) => Twice(e)'
  PROVE  DmaOK(e)'
BY Zenon DEF DmaOK

LEMMA DmaStep ==
  ASSUME IInv, RequestsOK, Next
  PROVE  /\ \A e \in Dmas : DmaOK(e)'
         /\ (dir.state \in Asking <=> dir.requestor # None)'
<1> DEFINE Goal == /\ \A e \in Dmas : DmaOK(e)'
                   /\ (dir.state \in Asking <=> dir.requestor # None)'
<1>1. /\ TypeOK /\ \A e \in Dmas : DmaOK(e)
      /\ dir.state \in Asking <=> dir.requestor # None
      /\ \A e \in Dmas : (Spent(e) => Spent(e)') /\ (Twice(e) => Twice(e)')
  BY LeftStep, Zenon DEF IInv, RequestsOK
<1>2. /\ dir \in [state : DirState, owner : Caches \cup {None},
                  requestor : Dmas \cup {None}, tbe : {None} \cup DmaMsg]
      /\ dma \in [Dmas -> {"READY", "BUSY_RD", "BUSY_WR"}]
      /\ dmaReq \in [Dmas -> {None} \cup DmaMsg]
      /\ dmaResp \in [Dmas -> {None} \cup DmaAnswer]
  BY <1>1, Zenon DEF TypeOK
<1>3. ASSUME dir' = dir, dma' = dma, dmaReq' = dmaReq, dmaResp' = dmaResp PROVE Goal
  BY <1>1, <1>3, DmaKept, Zenon
<1>4. ASSUME NEW c \in Caches, GETX(c) PROVE Goal
  <2>1. /\ dma' = dma /\ dmaReq' = dmaReq /\ dmaResp' = dmaResp
        /\ dir.state \in {"I", "M"} /\ dir'.state \in {"IM", "M"} /\ dir'.requestor = dir.requestor
    <3>1. \/ dir.state = "I" /\ dir' = [dir EXCEPT !.state = "IM", !.owner = c]
          \/ dir.state = "M" /\ dir' = [dir EXCEPT !.owner = c]
      BY <1>4, Zenon DEF GETX
    <3>2. dir.state \in {"I", "M"} /\ dir'.state \in {"IM", "M"} /\ dir'.requestor = dir.requestor
      BY <1>2, <3>1, Zenon
    <3> QED BY <1>4, <3>2, Zenon DEF GETX, dmaVars
  <2>2. dir.state \notin Asking /\ dir'.state \notin Asking /\ dir.state # "M_DRDI"
    BY <2>1 DEF Asking
  <2> QED BY <1>1, <2>1, <2>2, DmaKept, Zenon
<1>5. ASSUME NEW c \in Caches, PUTX(c) PROVE Goal
  <2>1. /\ dma' = dma /\ dmaReq' = dmaReq /\ dir'.requestor = dir.requestor
        /\ dir.state \in {"M", "M_DRD", "M_DWR"}
        /\ dir.state = "M" => dir'.state = "MI"
        /\ dir.state = "M_DRD" => dir'.state = "M_DRDI"
        /\ dir.state = "M_DWR" => dir'.state = "M_DWRI"
    <3>1. /\ dir.state \in DOMAIN AfterPUTX
          /\ dir' = [dir EXCEPT !.state = AfterPUTX[dir.state], !.owner = None]
          /\ dma' = dma /\ dmaReq' = dmaReq
      BY <1>5, Zenon DEF PUTX
    <3> QED BY <1>2, <3>1 DEF AfterPUTX
  <2>2. (dir.state \in Asking <=> dir.requestor # None)'
    BY <1>1, <2>1 DEF Asking
  <2>3. dir.state # "M_DRD" => dmaResp' = dmaResp
    BY <1>5, Zenon DEF PUTX
  <2>4. \A e \in Dmas : e # dir.requestor => dmaResp'[e] = dmaResp[e]
    BY <1>2, <1>5, Zenon DEF PUTX
  <2>5. ASSUME NEW e \in Dmas PROVE DmaOK(e)'
    <3>1. CASE dir.state = "M_DRD" /\ e = dir.requestor
      <4>1. dma[e] # "READY" /\ dmaReq[e] = None /\ Spent(e)
        BY <1>1, <3>1, Zenon DEF DmaOK
      <4> QED BY <1>1, <2>1, <3>1, <4>1, Zenon DEF DmaOK
    <3>2. CASE ~(dir.state = "M_DRD" /\ e = dir.requestor)
      BY <1>1, <2>1, <2>3, <2>4, <3>2, DmaKept, Zenon
    <3> QED BY <3>1, <3>2, Zenon
  <2> QED BY <2>2, <2>5, Zenon
<1>6. ASSUME NEW r \in Dmas \cup {None}, NEW m, dir.requestor = r, dir'.requestor = None,
             dma' = dma, dmaReq' = dmaReq, dir'.state = "I",
             (dir.state # "M_DRDI" /\ dmaResp' = [dmaResp EXCEPT ![r] = m]) \/ dmaResp' = dmaResp
      PROVE  Goal
  <2>1. ASSUME NEW e \in Dmas PROVE DmaOK(e)'
    <3>1. CASE e = r /\ dir.state # "M_DRDI"
      <4>1. dma[e] # "READY" /\ dmaReq[e] = None /\ Spent(e)
        BY <1>1, <1>6, <3>1, Zenon DEF DmaOK
      <4> QED BY <1>1, <1>6, <4>1, MIAssumption, Zenon DEF DmaOK
    <3>2. CASE ~(e = r /\ dir.state # "M_DRDI")
      <4>1. dmaResp'[e] = dmaResp[e]
        BY <1>2, <1>6, <3>2, Zenon
      <4> QED BY <1>1, <1>6, <4>1, MIAssumption, DmaKept, Zenon
    <3> QED BY <3>1, <3>2, Zenon
  <2>2. dir'.state \notin Asking
    BY <1>6 DEF Asking
  <2> QED BY <1>6, <2>1, <2>2, Zenon
<1>7. PICK r \in Dmas \cup {None} : r = dir.requestor
  BY <1>2, Zenon
<1>8. ASSUME Memory_Data PROVE Goal
  <2>1. CASE dir.state = "IM" /\ dir' = [dir EXCEPT !.state = "M"] /\ dmaResp' = dmaResp
    <3>1. dir'.state = "M" /\ dir'.requestor = dir.requestor
      BY <1>2, <2>1
    <3>2. dir.state \notin Asking /\ dir'.state \notin Asking
      BY <2>1, <3>1 DEF Asking
    <3>3. dma' = dma /\ dmaReq' = dmaReq
      BY <1>8, Zenon DEF Memory_Data
    <3>4. dir'.requestor = None
      BY <1>1, <3>1, <3>2, Zenon
    <3> QED BY <1>1, <2>1, <3>2, <3>3, <3>4, MIAssumption, DmaKept, Zenon
  <2>2. CASE /\ dir.state = "ID" /\ dir' = [dir EXCEPT !.state = "I", !.requestor = None]
             /\ dmaResp' = [dmaResp EXCEPT ![dir.requestor] = [type |-> "DATA", data |-> memq.data]]
    <3>1. dir'.state = "I" /\ dir'.requestor = None /\ dir.state # "M_DRDI"
      BY <1>2, <2>2
    <3>2. dma' = dma /\ dmaReq' = dmaReq
      BY <1>8, Zenon DEF Memory_Data
    <3>3. PICK m : m = [type |-> "DATA", data |-> memq.data]
      BY Zenon
    <3> QED BY <1>6, <1>7, <2>2, <3>1, <3>2, <3>3, Zenon
  <2> QED BY <1>8, <2>1, <2>2, Zenon DEF Memory_Data
<1>9. ASSUME Memory_Ack PROVE Goal
  <2>1. /\ dir' = [dir EXCEPT !.state = "I", !.requestor = None, !.tbe = None]
        /\ dma' = dma /\ dmaReq' = dmaReq
        /\ \/ /\ dir.state \in {"M_DWRI", "ID_W"}
              /\ dmaResp' = [dmaResp EXCEPT ![dir.requestor] = [type |-> "ACK", data |-> Blank]]
           \/ dmaResp' = dmaResp
    BY <1>9, Zenon DEF Memory_Ack
  <2>2. dir'.state = "I" /\ dir'.requestor = None
    BY <1>2, <2>1
  <2> QED BY <1>6, <1>7, <2>1, <2>2, Zenon
<1>10. ASSUME NEW d \in Dmas, DmaRequest(d) PROVE Goal
  <2>1. PICK t \in {"ID", "ID_W", "M_DWR", "M_DRD"} :
           dir' = [dir EXCEPT !.state = t, !.requestor = d,
                       !.tbe = IF dmaReq[d].type = "WRITE" THEN dmaReq[d] ELSE None]
    BY <1>10, Zenon DEF DmaRequest
  <2>2. /\ dmaReq[d] # None /\ dmaReq' = [dmaReq EXCEPT ![d] = None] /\ dir.state \in {"I", "M"}
        /\ dma' = dma /\ dmaResp' = dmaResp
    BY <1>10, Zenon DEF DmaRequest
  <2>3. dir'.state = t /\ dir'.requestor = d
    BY <1>2, <2>1
  <2>4. t \in Asking /\ dir.state \notin Asking
    BY <2>2 DEF Asking
  <2>5. dmaReq'[d] = None /\ \A e \in Dmas : e # d => dmaReq'[e] = dmaReq[e]
    BY <1>2, <2>2, Zenon
  <2>6. DmaOK(d)'
    <3>1. dma[d] # "READY" /\ dmaResp[d] = None /\ Spent(d)
      BY <1>1, <2>2, Zenon DEF DmaOK
    <3> QED BY <1>1, <2>2, <2>5, <3>1, Zenon DEF DmaOK
  <2>7. \A e \in Dmas : e # d => DmaOK(e)'
    BY <1>1, <2>2, <2>3, <2>5, DmaKept, Zenon
  <2> QED BY <2>3, <2>4, <2>6, <2>7, MIAssumption, Zenon
<1>11. ASSUME NEW d \in Dmas, NEW m \in DmaMsg, DmaIssue(d, m) PROVE Goal
  <2>1. /\ dma[d] = "READY" /\ left[d] > 0 /\ left' = [left EXCEPT ![d] = left[d] - 1]
        /\ dma' = [dma EXCEPT ![d] = IF m.type = "READ" THEN "BUSY_RD" ELSE "BUSY_WR"]
        /\ dmaReq' = [dmaReq EXCEPT ![d] = m]
        /\ dir' = dir /\ dmaResp' = dmaResp
    BY <1>11, Zenon DEF DmaIssue, dirVars
  <2>2. Spent(d)' /\ (Spent(d) => Twice(d)')
    <3>1. system' = system /\ \A x \in Caches \cup Dmas : left[x] <= system.requests[x]
      BY Zenon DEF Next, Running, RequestsOK
    <3> QED BY <1>1, <2>1, <3>1, LeftUsed, Zenon
  <2>3. /\ dma'[d] # "READY" /\ dmaReq'[d] = m
        /\ \A e \in Dmas : e # d => dma'[e] = dma[e] /\ dmaReq'[e] = dmaReq[e]
    BY <1>2, <2>1
  <2>4. DmaOK(d)'
    <3>1. /\ dmaResp[d] = None /\ (dir.requestor = d => dir.state = "M_DRDI" /\ Spent(d))
      BY <1>1, <2>1, Zenon DEF DmaOK
    <3> QED BY <2>1, <2>2, <2>3, <3>1, Zenon DEF DmaOK
  <2>5. \A e \in Dmas : e # d => DmaOK(e)'
    BY <1>1, <2>1, <2>3, DmaKept, Zenon
  <2> QED BY <1>1, <2>1, <2>4, <2>5, Zenon
<1>12. ASSUME NEW d \in Dmas, DmaDone(d) PROVE Goal
  <2>1. /\ dmaResp[d] # None /\ dma' = [dma EXCEPT ![d] = "READY"]
        /\ dmaResp' = [dmaResp EXCEPT ![d] = None] /\ dir' = dir /\ dmaReq' = dmaReq
    BY <1>12, Zenon DEF DmaDone, dirVars
  <2>2. /\ dma'[d] = "READY" /\ dmaResp'[d] = None
        /\ \A e \in Dmas : e # d => dma'[e] = dma[e] /\ dmaResp'[e] = dmaResp[e]
    BY <1>2, <2>1, Zenon
  <2>3. DmaOK(d)'
    <3>1. /\ dmaReq[d] = None /\ (dir.requestor = d => dir.state = "M_DRDI" /\ Spent(d))
      BY <1>1, <2>1, Zenon DEF DmaOK
    <3> QED BY <1>1, <2>1, <2>2, <3>1, Zenon DEF DmaOK
  <2>4. \A e \in Dmas : e # d => DmaOK(e)'
    BY <1>1, <2>1, <2>2, DmaKept, Zenon
  <2> QED BY <1>1, <2>1, <2>3, <2>4, Zenon
<1> HIDE DEF Goal
<1>13. ASSUME NEW c \in Caches,
              \/ \E t \in {"IS", "IM"} : Miss(c, t)
              \/ \E w \in system.words, v \in Values : StoreHit(c, w, v) \/ Data(c, w, v)
              \/ Replacement(c) \/ Forwarded(c) \/ CacheError(c) \/ PUTX_NotOwner(c)
       PROVE  Goal
  <2>1. dir' = dir /\ dma' = dma /\ dmaReq' = dmaReq /\ dmaResp' = dmaResp
    BY <1>13, Zenon DEF Miss, StoreHit, Data, Replacement, Forwarded, Inv, Fwd_GETX, Writeback_Ack,
                        Writeback_Nack, CacheError, PUTX_NotOwner, dirVars, dmaVars
  <2> QED BY <1>3, <2>1, Zenon
<1>14. DirError => Goal
  BY <1>3, Zenon DEF DirError, dirVars, dmaVars
<1>15. Goal
  BY <1>4, <1>5, <1>8, <1>9, <1>10, <1>11, <1>12, <1>13, <1>14, Zenon DEF Next
<1> QED BY <1>15 DEF Goal

-----------------------------------------------------------------------------
(* The order of the messages, and the cache that is alone.                 *)

LEMMA OrderStep ==
  ASSUME IInv, OrderOK, Next
  PROVE  OrderOK'
<1>1. /\ TypeOK /\ system' = system /\ fwd \in [Caches -> Seq(Forward)]
      /\ \A x \in Caches : CacheOK(x)
  BY Zenon DEF IInv, TypeOK, Next, Running
<1> SUFFICES ASSUME system.ordered, NEW x \in Caches
             PROVE  cache'[x].state # "MII" /\ NackLast(fwd'[x])
  BY <1>1, Zenon DEF OrderOK
<1>2. \A c \in Caches : cache[c].state # "MII" /\ NackLast(fwd[c])
  BY Zenon DEF OrderOK
<1>3. cache'[x].state # "MII"
  <2>1. ASSUME NEW i \in Seen(x), Writeback_Nack(x, i), cache[x].state = "MI" PROVE FALSE
    <3>1. i \in 1..Len(fwd[x]) /\ i = 1 /\ fwd[x][i].type = "WB_NACK"
      BY <2>1, SeenType, Zenon DEF Seen, Writeback_Nack
    <3>2. Has(x, "WB_NACK")
      BY <3>1, Zenon DEF Has, Msgs
    <3>3. Has(x, "GETX")
      BY <1>1, <2>1, <3>2, Zenon DEF CacheOK, Keeps
    <3>4. PICK j \in 1..Len(fwd[x]) : fwd[x][j].type = "GETX"
      BY <3>3, Zenon DEF Has, Msgs
    <3>5. j < i
      BY <1>2, <3>1, <3>4, Zenon DEF NackLast
    <3> QED BY <3>1, <3>4, <3>5
  <2> QED BY <1>2, <2>1, StateMoves, Zenon
<1>4. CASE fwd' = fwd
  BY <1>2, <1>3, <1>4, Zenon
<1>5. ASSUME NEW c \in Caches, NEW i \in 1..Len(fwd[c]), Pop(c, i) PROVE NackLast(fwd'[x])
  BY <1>1, <1>2, <1>5, PopFact, Zenon
<1>6. ASSUME NEW c \in Caches, NEW t \in {"GETX", "INV", "WB_ACK", "WB_NACK"},
             NEW r \in Caches \cup {None}, Send(c, t, r), t = "GETX" => dir.owner = c
      PROVE  NackLast(fwd'[x])
  <2>1. t = "GETX" => ~Has(c, "WB_NACK")
    BY <1>1, <1>6, Zenon DEF CacheOK
  <2>2. /\ \A y \in Caches : y # c => fwd'[y] = fwd[y]
        /\ NackLast(fwd[c]) /\ (t = "GETX" => ~Has(c, "WB_NACK")) => NackLast(fwd'[c])
    BY <1>1, <1>6, SendFact
  <2> QED BY <1>2, <2>1, <2>2, Zenon
<1>7. NackLast(fwd'[x])
  <2>1. ASSUME NEW c \in Caches, NEW r \in Caches, Send(c, "GETX", r), dir.owner = c
        PROVE  NackLast(fwd'[x])
    BY <1>6, <2>1, Zenon
  <2>2. ASSUME NEW c \in Caches, Send(c, "WB_ACK", c) \/ Send(c, "WB_NACK", c) \/ Send(c, "INV", None)
        PROVE  NackLast(fwd'[x])
    BY <1>6, <2>2
  <2>3. CASE fwd' = fwd
    BY <1>2, <2>3, Zenon
  <2> QED BY <1>5, <2>1, <2>2, <2>3, FwdMoves, Zenon
<1> QED BY <1>3, <1>7, Zenon

LEMMA SpentActive ==
  ASSUME TypeOK, NEW x \in Caches \cup Dmas, Spent(x)
  PROVE  system.requests[x] > 0 /\ x \in Active
<1>1. /\ system.requests \in [Caches \cup Dmas -> Nat] /\ left \in [Caches \cup Dmas -> Nat]
  BY SystemFacts, Zenon DEF TypeOK
<1>2. system.requests[x] \in Nat /\ left[x] \in Nat
  BY <1>1, Zenon
<1>3. system.requests[x] > 0
  BY <1>2 DEF Spent
<1> QED BY <1>3, Zenon DEF Active

LEMMA OneCacheStep ==
  ASSUME IInv, RequestsOK, OneCache, Next
  PROVE  OneCache'
<1>1. /\ TypeOK /\ system' = system /\ fwd \in [Caches -> Seq(Forward)]
      /\ \A x \in Caches : CacheOK(x)
  BY Zenon DEF IInv, TypeOK, Next, Running
<1> SUFFICES ASSUME NEW a \in Caches, Alone(a), NEW x \in Caches
             PROVE  cache'[x].state # "II" /\ ~Has(x, "GETX")'
  BY <1>1, Zenon DEF OneCache, Alone
<1>2. \A c \in Caches : cache[c].state # "II" /\ ~Has(c, "GETX")
  BY Zenon DEF OneCache
<1>3. cache'[x].state # "II"
  BY <1>2, StateMoves, Zenon
<1>4. ASSUME NEW c \in Caches, NEW r \in Caches, dir.owner = c, GETX(r), Send(c, "GETX", r)
      PROVE  FALSE
  <2>1. /\ req[r] # None /\ req[r].type = "GETX"
    BY <1>4, Zenon DEF GETX
  <2>2. ~Putx(r) /\ ~Waits(r)
    BY <2>1, Zenon DEF Putx, Waits
  <2>3. cache[r].state \in {"IS", "IM"}
    BY <1>1, <2>1, <2>2, Zenon DEF CacheOK
  <2>4. ~Keeps(r)
    BY <2>2, <2>3, Zenon DEF Keeps
  <2>5. c # r
    BY <1>1, <1>4, <2>2, <2>4, Zenon DEF CacheOK
  <2>6. Keeps(c) \/ Waits(c)
    BY <1>1, <1>4, Zenon DEF CacheOK
  <2>7. cache[c].state # "I"
    BY <2>6, Zenon DEF Keeps, Waits
  <2>8. Spent(c) /\ Spent(r)
    BY <2>3, <2>7, Zenon DEF RequestsOK
  <2>9. system.requests[c] > 0 /\ system.requests[r] > 0
    BY <1>1, <2>8, SpentActive, Zenon
  <2> QED BY <2>5, <2>9, Zenon DEF Alone
<1>5. CASE fwd' = fwd
  BY <1>2, <1>3, <1>5, FwdKept, Zenon
<1>6. ASSUME NEW c \in Caches, NEW i \in 1..Len(fwd[c]), Pop(c, i) PROVE ~Has(x, "GETX")'
  BY <1>1, <1>2, <1>6, PopFact, Zenon
<1>7. ASSUME NEW c \in Caches, NEW t \in {"INV", "WB_ACK", "WB_NACK"},
             NEW r \in Caches \cup {None}, Send(c, t, r)
      PROVE  ~Has(x, "GETX")'
  <2>1. t \in {"GETX", "INV", "WB_ACK", "WB_NACK"}
    BY Zenon
  <2>2. \A q \in Caches : \A y : Has(q, y)' <=> Has(q, y) \/ (q = c /\ y = t)
    <3>1. Sent(c, t, r)
      BY <1>1, <1>7, <2>1, SentFact, Zenon
    <3> QED BY <3>1, Zenon DEF Sent
  <2> QED BY <1>2, <2>2
<1>8. ASSUME NEW c \in Caches, Send(c, "WB_ACK", c) \/ Send(c, "WB_NACK", c) \/ Send(c, "INV", None)
      PROVE  ~Has(x, "GETX")'
  BY <1>7, <1>8
<1> QED BY <1>3, <1>4, <1>5, <1>6, <1>8, FwdMoves, Zenon

-----------------------------------------------------------------------------
(* In the complete systems nothing goes wrong.                             *)

LEMMA CompleteFacts ==
  ASSUME TypeOK, Complete, NEW d \in Dmas, Spent(d)
  PROVE  /\ \E a \in Caches : Alone(a)
         /\ system.requests[d] = 1
         /\ \A e \in Dmas : Spent(e) => e = d
<1>1. d \in Active
  BY SpentActive, Zenon
<1>2. PICK c \in Caches, e \in Dmas : Active \subseteq {c, e} /\ system.requests[e] = 1
  BY <1>1, Zenon DEF Complete
<1>3. c \notin Dmas /\ e \notin Caches
  BY MIAssumption, Zenon
<1>4. d = e
  BY <1>1, <1>2, <1>3, Zenon
<1>5. Alone(c)
  BY <1>2, <1>3, Zenon DEF Alone, Active
<1>6. \A q \in Dmas : Spent(q) => q = d
  BY <1>2, <1>3, <1>4, SpentActive, Zenon
<1> QED BY <1>2, <1>4, <1>5, <1>6, Zenon

LEMMA NoCacheError ==
  ASSUME IInv, RInv, system.ordered, Complete, NEW c \in Caches
  PROVE  ~CacheError(c)
<1>1. TypeOK /\ CacheOK(c) /\ cache[c].state \in CacheState
  BY Zenon DEF IInv, TypeOK
<1>2. cache[c].state # "MII"
  BY Zenon DEF RInv, OrderOK
<1> SUFFICES ASSUME NEW e \in Events(c), <<cache[c].state, e>> \notin CacheTable
             PROVE  FALSE
  BY Zenon DEF CacheError
<1> DEFINE s == cache[c].state
<1>3. /\ s \in {"IS", "IM", "M", "MI", "MII"} => e # "GETX"
      /\ s \in {"IS", "IM", "M", "MI", "I"} => e # "INV"
      /\ s = "MI" => e # "WB_ACK" /\ e # "WB_NACK"
      /\ s = "II" => e # "WB_NACK"
      /\ s \in {"IS", "IM"} => e # "DATA"
      /\ s # "MII" => e # "Store"
  BY <1>1, Zenon DEF CacheTable
<1>4. /\ e \in {"DATA"} => resp[c] # None
      /\ e \in {"DATA", "Store"} \/ (Has(c, e) /\ e \in {"GETX", "INV", "WB_ACK", "WB_NACK"})
  <2>1. CASE e \in {q \in {"DATA"} : resp[c] # None} \cup {"Store"}
    BY <2>1, Zenon
  <2>2. ASSUME NEW i \in Seen(c), e = fwd[c][i].type
        PROVE  Has(c, e) /\ e \in {"GETX", "INV", "WB_ACK", "WB_NACK"}
    <3>1. i \in 1..Len(fwd[c])
      BY SeenType, Zenon
    <3>2. fwd[c] \in Seq(Forward)
      BY <1>1, Zenon DEF TypeOK
    <3>3. fwd[c][i] \in Forward
      BY <3>1, <3>2
    <3>4. e \in {"GETX", "INV", "WB_ACK", "WB_NACK"}
      BY <2>2, <3>3, Zenon DEF Forward
    <3> QED BY <2>2, <3>1, <3>4, Zenon DEF Has, Msgs
  <2>3. e \in {q \in {"DATA"} : resp[c] # None} \cup {"Store"} \/ \E i \in Seen(c) : e = fwd[c][i].type
    BY Zenon DEF Events
  <2>4. CASE \E i \in Seen(c) : e = fwd[c][i].type
    <3>1. Has(c, e) /\ e \in {"GETX", "INV", "WB_ACK", "WB_NACK"}
      BY <2>2, <2>4, Zenon
    <3> QED BY <3>1
  <2> QED BY <2>1, <2>3, <2>4, Zenon
<1> HIDE DEF s
<1>5. s = cache[c].state
  BY DEF s
<1>6. e # "Store"
  BY <1>2, <1>3, <1>5, Zenon
<1>7. e # "DATA"
  BY <1>1, <1>3, <1>4, <1>5, Zenon DEF CacheOK, Waits
<1>8. ASSUME e = "GETX" PROVE FALSE
  <2>1. Keeps(c) \/ Waits(c)
    BY <1>1, <1>4, <1>8, Zenon DEF CacheOK
  <2>2. s \in {"IS", "IM", "M", "MI", "MII"}
    BY <1>5, <2>1, Zenon DEF Keeps, Waits
  <2> QED BY <1>3, <1>8, <2>2, Zenon
<1>9. ASSUME e = "INV" PROVE FALSE
  <2>1. PICK d \in Dmas : Spent(d)
    BY <1>4, <1>9, Zenon DEF RInv, RequestsOK
  <2>2. cache[c].state # "II"
    BY <1>1, <2>1, CompleteFacts, Zenon DEF RInv, OneCache
  <2>3. s \in {"IS", "IM", "M", "MI", "I"}
    BY <1>1, <1>2, <1>5, <2>2, Zenon DEF CacheState
  <2> QED BY <1>3, <1>9, <2>3, Zenon
<1>10. ASSUME e = "WB_ACK" PROVE FALSE
  <2>1. s = "MI"
    BY <1>1, <1>4, <1>5, <1>10, Zenon DEF CacheOK
  <2> QED BY <1>3, <1>10, <2>1, Zenon
<1>11. ASSUME e = "WB_NACK" PROVE FALSE
  <2>1. s \in {"MI", "II"}
    BY <1>1, <1>4, <1>5, <1>11, Zenon DEF CacheOK
  <2> QED BY <1>3, <1>11, <2>1, Zenon
<1> QED BY <1>4, <1>6, <1>7, <1>8, <1>9, <1>10, <1>11, Zenon

LEMMA NoDirError ==
  ASSUME IInv, RInv, Complete
  PROVE  ~DirError
<1> SUFFICES ASSUME DirError PROVE FALSE
  OBVIOUS
<1>1. /\ TypeOK /\ RequestsOK /\ OneCache /\ dir.state \in Invalidating
      /\ \A x \in Caches : CacheOK(x)
  BY Zenon DEF IInv, RInv, DirError
<1>2. dir.state \in Asking
  BY <1>1 DEF Invalidating, Asking
<1>3. PICK d \in Dmas : d = dir.requestor
  BY <1>1, <1>2, Zenon DEF TypeOK, RequestsOK
<1>4. Spent(d)
  BY <1>1, <1>3, Zenon DEF RequestsOK, DmaOK
<1>5. /\ \E a \in Caches : Alone(a)
      /\ system.requests[d] = 1
      /\ \A e \in Dmas : Spent(e) => e = d
  BY <1>1, <1>4, CompleteFacts, Zenon
<1>6. ASSUME NEW e \in Dmas, dmaReq[e] # None PROVE FALSE
  <2>1. DmaOK(e)
    BY <1>1, Zenon DEF RequestsOK
  <2>2. Spent(e)
    BY <1>6, <2>1, Zenon DEF DmaOK
  <2>3. e = d
    BY <1>5, <2>2, Zenon
  <2>4. Twice(d)
    BY <1>3, <1>6, <2>1, <2>3, Zenon DEF DmaOK
  <2>5. left[d] \in Nat
    BY <1>1, Zenon DEF TypeOK
  <2> QED BY <1>5, <2>4, <2>5 DEF Twice
<1>7. ASSUME NEW c \in Caches, req[c] # None, req[c].type = "PUTX", dir.owner # c PROVE FALSE
  <2>1. Putx(c) /\ ~Waits(c)
    BY <1>7, Zenon DEF Putx, Waits
  <2>2. cache[c].state \in {"MI", "II"}
    BY <1>1, <2>1, Zenon DEF CacheOK
  <2>3. cache[c].state # "II" /\ ~Has(c, "GETX")
    BY <1>1, <1>5, Zenon DEF OneCache
  <2>4. Keeps(c)
    BY <2>1, <2>2, <2>3, Zenon DEF Keeps
  <2> QED BY <1>1, <1>7, <2>3, <2>4, Zenon DEF CacheOK
<1> QED BY <1>6, <1>7, Zenon DEF DirError

LEMMA ErrorStep ==
  ASSUME IInv, RInv, Next
  PROVE  NoInvalidTransition'
<1>1. system' = system /\ ~error
  BY Zenon DEF Next, Running
<1>2. Complete' <=> Complete
  BY <1>1, Zenon DEF Complete, Active
<1>3. \/ error' = error \/ DirError
      \/ \E c \in Caches : CacheError(c)
  <2>1. ASSUME NEW c \in Caches,
               \/ \E t \in {"IS", "IM"} : Miss(c, t)
               \/ \E w \in system.words, v \in Values : StoreHit(c, w, v) \/ Data(c, w, v)
               \/ Replacement(c) \/ Forwarded(c)
               \/ GETX(c) \/ PUTX(c) \/ PUTX_NotOwner(c)
        PROVE  error' = error
    BY <2>1, Zenon DEF Miss, StoreHit, Data, Replacement, Forwarded, Inv, Fwd_GETX, Writeback_Ack,
                       Writeback_Nack, GETX, PUTX, PUTX_NotOwner
  <2>2. ASSUME NEW d \in Dmas, (\E m \in DmaMsg : DmaIssue(d, m)) \/ DmaRequest(d) \/ DmaDone(d)
        PROVE  error' = error
    BY <2>2, Zenon DEF DmaIssue, DmaRequest, DmaDone
  <2>3. Memory_Data \/ Memory_Ack => error' = error
    BY Zenon DEF Memory_Data, Memory_Ack
  <2> QED BY <2>1, <2>2, <2>3, Zenon DEF Next
<1> QED BY <1>1, <1>2, <1>3, NoCacheError, NoDirError, Zenon DEF NoInvalidTransition

LEMMA NextRInv ==
  ASSUME IInv, RInv, [Next]_vars
  PROVE  RInv'
<1>1. CASE Next
  <2>1. RequestsOK /\ OrderOK /\ OneCache
    BY Zenon DEF RInv
  <2>2. RequestsOK'
    BY <1>1, <2>1, LeftStep, InvStep, DmaStep, Zenon DEF RequestsOK
  <2> QED BY <1>1, <2>1, <2>2, OrderStep, OneCacheStep, ErrorStep, Zenon DEF RInv
<1>2. CASE vars' = vars
  <2>1. UNCHANGED <<system, cache, req, fwd, resp, dir, mem, memq, dma, dmaReq, dmaResp,
                    left, latest, error>>
    BY <1>2, Zenon DEF vars, netVars, dirVars, dmaVars
  <2>2. RequestsOK'
    BY <2>1, FwdKept, Zenon DEF RInv, RequestsOK, DmaOK, Spent, Twice
  <2>3. OrderOK'
    BY <2>1, Zenon DEF RInv, OrderOK
  <2>4. OneCache'
    BY <2>1, FwdKept, Zenon DEF RInv, OneCache, Alone
  <2>5. NoInvalidTransition'
    BY <2>1, Zenon DEF RInv, NoInvalidTransition, Complete, Active
  <2> QED BY <2>2, <2>3, <2>4, <2>5, Zenon DEF RInv
<1> QED BY <1>1, <1>2, Zenon

LEMMA InitRInv ==
  ASSUME Init
  PROVE  RInv
<1>1. IInv
  BY InitIInv
<1>2. /\ left = system.requests /\ ~error
      /\ \A c \in Caches : cache[c].state = "I" /\ fwd[c] = << >>
      /\ dir.state = "I" /\ dir.requestor = None
      /\ \A d \in Dmas : dma[d] = "READY" /\ dmaReq[d] = None /\ dmaResp[d] = None
  BY Zenon DEF Init
<1>3. ASSUME NEW c \in Caches PROVE NackLast(fwd[c]) /\ \A t : ~Has(c, t)
  <2>1. 1..Len(fwd[c]) = {}
    BY <1>2
  <2> QED BY <2>1, Zenon DEF NackLast, Has, Msgs
<1>4. \A x \in Caches \cup Dmas : left[x] <= system.requests[x]
  <2>1. left \in [Caches \cup Dmas -> Nat]
    BY <1>1, Zenon DEF IInv, TypeOK
  <2>2. \A x \in Caches \cup Dmas : left[x] <= left[x]
    BY <2>1
  <2> QED BY <1>2, <2>2, Zenon
<1>5. RequestsOK
  BY <1>2, <1>3, <1>4, MIAssumption, Zenon DEF RequestsOK, DmaOK, Asking
<1> QED BY <1>2, <1>3, <1>5, Zenon DEF RInv, OrderOK, OneCache, NoInvalidTransition

\* Caches without DMA, and one cache with a single DMA request, never meet an
\* event their state has no transition for over an ordered forward network:
\* ERROR_MSG("Invalid transition") is not reached, with any number of caches
\* and of requests.
THEOREM MINoInvalidTransition == Spec => []NoInvalidTransition
<1>1. Init => RInv
  BY InitRInv
<1>2. IInv /\ RInv /\ [Next]_vars => RInv'
  BY NextRInv
<1>3. RInv => NoInvalidTransition
  BY Zenon DEF RInv
<1> QED BY <1>1, <1>2, <1>3, SpecIInv, PTL DEF Spec
=============================================================================

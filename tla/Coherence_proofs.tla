--------------------------- MODULE Coherence_proofs ---------------------------
(***************************************************************************)
(* Snooping caches on one bus, for any number of caches, accesses and      *)
(* targets: every copy is current, and every request has one answer.       *)
(*                                                                         *)
(* The invariant says what the MSHRs in service stand for.  The requests   *)
(* for an exclusive copy form a chain in the order in which they got the   *)
(* bus: the first has its answer on its way, every other is promised one   *)
(* by the request before it.  A request extends the chain                  *)
(* (SendRequestStep), an answer takes its head away (handleResponseStep).  *)
(***************************************************************************)
EXTENDS Coherence, TLAPS

OnBus == {"ReadReq", "ReadExReq", "UpgradeReq"}
OfCpu == {"ReadReq", "WriteReq"}

(* The bus sees of an MSHR: a request for an exclusive copy is in service, *)
(* or one for a copy to read; a later request will take the copy away, or  *)
(* shares it.                                                              *)
Ex(c) == inService(c) /\ Exclusive(mshr[c].targets)
Rd(c) == inService(c) /\ ~Exclusive(mshr[c].targets)
Passed(c) == inService(c) /\ mshr[c].pendingInvalidate
Sharing(c) == inService(c) /\ mshr[c].pendingShared

(* d is to answer request t, kept as its target i.                         *)
Promised(d, i, t) ==
  /\ Ex(d) /\ i \in 1 .. Len(mshr[d].targets)
  /\ t = mshr[d].targets[i] /\ t.snoop

Owes(d, c) == \E i, t : Promised(d, i, t) /\ t.from = c

(* The targets of an MSHR: a snooped request for an exclusive copy is the  *)
(* last one, and no write follows a snooped request.                       *)
GoodTargets(c, t) ==
  /\ \A i \in 1 .. Len(t) :
       /\ t[i].snoop => t[i].cmd \in OnBus /\ t[i].from # c
       /\ ~t[i].snoop => t[i].cmd \in OfCpu
       /\ t[i].snoop /\ t[i].cmd # "ReadReq" => i = Len(t)
  /\ \A i, j \in 1 .. Len(t) : i < j /\ t[i].snoop /\ ~t[j].snoop => t[j].cmd = "ReadReq"

Own(t) == \A i \in 1 .. Len(t) : ~t[i].snoop /\ t[i].cmd \in OfCpu

GoodMSHR(c, m) ==
  /\ GoodTargets(c, m.targets) /\ Own(m.deferred)
  /\ ~m.inService => Own(m.targets)
  /\ ~Exclusive(m.targets) /\ ~m.pendingInvalidate => Own(m.targets)
  /\ m.pendingInvalidate <=> /\ m.targets[Len(m.targets)].snoop
                             /\ m.targets[Len(m.targets)].cmd # "ReadReq"
  /\ ~Exclusive(m.targets) => \A i \in 1 .. Len(m.targets) :
                                m.targets[i].snoop => m.targets[i].cmd # "ReadReq"
  /\ m.pendingShared => m.inService /\ ~Exclusive(m.targets)
  /\ m.deferred # << >> => /\ m.inService
                           /\ \/ m.pendingInvalidate
                              \/ ~Exclusive(m.targets) /\ Exclusive(m.deferred)

MshrInv == \A c \in Caches : mshr[c] # None => GoodMSHR(c, mshr[c])

GoodCopy(c) ==
  /\ blk[c].bits = {} \/ isValid(blk[c])
  /\ isValid(blk[c]) => blk[c].data = latest
  /\ isValid(blk[c]) /\ mshr[c] = None => isReadable(blk[c])
  /\ isValid(blk[c]) /\ mshr[c] # None => ~isWritable(blk[c]) /\ Exclusive(mshr[c].targets)
  /\ wb[c] # None => wb[c] = latest /\ ~isValid(blk[c]) /\ ~inService(c)
  /\ seen[c] <= latest

CopyInv == \A c \in Caches : GoodCopy(c)

(* Nobody else has the block, or will have a copy that it may keep.        *)
Alone(c) == \A d \in Caches \ {c} :
  /\ ~isValid(blk[d]) /\ wb[d] = None
  /\ inService(d) => Rd(d) /\ Passed(d)

WritableInv == \A c \in Caches : isWritable(blk[c]) => Alone(c)

(* An answer that hands the dirty copy over.                               *)
Hands(r) == r.inhibit /\ ~r.shared

GoodAnswer(c, r) ==
  /\ inService(c) /\ r.cmd \in OnBus
  /\ r.cmd = "ReadReq" <=> Rd(c)
  /\ r.cmd = "ReadReq" => ~Hands(r)
  /\ r.shared => r.cmd = "ReadReq"
  /\ r.cmd = "UpgradeReq" => isValid(blk[c])
  /\ r.cmd = "ReadExReq" => r.data = latest
  /\ Rd(c) => seen[c] <= r.data /\ r.data <= latest
  /\ Rd(c) /\ ~Passed(c) => r.data = latest /\ \A d \in Caches : ~Ex(d)
  /\ Rd(c) /\ ~Passed(c) /\ ~r.shared /\ ~Sharing(c) => Alone(c)
  /\ r.inval => Rd(c) /\ Passed(c)
  /\ Hands(r) => ~isDirty(blk[c])

AnswerInv ==
  /\ \A r \in resp : GoodAnswer(r.to, r)
  /\ \A r, s \in resp : r.to = s.to => r = s

GoodPromise(d, t) ==
  /\ t \in OneTarget /\ t.from \in Caches
  /\ inService(t.from)
  /\ \A r \in resp : r.to # t.from
  /\ t.cmd \in {"ReadReq", "ReadExReq"}
  /\ t.cmd = "ReadReq" <=> Rd(t.from)
  /\ Rd(t.from) /\ Passed(d) => Passed(t.from)

PromiseInv ==
  /\ \A d \in Caches : \A i, t : Promised(d, i, t) => GoodPromise(d, t)
  /\ \A d, e \in Caches : \A i, j, t, u :
       Promised(d, i, t) /\ Promised(e, j, u) /\ t.from = u.from => d = e /\ i = j

SupplierInv ==
  \A c \in Caches : inService(c) => \/ \E r \in resp : r.to = c
                                    \/ \E d \in Caches : Owes(d, c)

(* The requests for an exclusive copy in the order of the bus.             *)
Chain(q) ==
  /\ q \in Seq(Caches)
  /\ \A i, j \in 1 .. Len(q) : q[i] = q[j] => i = j
  /\ \A c \in Caches : Ex(c) <=> \E i \in 1 .. Len(q) : q[i] = c
  /\ \A i \in 1 .. Len(q) - 1 : Owes(q[i], q[i + 1])
  /\ \A i \in 1 .. Len(q) : Passed(q[i]) <=> i # Len(q)
  /\ q # << >> => /\ \E r \in resp : r.to = q[1]
                  /\ \A d \in Caches : wb[d] = None /\ (isValid(blk[d]) => d = q[1])

ChainInv == \E q : Chain(q)

Owns(c) == isDirty(blk[c]) \/ wb[c] # None

OwnerInv ==
  /\ \A c, d \in Caches : Owns(c) /\ Owns(d) => c = d
  /\ (\A c \in Caches : ~Owns(c)) /\ (\A r \in resp : ~Hands(r)) => mem = latest

IInv ==
  /\ TypeOK /\ MshrInv /\ CopyInv /\ WritableInv /\ AnswerInv
  /\ PromiseInv /\ SupplierInv /\ ChainInv /\ OwnerInv
-----------------------------------------------------------------------------
(* The loop over the targets.                                              *)

LoopState == [blk : Copies, latest : Nat, seen : Nat, out : SUBSET Responses]

(* What a cache with a dirty copy sends to the sender of request t.        *)
Reply(c, t, data, inval) ==
  [to |-> t.from, by |-> c, cmd |-> t.cmd, data |-> data, shared |-> t.cmd = "ReadReq",
   inhibit |-> TRUE, inval |-> inval /\ t.cmd = "ReadReq"]

LEMMA SatisfyFact ==
  ASSUME NEW s \in LoopState, NEW cmd
  PROVE  LET u == Satisfy(s, cmd)
         IN  /\ u \in LoopState /\ u.out = s.out
             /\ cmd = "WriteReq" => /\ u.blk.bits = s.blk.bits \cup {"Dirty"}
                                    /\ u.blk.data = s.blk.data + 1
                                    /\ u.latest = s.latest + 1 /\ u.seen = s.blk.data + 1
             /\ cmd # "WriteReq" => /\ u.blk = s.blk /\ u.latest = s.latest
                                    /\ u.seen = s.blk.data
<1>1. s.blk \in Copies /\ s.latest \in Nat /\ s.seen \in Nat /\ s.out \in SUBSET Responses
  BY DEF LoopState
<1>2. s.blk.bits \in SUBSET {"Valid", "Readable", "Writable", "Dirty"} /\ s.blk.data \in Nat
  BY <1>1 DEF Copies
<1>3. CASE cmd = "WriteReq"
  <2> DEFINE b == [bits |-> s.blk.bits \cup {"Dirty"}, data |-> s.blk.data + 1]
             u == Satisfy(s, cmd)
  <2>1. u = [s EXCEPT !.blk = b, !.latest = s.latest + 1, !.seen = s.blk.data + 1]
    BY <1>3 DEF Satisfy, LoopState
  <2>2. b \in Copies /\ b.bits = s.blk.bits \cup {"Dirty"} /\ b.data = s.blk.data + 1
    BY <1>2 DEF Copies
  <2> HIDE DEF b
  <2>3. u = [blk |-> b, latest |-> s.latest + 1, seen |-> s.blk.data + 1, out |-> s.out]
    BY <2>1, Zenon DEF LoopState
  <2>4. s.latest + 1 \in Nat /\ s.blk.data + 1 \in Nat
    BY <1>1, <1>2
  <2> HIDE DEF u
  <2>5. /\ u.blk = b /\ u.latest = s.latest + 1 /\ u.seen = s.blk.data + 1 /\ u.out = s.out
    BY <2>3, Zenon
  <2>6. u \in LoopState
    BY <1>1, <2>2, <2>3, <2>4, Zenon DEF LoopState
  <2> QED BY <1>3, <2>2, <2>5, <2>6, Zenon DEF u
<1>4. CASE cmd # "WriteReq"
  BY <1>1, <1>2, <1>4 DEF Satisfy, LoopState
<1> QED BY <1>3, <1>4, Zenon

LEMMA InvalidFact == Invalid \in Copies /\ Invalid.bits = {} /\ Invalid.data = 0
BY DEF Invalid, Copies

(* u is what a snoop makes of s.                                           *)
SnoopResult(s, c, t, inval, u) ==
  /\ u \in LoopState /\ u.latest = s.latest /\ u.seen = s.seen
  /\ ~isValid(s.blk) => u = s
  /\ isValid(s.blk) =>
       /\ u.out = IF isDirty(s.blk)
                  THEN s.out \cup {Reply(c, t, s.blk.data, inval)} ELSE s.out
       /\ t.cmd = "ReadReq" => /\ u.blk.bits = s.blk.bits \ {"Writable"}
                               /\ u.blk.data = s.blk.data
       /\ t.cmd # "ReadReq" => u.blk = Invalid

LEMMA SnoopFact ==
  ASSUME NEW s \in LoopState, NEW c \in Caches, NEW t \in OneTarget, NEW inval \in BOOLEAN
  PROVE  SnoopResult(s, c, t, inval, handleSnoop(s, c, t, inval))
<1> DEFINE u == handleSnoop(s, c, t, inval)
<1> SUFFICES SnoopResult(s, c, t, inval, u)
  OBVIOUS
<1>1. s.blk \in Copies /\ s.latest \in Nat /\ s.seen \in Nat /\ s.out \in SUBSET Responses
  BY DEF LoopState
<1>2. s.blk.bits \in SUBSET {"Valid", "Readable", "Writable", "Dirty"} /\ s.blk.data \in Nat
  BY <1>1 DEF Copies
<1>3. CASE ~isValid(s.blk)
  BY <1>3, Zenon DEF handleSnoop, SnoopResult
<1>4. CASE isValid(s.blk)
  <2> DEFINE x == Reply(c, t, s.blk.data, inval)
             o == IF isDirty(s.blk) THEN s.out \cup {x} ELSE s.out
             b == IF t.cmd = "ReadReq" THEN [s.blk EXCEPT !.bits = s.blk.bits \ {"Writable"}]
                  ELSE Invalid
  <2>1. u = [s EXCEPT !.out = o, !.blk = b]
    BY <1>4, Zenon DEF handleSnoop, Reply
  <2>2. x \in Responses
    BY <1>2 DEF Reply, Responses, OneTarget
  <2>3. o \in SUBSET Responses
    BY <1>1, <2>2, Zenon
  <2>4. /\ b \in Copies
        /\ t.cmd = "ReadReq" => b.bits = s.blk.bits \ {"Writable"} /\ b.data = s.blk.data
        /\ t.cmd # "ReadReq" => b = Invalid
    BY <1>1, <1>2, InvalidFact DEF Copies
  <2> HIDE DEF o, b, u
  <2>5. /\ u.blk = b /\ u.latest = s.latest /\ u.seen = s.seen /\ u.out = o
        /\ u \in LoopState
    BY <1>1, <2>1, <2>3, <2>4, Zenon DEF LoopState
  <2> QED BY <1>4, <2>4, <2>5, Zenon DEF o, SnoopResult
<1> QED BY <1>3, <1>4, Zenon

Wrote(t, i) == \E k \in 1 .. i : ~t[k].snoop /\ t[k].cmd = "WriteReq"
WasSnooped(t, i) == \E k \in 1 .. i : t[k].snoop
Taken(t, i) == \E k \in 1 .. i : t[k].snoop /\ t[k].cmd # "ReadReq"

(* The data of the copy in a state of the loop.                            *)
Now(filled, s) == filled.data + (s.latest - latest)

(* After i targets t of cache c, whose copy was `filled' by the answer.    *)
LoopInv(c, t, filled, inval, i, s) ==
  /\ s \in LoopState
  /\ s.latest >= latest
  /\ ~Wrote(t, i) => s.latest = latest
  /\ Taken(t, i) => s.blk = Invalid
  /\ ~Taken(t, i) => /\ s.blk.data = Now(filled, s)
                     /\ {"Valid", "Readable"} \subseteq s.blk.bits
                     /\ isDirty(s.blk) <=> isDirty(filled) \/ Wrote(t, i)
                     /\ "Writable" \in s.blk.bits
                          <=> "Writable" \in filled.bits /\ ~WasSnooped(t, i)
  /\ seen[c] <= s.seen /\ s.seen <= Now(filled, s)
  /\ \A x \in s.out : \E k \in 1 .. i :
       t[k].snoop /\ x = Reply(c, t[k], Now(filled, s), inval)
  /\ \A k \in 1 .. i : t[k].snoop /\ (isDirty(filled) \/ Wrote(t, i))
       => Reply(c, t[k], Now(filled, s), inval) \in s.out
  /\ ~isDirty(filled) /\ ~Wrote(t, i) => s.out = {}

(* What one more target does to the three questions about the targets.     *)
LEMMA OneMore ==
  ASSUME NEW t, NEW i \in Nat
  PROVE  /\ Wrote(t, i + 1) <=> Wrote(t, i) \/ (~t[i + 1].snoop /\ t[i + 1].cmd = "WriteReq")
         /\ WasSnooped(t, i + 1) <=> WasSnooped(t, i) \/ t[i + 1].snoop
         /\ Taken(t, i + 1) <=> Taken(t, i) \/ (t[i + 1].snoop /\ t[i + 1].cmd # "ReadReq")
<1>1. \A k : k \in 1 .. i + 1 <=> k \in 1 .. i \/ k = i + 1
  OBVIOUS
<1> QED BY <1>1, Zenon DEF Wrote, WasSnooped, Taken

LEMMA LoopStep ==
  ASSUME NEW c \in Caches, NEW t \in Targets, GoodTargets(c, t),
         NEW filled \in Copies, NEW inval \in BOOLEAN,
         latest \in Nat, seen[c] \in Nat,
         NEW i \in Nat, i < Len(t), NEW s, LoopInv(c, t, filled, inval, i, s)
  PROVE  LoopInv(c, t, filled, inval, i + 1, ServeTarget(s, c, t[i + 1], inval))
<1> DEFINE x == t[i + 1]
           u == ServeTarget(s, c, x, inval)
<1> SUFFICES LoopInv(c, t, filled, inval, i + 1, u)
  OBVIOUS
<1>1. i + 1 \in 1 .. Len(t) /\ \A k \in 1 .. i : k \in 1 .. Len(t) /\ k < i + 1 /\ k # Len(t)
  BY DEF Targets
<1>2. x \in OneTarget
  <2>1. t \in Seq(OneTarget)
    BY Zenon DEF Targets
  <2> QED BY <1>1, <2>1
<1>3. ~Taken(t, i)
  BY <1>1, Zenon DEF Taken, GoodTargets
<1>4. \A k : k \in 1 .. i + 1 <=> k \in 1 .. i \/ k = i + 1
  OBVIOUS
<1>5. filled.data \in Nat /\ s \in LoopState /\ s.latest \in Nat /\ s.blk.data \in Nat /\ s.latest >= latest
  BY DEF LoopInv, LoopState, Copies
<1>6. /\ s.blk.data = Now(filled, s) /\ {"Valid", "Readable"} \subseteq s.blk.bits
      /\ isDirty(s.blk) <=> isDirty(filled) \/ Wrote(t, i)
      /\ "Writable" \in s.blk.bits <=> "Writable" \in filled.bits /\ ~WasSnooped(t, i)
      /\ seen[c] <= s.seen /\ s.seen <= Now(filled, s)
  BY <1>3, Zenon DEF LoopInv
<1>7. CASE ~x.snoop /\ x.cmd = "WriteReq"
  <2>1. /\ u \in LoopState /\ u.out = s.out
        /\ u.blk.bits = s.blk.bits \cup {"Dirty"} /\ u.blk.data = s.blk.data + 1
        /\ u.latest = s.latest + 1 /\ u.seen = s.blk.data + 1
    BY <1>5, <1>7, SatisfyFact, Zenon DEF ServeTarget
  <2> HIDE DEF u
  <2>2. \A k \in 1 .. i : ~t[k].snoop
    BY <1>1, <1>7 DEF GoodTargets
  <2>3. u.out = {}
    BY <2>1, <2>2, Zenon DEF LoopInv
  <2>4. ~WasSnooped(t, i + 1) /\ ~WasSnooped(t, i) /\ Wrote(t, i + 1) /\ ~Taken(t, i + 1)
    BY <1>3, <1>7, <2>2, OneMore, Zenon DEF WasSnooped
  <2>5. Now(filled, u) = u.blk.data /\ u.latest >= latest /\ u.seen <= Now(filled, u)
        /\ seen[c] <= u.seen
    <3>1. s.seen \in Nat
      BY <1>5 DEF LoopState
    <3>2. /\ Now(filled, u) = filled.data + ((s.latest + 1) - latest)
          /\ s.blk.data = filled.data + (s.latest - latest)
      BY <1>6, <2>1, Zenon DEF Now
    <3>3. s.seen <= s.blk.data /\ seen[c] <= s.seen
      BY <1>6, Zenon
    <3>4. Now(filled, u) = s.blk.data + 1
      BY <1>5, <3>2
    <3>5. s.latest + 1 >= latest
      BY <1>5
    <3>6. seen[c] <= s.blk.data + 1
      BY <1>5, <3>1, <3>3
    <3>7. s.blk.data + 1 <= s.blk.data + 1
      BY <1>5
    <3> QED BY <2>1, <3>4, <3>5, <3>6, <3>7, Zenon
  <2>6. /\ {"Valid", "Readable"} \subseteq u.blk.bits /\ isDirty(u.blk)
        /\ "Writable" \in u.blk.bits <=> "Writable" \in filled.bits
    BY <1>6, <2>1, <2>4 DEF isDirty
  <2>7. \A k \in 1 .. i + 1 : ~t[k].snoop
    BY <1>4, <1>7, <2>2, Zenon
  <2> QED BY <2>1, <2>3, <2>4, <2>5, <2>6, <2>7, Zenon DEF LoopInv
<1>8. CASE ~x.snoop /\ x.cmd # "WriteReq"
  <2>1. /\ u \in LoopState /\ u.out = s.out /\ u.blk = s.blk
        /\ u.latest = s.latest /\ u.seen = s.blk.data
    BY <1>5, <1>8, SatisfyFact, Zenon DEF ServeTarget
  <2> HIDE DEF u
  <2>2. /\ Wrote(t, i + 1) <=> Wrote(t, i)
        /\ WasSnooped(t, i + 1) <=> WasSnooped(t, i)
        /\ ~Taken(t, i + 1)
    BY <1>3, <1>8, OneMore, Zenon
  <2>3. Now(filled, u) = Now(filled, s)
    BY <2>1, Zenon DEF Now
  <2>4. seen[c] <= u.seen /\ u.seen <= Now(filled, u)
    <3>1. s.seen \in Nat
      BY <1>5 DEF LoopState
    <3> QED BY <1>5, <1>6, <2>1, <2>3, <3>1
  <2>5. /\ \A y \in u.out : \E k \in 1 .. i + 1 :
             t[k].snoop /\ y = Reply(c, t[k], Now(filled, u), inval)
        /\ \A k \in 1 .. i + 1 : t[k].snoop /\ (isDirty(filled) \/ Wrote(t, i + 1))
             => Reply(c, t[k], Now(filled, u), inval) \in u.out
    BY <1>4, <1>8, <2>1, <2>2, <2>3, Zenon DEF LoopInv
  <2>6. /\ u.latest >= latest
        /\ ~Wrote(t, i + 1) => u.latest = latest
        /\ ~isDirty(filled) /\ ~Wrote(t, i + 1) => u.out = {}
    BY <2>1, <2>2, Zenon DEF LoopInv
  <2> QED BY <1>6, <2>1, <2>2, <2>3, <2>4, <2>5, <2>6, Zenon DEF LoopInv
<1>9. CASE x.snoop
  <2> DEFINE y == Reply(c, x, s.blk.data, inval)
  <2>1. /\ u \in LoopState /\ u.latest = s.latest /\ u.seen = s.seen
        /\ u.out = IF isDirty(s.blk) THEN s.out \cup {y} ELSE s.out
        /\ x.cmd = "ReadReq" => u.blk.bits = s.blk.bits \ {"Writable"} /\ u.blk.data = s.blk.data
        /\ x.cmd # "ReadReq" => u.blk = Invalid
    <3>1. isValid(s.blk)
      BY <1>6 DEF isValid
    <3>2. u = handleSnoop(s, c, x, inval)
      BY <1>9, Zenon DEF ServeTarget
    <3> HIDE DEF u, x
    <3>3. s \in LoopState
      BY <1>5, Zenon
    <3>4. SnoopResult(s, c, x, inval, u)
      BY <1>2, <3>2, <3>3, SnoopFact, Zenon
    <3> QED BY <3>1, <3>4, Zenon DEF SnoopResult
  <2> HIDE DEF u
  <2>2. /\ Wrote(t, i + 1) <=> Wrote(t, i)
        /\ WasSnooped(t, i + 1)
        /\ Taken(t, i + 1) <=> x.cmd # "ReadReq"
    BY <1>3, <1>9, OneMore, Zenon
  <2>3. Now(filled, u) = Now(filled, s) /\ y = Reply(c, x, Now(filled, u), inval)
    BY <1>6, <2>1, Zenon DEF Now
  <2>4. seen[c] <= u.seen /\ u.seen <= Now(filled, u)
    BY <1>6, <2>1, <2>3, Zenon
  <2> HIDE DEF y
  <2>5. ASSUME NEW z \in u.out
        PROVE  \E k \in 1 .. i + 1 : t[k].snoop /\ z = Reply(c, t[k], Now(filled, u), inval)
    <3>1. CASE z \in s.out
      BY <1>4, <2>3, <3>1, Zenon DEF LoopInv
    <3>2. CASE z = y
      BY <1>4, <1>9, <2>3, <3>2, Zenon
    <3> QED BY <2>1, <3>1, <3>2, Zenon
  <2>6. ASSUME NEW k \in 1 .. i + 1, t[k].snoop, isDirty(filled) \/ Wrote(t, i + 1)
        PROVE  Reply(c, t[k], Now(filled, u), inval) \in u.out
    <3>1. isDirty(s.blk) /\ u.out = s.out \cup {y}
      BY <1>6, <2>1, <2>2, <2>6, Zenon
    <3>2. CASE k \in 1 .. i
      BY <2>2, <2>3, <2>6, <3>1, <3>2, Zenon DEF LoopInv
    <3>3. CASE k = i + 1
      BY <2>3, <3>1, <3>3, Zenon
    <3> QED BY <1>4, <3>2, <3>3, Zenon
  <2>7. /\ u.latest >= latest
        /\ ~Wrote(t, i + 1) => u.latest = latest
        /\ ~isDirty(filled) /\ ~Wrote(t, i + 1) => u.out = {}
    BY <1>6, <2>1, <2>2, Zenon DEF LoopInv
  <2>8. x.cmd = "ReadReq" =>
             /\ u.blk.data = Now(filled, u) /\ {"Valid", "Readable"} \subseteq u.blk.bits
             /\ isDirty(u.blk) <=> isDirty(s.blk)
             /\ "Writable" \notin u.blk.bits
    BY <1>6, <2>1, <2>3 DEF isDirty
  <2> QED BY <1>6, <2>1, <2>2, <2>4, <2>5, <2>6, <2>7, <2>8, Zenon DEF LoopInv
<1> QED BY <1>7, <1>8, <1>9, Zenon

(* Every set of natural numbers has a least element; shown at the end.     *)
LeastExists == \A T \in SUBSET Nat : T # {} => \E x \in T : \A y \in T : x <= y

IsLoop(f, s0, n, c, t, inval) ==
  f = [i \in 0 .. n |-> IF i = 0 THEN s0 ELSE ServeTarget(f[i - 1], c, t[i], inval)]

LEMMA LoopDefined ==
  ASSUME LeastExists, NEW s0, NEW n \in Nat, NEW c, NEW t, NEW inval
  PROVE  \E f : IsLoop(f, s0, n, c, t, inval)
<1> DEFINE P(m) == \E f : IsLoop(f, s0, m, c, t, inval)
           T == {m \in Nat : ~P(m)}
<1> SUFFICES ASSUME T # {} PROVE FALSE
  BY Zenon
<1>1. PICK m \in T : \A y \in T : m <= y
  <2>1. T \in SUBSET Nat
    BY Zenon
  <2> QED BY <2>1, Zenon DEF LeastExists
<1>2. P(0)
  <2> DEFINE f == [i \in 0 .. 0 |-> s0]
  <2>1. f = [i \in 0 .. 0 |-> IF i = 0 THEN s0 ELSE ServeTarget(f[i - 1], c, t[i], inval)]
    OBVIOUS
  <2> QED BY <2>1, Zenon DEF IsLoop
<1>3. m # 0 /\ m \in Nat
  BY <1>1, <1>2, Zenon
<1>4. P(m - 1)
  <2>1. m - 1 \in Nat /\ ~(m <= m - 1)
    BY <1>3
  <2> QED BY <1>1, <2>1, Zenon
<1>5. PICK f : f = [i \in 0 .. (m - 1) |-> IF i = 0 THEN s0 ELSE ServeTarget(f[i - 1], c, t[i], inval)]
  BY <1>4, Zenon DEF IsLoop
<1> DEFINE g == [i \in 0 .. m |-> IF i = m THEN ServeTarget(f[m - 1], c, t[m], inval) ELSE f[i]]
<1>6. g = [i \in 0 .. m |-> IF i = 0 THEN s0 ELSE ServeTarget(g[i - 1], c, t[i], inval)]
  <2> SUFFICES ASSUME NEW i \in 0 .. m
               PROVE  g[i] = IF i = 0 THEN s0 ELSE ServeTarget(g[i - 1], c, t[i], inval)
    OBVIOUS
  <2>1. CASE i = m
    BY <1>3, <2>1
  <2>2. CASE i # m
    <3>1. i \in 0 .. (m - 1)
      BY <1>3, <2>2
    <3>2. f[i] = IF i = 0 THEN s0 ELSE ServeTarget(f[i - 1], c, t[i], inval)
      BY <1>5, <3>1, Zenon
    <3> QED BY <2>2, <3>1, <3>2
  <2> QED BY <2>1, <2>2, Zenon
<1>7. P(m)
  BY <1>6, Zenon DEF IsLoop
<1> QED BY <1>1, <1>7, Zenon

(* The whole loop, for target lists of every length.                       *)
LoopEnds(c, r, m, filled) ==
  LoopInv(c, m.targets, filled, m.pendingInvalidate \/ r.inval, Len(m.targets),
          Served(c, r, m, filled))

LoopStarts(c, r, m, filled) ==
  /\ c \in Caches /\ r.inval \in BOOLEAN
  /\ m.pendingInvalidate \in BOOLEAN /\ m.targets \in Targets /\ GoodTargets(c, m.targets)
  /\ filled \in Copies /\ {"Valid", "Readable"} \subseteq filled.bits
  /\ latest \in Nat /\ seen[c] \in Nat /\ seen[c] <= filled.data

LEMMA ServedFact ==
  ASSUME LeastExists, NEW c, NEW r, NEW m, NEW filled, LoopStarts(c, r, m, filled)
  PROVE  LoopEnds(c, r, m, filled)
<1>0. /\ c \in Caches /\ r.inval \in BOOLEAN
      /\ m.pendingInvalidate \in BOOLEAN /\ m.targets \in Targets /\ GoodTargets(c, m.targets)
      /\ filled \in Copies /\ {"Valid", "Readable"} \subseteq filled.bits
      /\ latest \in Nat /\ seen[c] \in Nat /\ seen[c] <= filled.data
  BY Zenon DEF LoopStarts
<1> USE <1>0
<1> SUFFICES LoopInv(c, m.targets, filled, m.pendingInvalidate \/ r.inval, Len(m.targets),
                     Served(c, r, m, filled))
  BY Zenon DEF LoopEnds
<1> DEFINE t == m.targets
           n == Len(t)
           inval == m.pendingInvalidate \/ r.inval
           s0 == [State(c) EXCEPT !.blk = filled]
           run == CHOOSE f : IsLoop(f, s0, n, c, t, inval)
           T == {i \in 0 .. n : ~LoopInv(c, t, filled, inval, i, run[i])}
<1>1. n \in Nat
  BY DEF Targets
<1>2. IsLoop(run, s0, n, c, t, inval)
  <2>1. \E f : IsLoop(f, s0, n, c, t, inval)
    BY <1>1, LoopDefined, Zenon
  <2> QED BY <2>1, Zenon
<1>3. Served(c, r, m, filled) = run[n]
  BY Zenon DEF Served, IsLoop
<1>4. LoopInv(c, t, filled, inval, 0, s0)
  <2>1. /\ s0.blk = filled /\ s0.latest = latest /\ s0.seen = seen[c] /\ s0.out = {}
        /\ s0 = [blk |-> filled, latest |-> latest, seen |-> seen[c], out |-> {}]
    BY DEF State
  <2>2. s0 \in LoopState
    BY <2>1, Zenon DEF LoopState
  <2> HIDE DEF s0
  <2>3. \A k : ~(k \in 1 .. 0)
    OBVIOUS
  <2>4. ~Wrote(t, 0) /\ ~WasSnooped(t, 0) /\ ~Taken(t, 0)
    BY <2>3, Zenon DEF Wrote, WasSnooped, Taken
  <2>5. filled.data \in Nat
    BY DEF Copies
  <2>6. s0.blk.data = Now(filled, s0) /\ s0.seen <= Now(filled, s0) /\ seen[c] <= s0.seen
        /\ s0.latest >= latest
    BY <2>1, <2>5 DEF Now
  <2> QED BY <2>1, <2>2, <2>3, <2>4, <2>6, Zenon DEF LoopInv
<1> HIDE DEF run, s0
<1>5. run[0] = s0 /\ \A i \in 1 .. n : run[i] = ServeTarget(run[i - 1], c, t[i], inval)
  <2>1. \A i \in 0 .. n : run[i] = IF i = 0 THEN s0 ELSE ServeTarget(run[i - 1], c, t[i], inval)
    BY <1>2, Zenon DEF IsLoop
  <2> QED BY <1>1, <2>1
<1>6. T = {}
  <2> SUFFICES ASSUME T # {} PROVE FALSE
    OBVIOUS
  <2>1. PICK k \in T : \A y \in T : k <= y
    <3>1. T \in SUBSET Nat
      OBVIOUS
    <3> HIDE DEF T
    <3> QED BY <3>1, Zenon DEF LeastExists
  <2>2. k \in 0 .. n /\ k # 0
    BY <1>4, <1>5, <2>1, Zenon
  <2>3. k - 1 \in Nat /\ k - 1 < n /\ k - 1 \in 0 .. n /\ k \in 1 .. n /\ (k - 1) + 1 = k /\ ~(k <= k - 1)
    BY <1>1, <2>2
  <2>4. LoopInv(c, t, filled, inval, k - 1, run[k - 1])
    BY <2>1, <2>3, Zenon
  <2>5. inval \in BOOLEAN
    BY Zenon
  <2> HIDE DEF inval
  <2>6. LoopInv(c, t, filled, inval, (k - 1) + 1,
                ServeTarget(run[k - 1], c, t[(k - 1) + 1], inval))
    BY <2>3, <2>4, <2>5, LoopStep, Zenon
  <2>7. LoopInv(c, t, filled, inval, k, run[k])
    BY <1>5, <2>3, <2>6, Zenon
  <2> QED BY <2>1, <2>7, Zenon
<1>7. n \in 0 .. n
  BY <1>1
<1> QED BY <1>3, <1>6, <1>7, Zenon

-----------------------------------------------------------------------------
(* Steps that the bus does not see.                                        *)

SameView(d) ==
  /\ inService(d)' <=> inService(d)
  /\ Ex(d)' <=> Ex(d)
  /\ Rd(d)' <=> Rd(d)
  /\ Passed(d)' <=> Passed(d)
  /\ Sharing(d)' <=> Sharing(d)
  /\ \A i, t : Promised(d, i, t)' <=> Promised(d, i, t)

SameBits(d) ==
  /\ "Valid" \in blk'[d].bits <=> "Valid" \in blk[d].bits
  /\ "Writable" \in blk'[d].bits <=> "Writable" \in blk[d].bits
  /\ "Dirty" \in blk'[d].bits <=> "Dirty" \in blk[d].bits

LEMMA SameMSHR ==
  ASSUME NEW d, mshr'[d] = mshr[d]
  PROVE  SameView(d)
BY Zenon DEF SameView, inService, Ex, Rd, Passed, Sharing, Promised

LEMMA QuietStep ==
  ASSUME \A d \in Caches : SameView(d), \A d \in Caches : SameBits(d),
         \A d \in Caches : Rd(d) => seen'[d] = seen[d],
         resp \in SUBSET Responses,
         wb' = wb, resp' = resp, mem' = mem, latest' = latest,
         WritableInv, AnswerInv, PromiseInv, SupplierInv, ChainInv, OwnerInv
  PROVE  WritableInv' /\ AnswerInv' /\ PromiseInv' /\ SupplierInv' /\ ChainInv' /\ OwnerInv'
<1>1. ASSUME NEW c \in Caches, Alone(c)
      PROVE  Alone(c)'
  BY <1>1, Zenon DEF Alone, SameView, SameBits, isValid
<1>2. WritableInv'
  BY <1>1, Zenon DEF WritableInv, SameBits, isWritable
<1>3. ASSUME NEW r \in resp
      PROVE  GoodAnswer(r.to, r)'
  <2>1. r.to \in Caches
    BY DEF Responses
  <2>2. SameView(r.to) /\ SameBits(r.to) /\ (Rd(r.to) => seen'[r.to] = seen[r.to])
    BY <2>1, Zenon
  <2>3. GoodAnswer(r.to, r)
    BY Zenon DEF AnswerInv
  <2>4. (\A d \in Caches : ~Ex(d)) => \A d \in Caches : ~Ex(d)'
    BY Zenon DEF SameView
  <2> QED BY <1>1, <2>1, <2>2, <2>3, <2>4, Zenon DEF GoodAnswer, SameView, SameBits, isValid, isDirty
<1>4. AnswerInv'
  BY <1>3, Zenon DEF AnswerInv
<1>5. PromiseInv'
  <2>1. ASSUME NEW d \in Caches, NEW i, NEW t, Promised(d, i, t)'
        PROVE  GoodPromise(d, t)'
    <3>1. Promised(d, i, t)
      BY <2>1, Zenon DEF SameView
    <3>2. GoodPromise(d, t)
      BY <3>1, Zenon DEF PromiseInv
    <3> QED BY <3>2, Zenon DEF GoodPromise, SameView
  <2>2. ASSUME NEW d \in Caches, NEW e \in Caches, NEW i, NEW j, NEW t, NEW u,
               Promised(d, i, t)', Promised(e, j, u)', t.from = u.from
        PROVE  d = e /\ i = j
    <3>1. Promised(d, i, t) /\ Promised(e, j, u)
      BY <2>2, Zenon DEF SameView
    <3> QED BY <2>2, <3>1, Zenon DEF PromiseInv
  <2> QED BY <2>1, <2>2, Zenon DEF PromiseInv
<1>9. \A d \in Caches : \A c : Owes(d, c)' <=> Owes(d, c)
  BY Zenon DEF Owes, SameView
<1>6. SupplierInv'
  BY <1>9, Zenon DEF SupplierInv, SameView
<1>7. ChainInv'
  <2>1. PICK q : Chain(q)
    BY Zenon DEF ChainInv
  <2>2. \A i \in 1 .. Len(q) : q[i] \in Caches
    BY <2>1 DEF Chain
  <2>3. \A i \in 1 .. Len(q) - 1 : i \in 1 .. Len(q)
    BY <2>1 DEF Chain
  <2>4. /\ \A c \in Caches : Ex(c)' <=> \E i \in 1 .. Len(q) : q[i] = c
        /\ \A i \in 1 .. Len(q) : Passed(q[i])' <=> i # Len(q)
    BY <2>1, <2>2, Zenon DEF Chain, SameView
  <2>5. \A i \in 1 .. Len(q) - 1 : Owes(q[i], q[i + 1])'
    BY <1>9, <2>1, <2>2, <2>3, Zenon DEF Chain
  <2>6. q # << >> => \A d \in Caches : wb'[d] = None /\ ("Valid" \in blk'[d].bits => d = q[1])
    BY <2>1, Zenon DEF Chain, SameBits, isValid
  <2>7. Chain(q)'
    BY <2>1, <2>4, <2>5, <2>6, Zenon DEF Chain, isValid
  <2> QED BY <2>7, Zenon DEF ChainInv
<1>8. OwnerInv'
  BY Zenon DEF OwnerInv, Owns, SameBits, isDirty
<1> QED BY <1>2, <1>4, <1>5, <1>6, <1>7, <1>8, Zenon

-----------------------------------------------------------------------------
(* MSHRs and their targets.                                                *)

LEMMA TargetsFact ==
  ASSUME NEW s \in Targets
  PROVE  /\ Len(s) \in Nat /\ DOMAIN s = 1 .. Len(s)
         /\ \A i \in 1 .. Len(s) : s[i] \in OneTarget
         /\ s # << >> => Len(s) \in 1 .. Len(s)
         /\ Exclusive(s) <=> \E i \in 1 .. Len(s) : ~s[i].snoop /\ s[i].cmd # "ReadReq"
<1>1. Len(s) \in Nat /\ DOMAIN s = 1 .. Len(s)
  BY DEF Targets
<1>2. \A i \in 1 .. Len(s) : s[i] \in OneTarget
  BY DEF Targets
<1>3. s # << >> => Len(s) \in 1 .. Len(s)
  BY DEF Targets
<1> QED BY <1>1, <1>2, <1>3, Zenon DEF Exclusive, needsExclusive

(* u is s with target t at its end.                                        *)
Longer(s, t, u) ==
  /\ u \in Targets /\ u # << >> /\ u # s /\ Len(u) = Len(s) + 1
  /\ \A i : i \in 1 .. Len(u) <=> i \in 1 .. Len(s) \/ i = Len(u)
  /\ \A i \in 1 .. Len(s) : u[i] = s[i] /\ i < Len(u) /\ ~(Len(u) < i) /\ i # Len(u)
  /\ u[Len(u)] = t /\ ~(Len(u) < Len(u))
  /\ Exclusive(u) <=> Exclusive(s) \/ (~t.snoop /\ t.cmd # "ReadReq")

LEMMA AppendFact ==
  ASSUME NEW s \in Targets, NEW t \in OneTarget
  PROVE  Longer(s, t, Append(s, t))
<1> DEFINE u == Append(s, t)
<1>1. s \in Seq(OneTarget) /\ Len(s) \in Nat
  BY TargetsFact, Zenon DEF Targets
<1>2. u \in Seq(OneTarget) /\ u # << >> /\ u # s /\ Len(u) = Len(s) + 1
  BY <1>1
<1>3. \A i : i \in 1 .. Len(u) <=> i \in 1 .. Len(s) \/ i = Len(u)
  BY <1>1, <1>2
<1>4. \A i \in 1 .. Len(s) : i < Len(u) /\ ~(Len(u) < i) /\ i # Len(u)
  BY <1>1, <1>2
<1>5. \A i \in 1 .. Len(s) : u[i] = s[i]
  BY <1>1
<1>6. u[Len(u)] = t /\ ~(Len(u) < Len(u))
  BY <1>1, <1>2
<1>7. u \in Targets
  BY <1>2, Zenon DEF Targets
<1> HIDE DEF u
<1>8. Exclusive(u) <=> Exclusive(s) \/ (~t.snoop /\ t.cmd # "ReadReq")
  <2>1. Exclusive(u) <=> \E i \in 1 .. Len(u) : ~u[i].snoop /\ u[i].cmd # "ReadReq"
    BY <1>7, TargetsFact, Zenon
  <2>2. Exclusive(s) <=> \E i \in 1 .. Len(s) : ~s[i].snoop /\ s[i].cmd # "ReadReq"
    BY TargetsFact, Zenon
  <2> QED BY <1>3, <1>5, <1>6, <2>1, <2>2, Zenon
<1>9. Longer(s, t, u)
  BY <1>2, <1>3, <1>4, <1>5, <1>6, <1>7, <1>8, Zenon DEF Longer
<1> QED BY <1>9, Zenon DEF u

LEMMA MSHRFact ==
  ASSUME NEW m \in MSHRs
  PROVE  /\ m.targets \in Targets \ {<< >>} /\ m.deferred \in Targets
         /\ m.inService \in BOOLEAN /\ m.pendingInvalidate \in BOOLEAN
         /\ m.pendingShared \in BOOLEAN
BY DEF MSHRs

(* A request of the processor that joins the targets or is deferred.       *)
Joined(c, m, u) ==
  /\ u \in MSHRs /\ GoodMSHR(c, u)
  /\ u.inService = m.inService /\ u.pendingInvalidate = m.pendingInvalidate
  /\ u.pendingShared = m.pendingShared
  /\ Exclusive(m.targets) => Exclusive(u.targets)
  /\ u.inService => (Exclusive(u.targets) <=> Exclusive(m.targets))
  /\ \A i, x : i \in 1 .. Len(u.targets) /\ x = u.targets[i] /\ x.snoop
                 <=> i \in 1 .. Len(m.targets) /\ x = m.targets[i] /\ x.snoop

LEMMA AllocateFact ==
  ASSUME NEW c \in Caches, NEW m \in MSHRs, GoodMSHR(c, m), NEW cmd \in OfCpu,
         ~IsLate(m, Target(c, cmd, FALSE))
  PROVE  Joined(c, m, allocateTarget(m, Target(c, cmd, FALSE)))
<1> DEFINE t == Target(c, cmd, FALSE)
           u == allocateTarget(m, t)
<1> SUFFICES Joined(c, m, u)
  BY Zenon
<1>1. t \in OneTarget /\ t.cmd = cmd /\ ~t.snoop /\ t.from = c /\ t.cmd \in OfCpu
  BY DEF Target, OneTarget, OfCpu, Cmd
<1>2. /\ m.targets \in Targets \ {<< >>} /\ m.deferred \in Targets
      /\ m.inService \in BOOLEAN /\ m.pendingInvalidate \in BOOLEAN /\ m.pendingShared \in BOOLEAN
  BY MSHRFact, Zenon
<1>3. m.targets \in Targets /\ m.targets # << >>
  BY <1>2, Zenon
<1>4. ~IsLate(m, t)
  BY Zenon
<1> HIDE DEF t
<1>5. CASE m.inService /\ (m.deferred # << >> \/ m.pendingInvalidate
                            \/ (~Exclusive(m.targets) /\ needsExclusive(t.cmd)))
  <2> DEFINE e == Append(m.deferred, t)
  <2>1. u = [m EXCEPT !.deferred = e]
    BY <1>5, Zenon DEF allocateTarget
  <2>2. Longer(m.deferred, t, e)
    BY <1>1, <1>2, AppendFact, Zenon
  <2> HIDE DEF e
  <2>3. u = [targets |-> m.targets, deferred |-> e, inService |-> m.inService,
             pendingInvalidate |-> m.pendingInvalidate, pendingShared |-> m.pendingShared]
    BY <2>1, Zenon DEF MSHRs
  <2> HIDE DEF u
  <2>4. /\ u.targets = m.targets /\ u.deferred = e /\ u.inService = m.inService
        /\ u.pendingInvalidate = m.pendingInvalidate /\ u.pendingShared = m.pendingShared
    BY <2>3, Zenon
  <2>5. u \in MSHRs
    BY <1>2, <2>2, <2>3, Zenon DEF MSHRs, Longer
  <2>6. Own(e)
    BY <1>1, <2>2, Zenon DEF Own, GoodMSHR, Longer
  <2>7. m.pendingInvalidate \/ (~Exclusive(m.targets) /\ Exclusive(e))
    BY <1>1, <1>5, <2>2, Zenon DEF GoodMSHR, needsExclusive, Longer
  <2>8. GoodMSHR(c, u)
    BY <1>5, <2>4, <2>6, <2>7, Zenon DEF GoodMSHR
  <2> QED BY <2>4, <2>5, <2>8, Zenon DEF Joined
<1>6. CASE ~(m.inService /\ (m.deferred # << >> \/ m.pendingInvalidate
                              \/ (~Exclusive(m.targets) /\ needsExclusive(t.cmd))))
  <2> DEFINE old == m.targets
             e == Append(old, t)
  <2>1. u = [m EXCEPT !.targets = e]
    BY <1>6, Zenon DEF allocateTarget
  <2>16. Longer(old, t, e)
    BY <1>1, <1>3, AppendFact, Zenon
  <2> HIDE DEF e
  <2>2. /\ e \in Targets \ {<< >>} /\ e # old
        /\ \A i : i \in 1 .. Len(e) <=> i \in 1 .. Len(old) \/ i = Len(e)
        /\ \A i \in 1 .. Len(old) : e[i] = old[i] /\ i < Len(e) /\ ~(Len(e) < i) /\ i # Len(e)
        /\ e[Len(e)] = t /\ ~(Len(e) < Len(e))
        /\ Exclusive(e) <=> Exclusive(old) \/ (~t.snoop /\ t.cmd # "ReadReq")
    BY <2>16, Zenon DEF Longer
  <2>3. u = [targets |-> e, deferred |-> m.deferred, inService |-> m.inService,
             pendingInvalidate |-> m.pendingInvalidate, pendingShared |-> m.pendingShared]
    BY <2>1, Zenon DEF MSHRs
  <2> HIDE DEF u
  <2>4. /\ u.targets = e /\ u.deferred = m.deferred /\ u.inService = m.inService
        /\ u.pendingInvalidate = m.pendingInvalidate /\ u.pendingShared = m.pendingShared
    BY <2>3, Zenon
  <2>9. \/ t.cmd = "ReadReq"
        \/ \A i \in 1 .. Len(old) : ~old[i].snoop
    <3>1. allocateTarget(m, t).targets = e
      BY <2>4, Zenon DEF u
    <3>2. DOMAIN old = 1 .. Len(old)
      BY <1>3, TargetsFact, Zenon
    <3> QED BY <1>4, <2>2, <3>1, <3>2, Zenon DEF IsLate, needsExclusive
  <2>5. u \in MSHRs
    BY <1>2, <2>2, <2>3, Zenon DEF MSHRs
  <2>6. ~m.pendingInvalidate
    <3>1. CASE ~m.inService
      <4>1. Len(old) \in 1 .. Len(old)
        BY <1>3, TargetsFact, Zenon
      <4> QED BY <3>1, <4>1, Zenon DEF GoodMSHR, Own
    <3> QED BY <1>6, <3>1, Zenon
  <2>7. /\ m.deferred = << >>
        /\ m.inService => (Exclusive(e) <=> Exclusive(old))
        /\ \A i \in 1 .. Len(old) : old[i].snoop => old[i].cmd = "ReadReq"
    <3>1. m.deferred = << >>
      BY <1>6, <2>6, Zenon DEF GoodMSHR
    <3>2. m.inService => (Exclusive(e) <=> Exclusive(old))
      BY <1>6, <2>2, Zenon DEF needsExclusive
    <3>3. \A i \in 1 .. Len(old) : old[i].snoop => old[i].cmd = "ReadReq"
      BY <2>6, Zenon DEF GoodMSHR, GoodTargets
    <3> QED BY <3>1, <3>2, <3>3, Zenon
  <2>8. GoodTargets(c, e)
    <3>1. GoodTargets(c, old)
      BY Zenon DEF GoodMSHR
    <3>2. ASSUME NEW i \in 1 .. Len(e)
          PROVE  /\ e[i].snoop => e[i].cmd \in OnBus /\ e[i].from # c
                 /\ ~e[i].snoop => e[i].cmd \in OfCpu
                 /\ e[i].snoop /\ e[i].cmd # "ReadReq" => i = Len(e)
      <4>1. CASE i \in 1 .. Len(old)
        BY <2>2, <2>7, <3>1, <4>1, Zenon DEF GoodTargets
      <4>2. CASE i = Len(e)
        BY <1>1, <2>2, <4>2, Zenon
      <4> QED BY <2>2, <4>1, <4>2, Zenon
    <3>3. ASSUME NEW i \in 1 .. Len(e), NEW j \in 1 .. Len(e), i < j, e[i].snoop, ~e[j].snoop
          PROVE  e[j].cmd = "ReadReq"
      <4>1. i \in 1 .. Len(old)
        BY <1>1, <2>2, <3>3, Zenon
      <4>2. CASE j \in 1 .. Len(old)
        <5>1. e[i] = old[i] /\ e[j] = old[j]
          BY <2>2, <4>1, <4>2, Zenon
        <5> QED BY <3>1, <3>3, <4>1, <4>2, <5>1, Zenon DEF GoodTargets
      <4>3. CASE j = Len(e)
        BY <2>2, <2>9, <3>3, <4>1, <4>3, Zenon
      <4> QED BY <2>2, <4>2, <4>3, Zenon
    <3> QED BY <3>2, <3>3, Zenon DEF GoodTargets
  <2>10. Own(old) => Own(e)
    BY <1>1, <2>2, Zenon DEF Own
  <2>11. ~Exclusive(old) /\ ~m.pendingInvalidate => Own(old)
    BY Zenon DEF GoodMSHR
  <2>12. /\ ~m.inService => Own(e)
         /\ ~Exclusive(e) => Own(e)
         /\ ~Exclusive(e) => \A i \in 1 .. Len(e) : e[i].snoop => e[i].cmd # "ReadReq"
    <3>1. ~m.inService => Own(e)
      BY <2>10, Zenon DEF GoodMSHR
    <3>2. ~Exclusive(e) => Own(e)
      BY <2>2, <2>6, <2>10, <2>11, Zenon
    <3> QED BY <3>1, <3>2, Zenon DEF Own
  <2>13. m.pendingShared => m.inService /\ ~Exclusive(e)
    BY <2>7, Zenon DEF GoodMSHR
  <2>14. GoodMSHR(c, u)
    <3>1. Own(u.deferred)
      BY <2>4, Zenon DEF GoodMSHR
    <3> QED BY <1>1, <2>2, <2>4, <2>6, <2>7, <2>8, <2>12, <2>13, <3>1, Zenon DEF GoodMSHR
  <2>15. \A i, x : i \in 1 .. Len(e) /\ x = e[i] /\ x.snoop
                     <=> i \in 1 .. Len(old) /\ x = old[i] /\ x.snoop
    BY <1>1, <2>2, Zenon
  <2> QED BY <2>2, <2>4, <2>5, <2>7, <2>14, <2>15, Zenon DEF Joined
<1> QED BY <1>5, <1>6, Zenon

-----------------------------------------------------------------------------
(* timingAccess.                                                           *)

LEMMA TypeFact ==
  ASSUME TypeOK, NEW c \in Caches
  PROVE  /\ blk[c] \in Copies /\ blk[c].data \in Nat
         /\ blk[c].bits \in SUBSET {"Valid", "Readable", "Writable", "Dirty"}
         /\ mshr[c] # None => mshr[c] \in MSHRs
         /\ wb[c] # None => wb[c] \in Nat
         /\ seen[c] \in Nat /\ latest \in Nat
<1>1. blk[c] \in Copies /\ mshr[c] \in MSHRs \cup {None} /\ wb[c] \in Nat \cup {None}
      /\ seen[c] \in Nat /\ latest \in Nat
  BY Zenon DEF TypeOK
<1>2. blk[c].data \in Nat /\ blk[c].bits \in SUBSET {"Valid", "Readable", "Writable", "Dirty"}
  BY <1>1 DEF Copies
<1> QED BY <1>1, <1>2, Zenon

Forward == \A c \in Caches : seen'[c] >= seen[c]

LEMMA LeftFact ==
  ASSUME CoherenceAssumption, left \in 0 .. Requests, left > 0, left' = left - 1
  PROVE  left' \in 0 .. Requests
BY DEF CoherenceAssumption

LEMMA ReadHitStep ==
  ASSUME IInv, NEW c \in Caches, isReadable(blk[c]), left' \in 0 .. Requests,
         blk' = blk, latest' = latest, seen' = [seen EXCEPT ![c] = blk[c].data],
         UNCHANGED <<mshr, wb, blocked, resp, mem>>
  PROVE  IInv' /\ Forward
<1>1. GoodCopy(c) /\ blk[c].data = latest
  <2>1. isValid(blk[c])
    BY DEF isReadable, isValid
  <2> QED BY <2>1, Zenon DEF IInv, CopyInv, GoodCopy
<1>2. ~Rd(c)
  BY <1>1 DEF GoodCopy, Rd, inService, isReadable, isValid
<1>3. TypeOK /\ latest \in Nat /\ seen \in [Caches -> Nat]
  BY Zenon DEF IInv, TypeOK
<1>4. seen' \in [Caches -> Nat] /\ seen'[c] = latest /\ \A d \in Caches : d # c => seen'[d] = seen[d]
  BY <1>1, <1>3, Zenon
<1>5. TypeOK'
  BY <1>3, <1>4, Zenon DEF TypeOK
<1>6. latest <= latest /\ seen[c] <= latest /\ \A d \in Caches : seen[d] \in Nat /\ seen[d] >= seen[d]
  BY <1>1, <1>3 DEF GoodCopy
<1>7. Forward
  <2>1. seen'[c] >= seen[c]
    BY <1>3, <1>4, <1>6
  <2> QED BY <1>4, <1>6, <2>1, Zenon DEF Forward
<1>8. MshrInv' /\ CopyInv'
  <2>1. MshrInv'
    BY Zenon DEF MshrInv, GoodMSHR, IInv
  <2>2. CopyInv'
    BY <1>4, <1>6, Zenon DEF CopyInv, GoodCopy, IInv, inService
  <2> QED BY <2>1, <2>2, Zenon
<1>9. \A d \in Caches : SameView(d) /\ SameBits(d)
  BY SameMSHR, Zenon DEF SameBits
<1>10. \A d \in Caches : Rd(d) => seen'[d] = seen[d]
  BY <1>2, <1>4, Zenon
<1>11. WritableInv' /\ AnswerInv' /\ PromiseInv' /\ SupplierInv' /\ ChainInv' /\ OwnerInv'
  BY <1>3, <1>9, <1>10, QuietStep, Zenon DEF IInv, TypeOK
<1> QED BY <1>5, <1>7, <1>8, <1>11, Zenon DEF IInv

LEMMA EmptyChain ==
  ASSUME \A d \in Caches : ~Ex(d)'
  PROVE  ChainInv'
<1> DEFINE q == << >>
<1>1. q \in Seq(Caches) /\ Len(q) = 0 /\ (\A i : ~(i \in 1 .. 0)) /\ (\A i : ~(i \in 1 .. 0 - 1))
  OBVIOUS
<1>2. q = << >>
  OBVIOUS
<1> HIDE DEF q
<1>3. \A i : ~(i \in 1 .. Len(q)) /\ ~(i \in 1 .. Len(q) - 1)
  BY <1>1
<1>4. Chain(q)'
  BY <1>1, <1>2, <1>3, Zenon DEF Chain
<1> QED BY <1>4, Zenon DEF ChainInv

LEMMA ChainHead ==
  ASSUME NEW q, Chain(q), q # << >>
  PROVE  /\ 1 \in 1 .. Len(q) /\ Len(q) \in 1 .. Len(q) /\ Len(q) \in Nat
         /\ q[1] \in Caches /\ Ex(q[1])
         /\ q[Len(q)] \in Caches /\ Ex(q[Len(q)]) /\ ~Passed(q[Len(q)])
<1>1. q \in Seq(Caches)
  BY Zenon DEF Chain
<1>2. 1 \in 1 .. Len(q) /\ Len(q) \in 1 .. Len(q) /\ Len(q) \in Nat
  BY <1>1
<1>3. q[1] \in Caches /\ q[Len(q)] \in Caches
  BY <1>1, <1>2
<1> QED BY <1>2, <1>3, Zenon DEF Chain

LEMMA WriteHitStep ==
  ASSUME IInv, NEW c \in Caches, isWritable(blk[c]), left' \in 0 .. Requests,
         NEW b \in Copies, b.bits = blk[c].bits \cup {"Dirty"}, b.data = blk[c].data + 1,
         blk' = [blk EXCEPT ![c] = b], latest' = latest + 1,
         seen' = [seen EXCEPT ![c] = blk[c].data + 1],
         UNCHANGED <<mshr, wb, blocked, resp, mem>>
  PROVE  IInv' /\ Forward
<1>1. /\ GoodCopy(c) /\ isValid(blk[c]) /\ blk[c].data = latest
      /\ mshr[c] = None /\ wb[c] = None /\ isReadable(blk[c])
  <2>1. isValid(blk[c])
    BY DEF isWritable, isValid
  <2>2. GoodCopy(c)
    BY Zenon DEF IInv, CopyInv
  <2> QED BY <2>1, <2>2, Zenon DEF GoodCopy
<1>2. Alone(c) /\ ~inService(c)
  BY <1>1, Zenon DEF IInv, WritableInv, inService
<1>3. \A d \in Caches : /\ SameView(d) /\ ~Ex(d)
                        /\ inService(d) => Rd(d) /\ Passed(d)
                        /\ d # c => ~isValid(blk[d]) /\ wb[d] = None
  <2>1. \A d \in Caches : inService(d) => Rd(d) /\ Passed(d)
    BY <1>2, Zenon DEF Alone
  <2> QED BY <1>2, <2>1, SameMSHR, Zenon DEF Alone, Ex, Rd
<1>4. TypeOK /\ latest \in Nat /\ seen \in [Caches -> Nat] /\ blk \in [Caches -> Copies]
      /\ resp \in SUBSET Responses
  BY Zenon DEF IInv, TypeOK
<1>5. latest + 1 \in Nat /\ latest <= latest + 1
  BY <1>4
<1>6. /\ seen' \in [Caches -> Nat] /\ seen'[c] = latest + 1 /\ \A d \in Caches : d # c => seen'[d] = seen[d]
      /\ blk' \in [Caches -> Copies] /\ blk'[c] = b /\ \A d \in Caches : d # c => blk'[d] = blk[d]
  BY <1>1, <1>4, <1>5, Zenon
<1>7. TypeOK'
  BY <1>4, <1>5, <1>6, Zenon DEF TypeOK
<1>8. \A d \in Caches : seen[d] \in Nat /\ seen[d] <= latest
  BY <1>4, Zenon DEF IInv, CopyInv, GoodCopy
<1>9. /\ \A d \in Caches : seen[d] >= seen[d] /\ seen[d] <= latest + 1 /\ latest + 1 >= seen[d]
      /\ latest + 1 <= latest + 1
  BY <1>4, <1>8
<1>10. Forward
  BY <1>6, <1>9, Zenon DEF Forward
<1>11. MshrInv'
  BY Zenon DEF MshrInv, GoodMSHR, IInv
<1>12. /\ "Valid" \in b.bits /\ "Readable" \in b.bits /\ "Dirty" \in b.bits
       /\ {"Valid", "Readable"} \subseteq b.bits
  BY <1>1 DEF isReadable
<1>13. ASSUME NEW d \in Caches
       PROVE  GoodCopy(d)'
  <2>1. CASE d = c
    BY <1>1, <1>6, <1>9, <1>12, <2>1, Zenon DEF GoodCopy, isValid, isReadable, inService
  <2>2. CASE d # c
    <3>1. GoodCopy(d) /\ ~isValid(blk[d]) /\ wb[d] = None
      BY <1>3, <2>2, Zenon DEF IInv, CopyInv
    <3>2. blk'[d] = blk[d] /\ seen'[d] = seen[d] /\ seen[d] <= latest + 1
      BY <1>6, <1>9, <2>2, Zenon
    <3> QED BY <3>1, <3>2, Zenon DEF GoodCopy, isValid, isReadable, inService
  <2> QED BY <2>1, <2>2, Zenon
<1>14. WritableInv'
  <2>1. Alone(c)'
    BY <1>3, <1>6, Zenon DEF Alone, SameView, isValid
  <2>2. \A d \in Caches : d # c => ~isWritable(blk'[d])
    BY <1>3, <1>6 DEF isValid, isWritable
  <2> QED BY <2>1, <2>2, Zenon DEF WritableInv, isWritable
<1>15. ASSUME NEW r \in resp
       PROVE  GoodAnswer(r.to, r)'
  <2>1. r.to \in Caches /\ r.data \in Nat
    BY <1>4 DEF Responses
  <2>2. GoodAnswer(r.to, r) /\ inService(r.to) /\ Rd(r.to) /\ Passed(r.to) /\ r.to # c
    BY <1>2, <1>3, <2>1, Zenon DEF IInv, AnswerInv, GoodAnswer
  <2>3. blk'[r.to] = blk[r.to] /\ seen'[r.to] = seen[r.to] /\ SameView(r.to)
    BY <1>3, <1>6, <2>1, <2>2, Zenon
  <2>4. r.data <= latest /\ seen[r.to] <= r.data /\ r.cmd = "ReadReq"
    BY <2>2, Zenon DEF GoodAnswer
  <2>5. r.data <= latest + 1
    BY <1>4, <2>1, <2>4
  <2>6. r.cmd # "ReadExReq" /\ r.cmd # "UpgradeReq"
    BY <2>4
  <2> QED BY <2>2, <2>3, <2>4, <2>5, <2>6, Zenon DEF GoodAnswer, SameView, isValid, isDirty
<1>16. AnswerInv'
  BY <1>15, Zenon DEF IInv, AnswerInv
<1>17. \A d \in Caches : ~Ex(d)' /\ \A i, t : ~Promised(d, i, t)'
  BY <1>3, Zenon DEF SameView, Promised
<1>18. PromiseInv' /\ ChainInv'
  BY <1>17, EmptyChain, Zenon DEF PromiseInv
<1>19. SupplierInv'
  <2>1. \A d, e \in Caches : ~Owes(d, e)
    BY <1>3, Zenon DEF Owes, Promised
  <2> QED BY <1>3, <2>1, Zenon DEF IInv, SupplierInv, SameView
<1>20. OwnerInv'
  <2>1. \A d \in Caches : d # c => ~isDirty(blk[d])
    BY <1>3 DEF IInv, CopyInv, GoodCopy, isDirty
  <2>2. \A d \in Caches : d # c => ~Owns(d)'
    BY <1>3, <1>6, <2>1, Zenon DEF Owns, isDirty
  <2>3. Owns(c)'
    BY <1>6, <1>12, Zenon DEF Owns, isDirty
  <2> QED BY <2>2, <2>3, Zenon DEF OwnerInv
<1>21. CopyInv'
  BY <1>13, Zenon DEF CopyInv
<1> QED BY <1>7, <1>10, <1>11, <1>14, <1>16, <1>18, <1>19, <1>20, <1>21, Zenon DEF IInv

LEMMA MSHRHitStep ==
  ASSUME IInv, NEW c \in Caches, mshr[c] # None, NEW u, Joined(c, mshr[c], u),
         left' \in 0 .. Requests, blocked' \in [Caches -> BOOLEAN],
         mshr' = [mshr EXCEPT ![c] = u],
         UNCHANGED <<blk, wb, resp, mem, latest, seen>>
  PROVE  IInv' /\ Forward
<1>1. TypeOK /\ seen \in [Caches -> Nat] /\ mshr \in [Caches -> MSHRs \cup {None}]
      /\ resp \in SUBSET Responses
  BY Zenon DEF IInv, TypeOK
<1>2. u \in MSHRs /\ u # None
  BY CoherenceAssumption, Zenon DEF Joined, CoherenceAssumption
<1>3. /\ mshr' \in [Caches -> MSHRs \cup {None}] /\ mshr'[c] = u
      /\ \A d \in Caches : d # c => mshr'[d] = mshr[d]
  BY <1>1, <1>2, Zenon
<1>4. TypeOK'
  BY <1>1, <1>3, Zenon DEF TypeOK
<1>5. Forward
  <2>1. \A d \in Caches : seen[d] >= seen[d]
    BY <1>1
  <2> QED BY <2>1, Zenon DEF Forward
<1>6. ASSUME NEW d \in Caches, mshr'[d] # None
      PROVE  GoodMSHR(d, mshr'[d])
  <2>1. CASE d = c
    BY <1>3, <2>1, Zenon DEF Joined
  <2>2. CASE d # c
    BY <1>3, <1>6, <2>2, Zenon DEF IInv, MshrInv
  <2> QED BY <2>1, <2>2, Zenon
<1>7. MshrInv'
  BY <1>6, Zenon DEF MshrInv, GoodMSHR
<1>8. SameView(c)
  <2>1. inService(c)' <=> inService(c)
    BY <1>2, <1>3, Zenon DEF inService, Joined
  <2>2. inService(c) => (Exclusive(mshr'[c].targets) <=> Exclusive(mshr[c].targets))
    BY <1>3, Zenon DEF inService, Joined
  <2>3. /\ Ex(c)' <=> Ex(c)
        /\ Rd(c)' <=> Rd(c)
        /\ Passed(c)' <=> Passed(c)
        /\ Sharing(c)' <=> Sharing(c)
    BY <1>3, <2>1, <2>2, Zenon DEF Ex, Rd, Passed, Sharing, Joined
  <2> DEFINE old == mshr[c]
             new == mshr'[c]
  <2>0. Joined(c, old, new)
    BY <1>3, Zenon
  <2>4. \A i, x : i \in 1 .. Len(mshr'[c].targets) /\ x = mshr'[c].targets[i] /\ x.snoop
                    <=> i \in 1 .. Len(mshr[c].targets) /\ x = mshr[c].targets[i] /\ x.snoop
    <3> HIDE DEF old, new
    <3>1. \A i, x : i \in 1 .. Len(new.targets) /\ x = new.targets[i] /\ x.snoop
                      <=> i \in 1 .. Len(old.targets) /\ x = old.targets[i] /\ x.snoop
      BY <2>0, Zenon DEF Joined
    <3> QED BY <3>1, Zenon DEF old, new
  <2>5. \A i, t : Promised(c, i, t)' <=> Promised(c, i, t)
    BY <2>3, <2>4, Zenon DEF Promised
  <2> QED BY <2>1, <2>3, <2>5, Zenon DEF SameView
<1>9. \A d \in Caches : SameView(d) /\ SameBits(d)
  BY <1>3, <1>8, SameMSHR, Zenon DEF SameBits
<1>10. ASSUME NEW d \in Caches
       PROVE  GoodCopy(d)'
  <2>1. /\ GoodCopy(d) /\ (inService(d)' <=> inService(d)) /\ (mshr'[d] = None <=> mshr[d] = None)
        /\ (Exclusive(mshr[d].targets) => Exclusive(mshr'[d].targets))
    <3>1. CASE d = c
      BY <1>2, <1>3, <1>8, <3>1, Zenon DEF IInv, CopyInv, Joined, SameView
    <3>2. CASE d # c
      BY <1>3, <1>9, <3>2, Zenon DEF IInv, CopyInv, SameView
    <3> QED BY <3>1, <3>2, Zenon
  <2> QED BY <2>1, Zenon DEF GoodCopy
<1>11. CopyInv'
  BY <1>10, Zenon DEF CopyInv
<1>12. WritableInv' /\ AnswerInv' /\ PromiseInv' /\ SupplierInv' /\ ChainInv' /\ OwnerInv'
  BY <1>1, <1>9, QuietStep, Zenon DEF IInv
<1> QED BY <1>4, <1>5, <1>7, <1>11, <1>12, Zenon DEF IInv

LEMMA OneTargetFact ==
  ASSUME NEW t \in OneTarget
  PROVE  /\ <<t>> \in Targets \ {<< >>} /\ Len(<<t>>) = 1
         /\ \A i \in 1 .. 1 : i = 1 /\ <<t>>[i] = t
         /\ Exclusive(<<t>>) <=> ~t.snoop /\ t.cmd # "ReadReq"
<1> DEFINE s == <<t>>
<1>1. s \in Targets \ {<< >>} /\ Len(s) = 1 /\ s[1] = t /\ \A i \in 1 .. 1 : i = 1
  BY DEF Targets
<1>2. 1 \in 1 .. 1
  OBVIOUS
<1> HIDE DEF s
<1>3. s \in Targets
  BY <1>1, Zenon
<1>4. Exclusive(s) <=> \E i \in 1 .. Len(s) : ~s[i].snoop /\ s[i].cmd # "ReadReq"
  BY <1>3, TargetsFact, Zenon
<1>5. Exclusive(s) <=> ~t.snoop /\ t.cmd # "ReadReq"
  BY <1>1, <1>2, <1>4, Zenon
<1> QED BY <1>1, <1>5, Zenon DEF s

(* An MSHR just allocated, for targets of the cache's own processor.       *)
LEMMA NewMSHRFact ==
  ASSUME NEW c, NEW s \in Targets, s # << >>, Own(s)
  PROVE  /\ NewMSHR(s) \in MSHRs /\ NewMSHR(s) # None /\ NewMSHR(s).targets = s
         /\ ~NewMSHR(s).inService /\ GoodMSHR(c, NewMSHR(s))
<1> DEFINE m == NewMSHR(s)
<1>1. /\ m.targets = s /\ m.deferred = << >> /\ m.inService = FALSE
      /\ m.pendingInvalidate = FALSE /\ m.pendingShared = FALSE
  BY DEF NewMSHR
<1>2. << >> \in Targets
  BY DEF Targets
<1>3. m \in MSHRs
  BY <1>2, Zenon DEF NewMSHR, MSHRs
<1> HIDE DEF m
<1>4. m # None
  BY <1>3, CoherenceAssumption, Zenon DEF CoherenceAssumption
<1>5. Own(m.deferred)
  <2>1. \A i : ~(i \in 1 .. Len(<< >>))
    OBVIOUS
  <2> QED BY <1>1, <2>1, Zenon DEF Own
<1>6. Len(s) \in 1 .. Len(s)
  BY TargetsFact, Zenon
<1>7. GoodTargets(c, s) /\ ~s[Len(s)].snoop
  BY <1>6, Zenon DEF Own, GoodTargets
<1>8. GoodMSHR(c, m)
  BY <1>1, <1>5, <1>7, Zenon DEF GoodMSHR, Own
<1> QED BY <1>1, <1>3, <1>4, <1>8, Zenon DEF m

LEMMA MissStep ==
  ASSUME IInv, NEW c \in Caches, mshr[c] = None, NEW cmd \in OfCpu,
         isReadable(blk[c]) => cmd = "WriteReq" /\ ~isWritable(blk[c]),
         left' \in 0 .. Requests,
         mshr' = [mshr EXCEPT ![c] = NewMSHR(<<Target(c, cmd, FALSE)>>)],
         blk' = [blk EXCEPT ![c].bits = @ \ {"Readable"}],
         UNCHANGED <<wb, blocked, resp, mem, latest, seen>>
  PROVE  IInv' /\ Forward
<1> DEFINE t == Target(c, cmd, FALSE)
           n == NewMSHR(<<t>>)
           b == [blk[c] EXCEPT !.bits = blk[c].bits \ {"Readable"}]
<1>1. t \in OneTarget /\ t.cmd = cmd /\ ~t.snoop
  BY DEF Target, OneTarget, OfCpu, Cmd
<1>2. n \in MSHRs /\ n # None /\ n.targets = <<t>> /\ ~n.inService /\ GoodMSHR(c, n)
  <2>1. <<t>> \in Targets /\ <<t>> # << >> /\ Len(<<t>>) = 1 /\ \A i \in 1 .. 1 : <<t>>[i] = t
    BY <1>1, OneTargetFact, Zenon
  <2>2. Own(<<t>>)
    BY <1>1, <2>1, Zenon DEF Own
  <2> QED BY <2>1, <2>2, NewMSHRFact, Zenon
<1>3. Exclusive(n.targets) <=> cmd # "ReadReq"
  BY <1>1, <1>2, OneTargetFact, Zenon
<1>4. TypeOK /\ seen \in [Caches -> Nat] /\ mshr \in [Caches -> MSHRs \cup {None}]
      /\ resp \in SUBSET Responses /\ blk \in [Caches -> Copies] /\ blk[c] \in Copies
  BY Zenon DEF IInv, TypeOK
<1>5. b \in Copies /\ b.bits = blk[c].bits \ {"Readable"} /\ b.data = blk[c].data
  BY <1>4 DEF Copies
<1>6. blk' = [blk EXCEPT ![c] = b]
  BY <1>4, Zenon
<1> HIDE DEF n, b
<1>7. /\ mshr' \in [Caches -> MSHRs \cup {None}] /\ mshr'[c] = n
      /\ \A d \in Caches : d # c => mshr'[d] = mshr[d]
      /\ blk' \in [Caches -> Copies] /\ blk'[c] = b
      /\ \A d \in Caches : d # c => blk'[d] = blk[d]
  <2>1. mshr' = [mshr EXCEPT ![c] = n]
    BY Zenon DEF n
  <2>2. /\ mshr' \in [Caches -> MSHRs \cup {None}] /\ mshr'[c] = n
        /\ \A d \in Caches : d # c => mshr'[d] = mshr[d]
    BY <1>2, <1>4, <2>1, Zenon
  <2>3. /\ blk' \in [Caches -> Copies] /\ blk'[c] = b
        /\ \A d \in Caches : d # c => blk'[d] = blk[d]
    BY <1>4, <1>5, <1>6, Zenon
  <2> QED BY <2>2, <2>3, Zenon
<1>8. TypeOK'
  BY <1>4, <1>7, Zenon DEF TypeOK
<1>9. Forward
  <2>1. \A d \in Caches : seen[d] >= seen[d]
    BY <1>4
  <2> QED BY <2>1, Zenon DEF Forward
<1>10. MshrInv'
  <2>1. ASSUME NEW d \in Caches, mshr'[d] # None
        PROVE  GoodMSHR(d, mshr'[d])
    BY <1>2, <1>7, <2>1, Zenon DEF IInv, MshrInv
  <2> QED BY <2>1, Zenon DEF MshrInv, GoodMSHR
<1>11. SameView(c)
  BY <1>2, <1>7, Zenon DEF SameView, inService, Ex, Rd, Passed, Sharing, Promised
<1>12. SameBits(c)
  BY <1>5, <1>7 DEF SameBits
<1>13. \A d \in Caches : SameView(d) /\ SameBits(d)
  BY <1>7, <1>11, <1>12, SameMSHR, Zenon DEF SameBits
<1>14. GoodCopy(c)'
  <2>1. GoodCopy(c)
    BY Zenon DEF IInv, CopyInv
  <2>2. b.bits = {} \/ isValid(b)
    BY <1>5, <2>1 DEF GoodCopy, isValid
  <2>3. isValid(b) <=> isValid(blk[c])
    BY <1>5 DEF isValid
  <2>4. isValid(b) => ~isWritable(b) /\ cmd # "ReadReq"
    <3>1. isValid(b) => cmd = "WriteReq" /\ ~isWritable(blk[c])
      BY <2>1, <2>3, Zenon DEF GoodCopy
    <3> QED BY <1>5, <3>1 DEF isWritable
  <2>5. ~inService(c)'
    BY <1>2, <1>7, Zenon DEF inService
  <2> QED BY <1>2, <1>3, <1>5, <1>7, <2>1, <2>2, <2>3, <2>4, <2>5, Zenon DEF GoodCopy, isValid, isWritable
<1>15. CopyInv'
  <2>1. ASSUME NEW d \in Caches, d # c
        PROVE  GoodCopy(d)'
    BY <1>7, <2>1, Zenon DEF IInv, CopyInv, GoodCopy, inService
  <2> QED BY <1>14, <2>1, Zenon DEF CopyInv
<1>16. WritableInv' /\ AnswerInv' /\ PromiseInv' /\ SupplierInv' /\ ChainInv' /\ OwnerInv'
  BY <1>4, <1>13, QuietStep, Zenon DEF IInv
<1> QED BY <1>8, <1>9, <1>10, <1>15, <1>16, Zenon DEF IInv

LEMMA CpuRequestStep ==
  ASSUME IInv, ~LateWrites, NEW c \in Caches, NEW cmd \in OfCpu, CpuRequest(c, cmd)
  PROVE  IInv' /\ Forward
<1> DEFINE t == Target(c, cmd, FALSE)
           hit == IF needsExclusive(cmd) THEN isWritable(blk[c]) ELSE isReadable(blk[c])
<1>1. TypeOK /\ left \in 0 .. Requests /\ blocked \in [Caches -> BOOLEAN]
  BY Zenon DEF IInv, TypeOK
<1>2. left > 0 /\ left' = left - 1 /\ UNCHANGED <<wb, resp, mem>>
  BY Zenon DEF CpuRequest
<1>3. left' \in 0 .. Requests
  BY <1>1, <1>2, CoherenceAssumption, LeftFact, Zenon
<1>4. cmd = "ReadReq" \/ cmd = "WriteReq"
  BY Zenon DEF OfCpu
<1>5. hit <=> IF cmd # "ReadReq" THEN isWritable(blk[c]) ELSE isReadable(blk[c])
  BY Zenon DEF needsExclusive
<1>6. CASE /\ hit
           /\ LET s == Satisfy(State(c), cmd)
              IN  /\ blk' = [blk EXCEPT ![c] = s.blk]
                  /\ latest' = s.latest
                  /\ seen' = [seen EXCEPT ![c] = s.seen]
           /\ UNCHANGED <<mshr, blocked>>
  <2> DEFINE z == State(c)
             s == Satisfy(z, cmd)
  <2>1. z.blk = blk[c] /\ z.latest = latest /\ z.seen = seen[c] /\ z.out = {}
    BY DEF State
  <2>2. blk \in [Caches -> Copies] /\ blk[c] \in Copies /\ latest \in Nat /\ seen[c] \in Nat
    BY <1>1, Zenon DEF TypeOK
  <2>3. z \in LoopState
    BY <2>2, Zenon DEF State, LoopState
  <2> HIDE DEF z
  <2>4. /\ s \in LoopState
        /\ cmd = "WriteReq" => /\ s.blk.bits = z.blk.bits \cup {"Dirty"}
                               /\ s.blk.data = z.blk.data + 1
                               /\ s.latest = z.latest + 1 /\ s.seen = z.blk.data + 1
        /\ cmd # "WriteReq" => /\ s.blk = z.blk /\ s.latest = z.latest
                               /\ s.seen = z.blk.data
    BY <2>3, SatisfyFact, Zenon
  <2>5. /\ blk' = [blk EXCEPT ![c] = s.blk] /\ latest' = s.latest
        /\ seen' = [seen EXCEPT ![c] = s.seen]
    BY <1>6, Zenon DEF z
  <2> HIDE DEF s
  <2>6. s.blk \in Copies
    BY <2>4 DEF LoopState
  <2>7. CASE cmd = "ReadReq"
    <3>1. isReadable(blk[c]) /\ s.blk = blk[c] /\ s.latest = latest /\ s.seen = blk[c].data
      <4>1. cmd # "WriteReq"
        BY <2>7
      <4> QED BY <1>5, <1>6, <2>1, <2>4, <2>7, <4>1, Zenon
    <3>2. blk' = blk
      BY <2>2, <2>5, <3>1, Zenon
    <3> QED BY <1>2, <1>3, <1>6, <2>5, <3>1, <3>2, ReadHitStep, Zenon
  <2>8. CASE cmd = "WriteReq"
    <3>1. cmd # "ReadReq"
      BY <2>8
    <3>2. /\ isWritable(blk[c]) /\ s.blk.bits = blk[c].bits \cup {"Dirty"}
          /\ s.blk.data = blk[c].data + 1 /\ s.latest = latest + 1 /\ s.seen = blk[c].data + 1
      BY <1>5, <1>6, <2>1, <2>4, <2>8, <3>1, Zenon
    <3>3. latest' = latest + 1 /\ seen' = [seen EXCEPT ![c] = blk[c].data + 1]
      BY <2>5, <3>2, Zenon
    <3> QED BY <1>2, <1>3, <1>6, <2>5, <2>6, <3>2, <3>3, WriteHitStep, Zenon
  <2> QED BY <1>4, <2>7, <2>8, Zenon
<1>7. CASE /\ ~hit /\ mshr[c] # None
           /\ LateWrites \/ ~IsLate(mshr[c], t)
           /\ mshr' = [mshr EXCEPT ![c] = allocateTarget(@, t)]
           /\ blocked' = [blocked EXCEPT ![c] = getNumTargets(mshr'[c]) = numTarget]
           /\ UNCHANGED <<blk, latest, seen>>
  <2> DEFINE u == allocateTarget(mshr[c], t)
  <2>1. mshr[c] \in MSHRs /\ GoodMSHR(c, mshr[c])
    BY <1>1, <1>7, TypeFact, Zenon DEF IInv, MshrInv
  <2>2. Joined(c, mshr[c], u)
    BY <1>7, <2>1, AllocateFact, Zenon
  <2>3. mshr' = [mshr EXCEPT ![c] = u]
    BY <1>7, Zenon
  <2>4. blocked' \in [Caches -> BOOLEAN]
    BY <1>1, <1>7, Zenon
  <2> HIDE DEF u
  <2> QED BY <1>2, <1>3, <1>7, <2>2, <2>3, <2>4, MSHRHitStep, Zenon
<1>8. CASE /\ ~hit /\ mshr[c] = None
           /\ mshr' = [mshr EXCEPT ![c] = NewMSHR(<<t>>)]
           /\ blk' = [blk EXCEPT ![c].bits = @ \ {"Readable"}]
           /\ UNCHANGED <<blocked, latest, seen>>
  <2>1. isReadable(blk[c]) => cmd = "WriteReq" /\ ~isWritable(blk[c])
    BY <1>4, <1>5, <1>8, Zenon
  <2> QED BY <1>2, <1>3, <1>8, <2>1, MissStep, Zenon
<1> QED BY <1>6, <1>7, <1>8, Zenon DEF CpuRequest
-----------------------------------------------------------------------------
(* Writebacks and evictions.                                               *)

LEMMA SendWritebackStep ==
  ASSUME IInv, NEW c \in Caches, SendWriteback(c)
  PROVE  IInv' /\ Forward
<1>1. wb[c] # None /\ mem' = wb[c] /\ wb' = [wb EXCEPT ![c] = None]
      /\ UNCHANGED <<blk, mshr, blocked, resp, left, latest, seen>>
  BY Zenon DEF SendWriteback
<1>2. TypeOK /\ wb \in [Caches -> Nat \cup {None}] /\ latest \in Nat /\ seen \in [Caches -> Nat]
  BY Zenon DEF IInv, TypeOK
<1>3. wb[c] = latest
  BY <1>1, Zenon DEF IInv, CopyInv, GoodCopy
<1>4. /\ wb' \in [Caches -> Nat \cup {None}] /\ wb'[c] = None
      /\ \A d \in Caches : d # c => wb'[d] = wb[d]
  BY <1>1, <1>2, Zenon
<1>5. TypeOK'
  BY <1>1, <1>2, <1>3, <1>4, Zenon DEF TypeOK
<1>6. Forward
  <2>1. \A d \in Caches : seen[d] >= seen[d]
    BY <1>2
  <2> QED BY <1>1, <2>1, Zenon DEF Forward
<1>7. MshrInv' /\ CopyInv'
  <2>1. MshrInv'
    BY <1>1, Zenon DEF IInv, MshrInv, GoodMSHR
  <2>2. CopyInv'
    BY <1>1, <1>4, Zenon DEF IInv, CopyInv, GoodCopy, inService
  <2> QED BY <2>1, <2>2, Zenon
<1>8. \A d \in Caches : SameView(d)
  BY <1>1, SameMSHR, Zenon
<1>9. ASSUME NEW d \in Caches, Alone(d)
      PROVE  Alone(d)'
  BY <1>1, <1>4, <1>8, <1>9, Zenon DEF Alone, SameView, isValid
<1>10. WritableInv'
  BY <1>1, <1>9, Zenon DEF IInv, WritableInv, isWritable
<1>11. ASSUME NEW r \in resp
       PROVE  GoodAnswer(r.to, r)'
  <2>1. r.to \in Caches
    BY <1>2 DEF TypeOK, Responses
  <2>2. GoodAnswer(r.to, r) /\ SameView(r.to)
    BY <1>8, <2>1, Zenon DEF IInv, AnswerInv
  <2>3. (\A d \in Caches : ~Ex(d)) => \A d \in Caches : ~Ex(d)'
    BY <1>8, Zenon DEF SameView
  <2> QED BY <1>1, <1>9, <2>1, <2>2, <2>3, Zenon DEF GoodAnswer, SameView, isValid, isDirty
<1>12. AnswerInv'
  BY <1>1, <1>11, Zenon DEF IInv, AnswerInv
<1>13. \A d \in Caches : ~Ex(d)
  <2>1. PICK q : Chain(q)
    BY Zenon DEF IInv, ChainInv
  <2>2. q = << >>
    BY <1>1, <2>1, Zenon DEF Chain
  <2>3. \A i : ~(i \in 1 .. Len(q))
    BY <2>2
  <2> QED BY <2>1, <2>3, Zenon DEF Chain
<1>14. \A d \in Caches : ~Ex(d)' /\ (\A i, t : ~Promised(d, i, t)') /\ \A e : ~Owes(d, e)
  BY <1>8, <1>13, Zenon DEF SameView, Promised, Owes
<1>15. PromiseInv' /\ ChainInv'
  BY <1>14, EmptyChain, Zenon DEF PromiseInv
<1>16. SupplierInv'
  BY <1>1, <1>8, <1>14, Zenon DEF IInv, SupplierInv, SameView
<1>17. OwnerInv'
  <2>1. \A d \in Caches : Owns(d)' => Owns(d)
    BY <1>1, <1>4, Zenon DEF Owns, isDirty
  <2> QED BY <1>1, <1>3, <2>1, Zenon DEF IInv, OwnerInv
<1> QED BY <1>5, <1>6, <1>7, <1>10, <1>12, <1>15, <1>16, <1>17, Zenon DEF IInv

(* While a request for an exclusive copy is in service only the head of    *)
(* the chain has a copy.                                                   *)
LEMMA NoExIfIdleCopy ==
  ASSUME ChainInv, NEW c \in Caches, isValid(blk[c]) \/ wb[c] # None, ~inService(c)
  PROVE  \A d \in Caches : ~Ex(d)
<1>1. PICK q : Chain(q)
  BY Zenon DEF ChainInv
<1>2. q = << >>
  <2> SUFFICES ASSUME q # << >> PROVE FALSE
    OBVIOUS
  <2>1. Ex(q[1])
    BY <1>1, ChainHead, Zenon
  <2> QED BY <1>1, <2>1, Zenon DEF Chain, Ex
<1>3. \A i : ~(i \in 1 .. Len(q))
  BY <1>2
<1> QED BY <1>1, <1>3, Zenon DEF Chain

LEMMA allocateBlockStep ==
  ASSUME IInv, NEW c \in Caches, allocateBlock(c)
  PROVE  IInv' /\ Forward
<1>1. /\ isValid(blk[c]) /\ mshr[c] = None /\ blk' = [blk EXCEPT ![c] = Invalid]
      /\ wb' = [wb EXCEPT ![c] = IF isDirty(blk[c]) THEN blk[c].data ELSE @]
      /\ UNCHANGED <<mshr, blocked, resp, mem, left, latest, seen>>
  BY Zenon DEF allocateBlock
<1>2. /\ TypeOK /\ wb \in [Caches -> Nat \cup {None}] /\ latest \in Nat /\ seen \in [Caches -> Nat]
      /\ blk \in [Caches -> Copies] /\ blk[c].data \in Nat
  BY TypeFact, Zenon DEF IInv, TypeOK
<1>3. blk[c].data = latest /\ wb[c] = None /\ GoodCopy(c) /\ ~inService(c)
  BY <1>1, Zenon DEF IInv, CopyInv, GoodCopy, inService
<1>4. /\ wb' \in [Caches -> Nat \cup {None}]
      /\ wb'[c] = IF isDirty(blk[c]) THEN latest ELSE None
      /\ \A d \in Caches : d # c => wb'[d] = wb[d]
      /\ blk' \in [Caches -> Copies] /\ blk'[c] = Invalid
      /\ \A d \in Caches : d # c => blk'[d] = blk[d]
  BY <1>1, <1>2, <1>3, InvalidFact, Zenon
<1>5. TypeOK'
  BY <1>1, <1>2, <1>4, Zenon DEF TypeOK
<1>6. Forward
  <2>1. \A d \in Caches : seen[d] >= seen[d]
    BY <1>2
  <2> QED BY <1>1, <2>1, Zenon DEF Forward
<1>7. MshrInv'
  BY <1>1, Zenon DEF IInv, MshrInv, GoodMSHR
<1>8. ~isValid(Invalid) /\ ~isWritable(Invalid) /\ ~isDirty(Invalid) /\ Invalid.bits = {}
  BY InvalidFact DEF isValid, isWritable, isDirty
<1>9. \A d \in Caches : SameView(d)
  BY <1>1, SameMSHR, Zenon
<1>10. ASSUME NEW d \in Caches
       PROVE  GoodCopy(d)'
  <2>1. CASE d = c
    <3>1. ~inService(c)'
      BY <1>3, <1>9, Zenon DEF SameView
    <3>2. seen'[c] <= latest'
      BY <1>1, <1>3, Zenon DEF GoodCopy
    <3> QED BY <1>1, <1>4, <1>8, <2>1, <3>1, <3>2, Zenon DEF GoodCopy, isValid
  <2>2. CASE d # c
    BY <1>1, <1>4, <1>9, <2>2, Zenon DEF IInv, CopyInv, GoodCopy, SameView
  <2> QED BY <2>1, <2>2, Zenon
<1>11. CopyInv'
  BY <1>10, Zenon DEF CopyInv
<1>12. \A d \in Caches : d # c => ~Alone(d)
  BY <1>1, Zenon DEF Alone
<1>13. WritableInv'
  <2>1. ASSUME NEW d \in Caches
        PROVE  ~isWritable(blk'[d])
    BY <1>4, <1>8, <1>12, Zenon DEF IInv, WritableInv
  <2> QED BY <2>1, Zenon DEF WritableInv, isWritable
<1>14. \A d \in Caches : ~Ex(d)
  BY <1>1, <1>3, NoExIfIdleCopy, Zenon DEF IInv
<1>15. ASSUME NEW r \in resp
       PROVE  GoodAnswer(r.to, r)'
  <2>1. r.to \in Caches
    BY <1>2 DEF TypeOK, Responses
  <2>2. GoodAnswer(r.to, r) /\ SameView(r.to) /\ inService(r.to)
    BY <1>9, <2>1, Zenon DEF IInv, AnswerInv, GoodAnswer
  <2>3. r.to # c /\ blk'[r.to] = blk[r.to] /\ ~Alone(r.to)
    BY <1>3, <1>4, <1>12, <2>1, <2>2, Zenon
  <2>4. \A d \in Caches : ~Ex(d)'
    BY <1>9, <1>14, Zenon DEF SameView
  <2> QED BY <1>1, <2>1, <2>2, <2>3, <2>4, Zenon DEF GoodAnswer, SameView, isValid, isDirty
<1>16. AnswerInv'
  BY <1>1, <1>15, Zenon DEF IInv, AnswerInv
<1>17. \A d \in Caches : ~Ex(d)' /\ (\A i, t : ~Promised(d, i, t)') /\ \A e : ~Owes(d, e)
  BY <1>9, <1>14, Zenon DEF SameView, Promised, Owes
<1>18. PromiseInv' /\ ChainInv'
  BY <1>17, EmptyChain, Zenon DEF PromiseInv
<1>19. SupplierInv'
  BY <1>1, <1>9, <1>17, Zenon DEF IInv, SupplierInv, SameView
<1>20. OwnerInv'
  <2>1. \A d \in Caches : Owns(d)' <=> Owns(d)
    <3>1. Owns(c) <=> isDirty(blk[c])
      BY <1>3, Zenon DEF Owns
    <3>2. latest # None
      BY <1>2, CoherenceAssumption, Zenon DEF CoherenceAssumption
    <3>3. Owns(c)' <=> isDirty(blk[c])
      BY <1>4, <1>8, <3>2, Zenon DEF Owns, isDirty
    <3> QED BY <1>4, <3>1, <3>3, Zenon DEF Owns, isDirty
  <2> QED BY <1>1, <2>1, Zenon DEF IInv, OwnerInv
<1> QED BY <1>5, <1>6, <1>7, <1>11, <1>13, <1>16, <1>18, <1>19, <1>20, Zenon DEF IInv
-----------------------------------------------------------------------------
(* A request on the bus.                                                   *)

(* MSHR m has seen request t, and u is what it has become.                 *)
Saw(d, m, t, u) ==
  /\ u \in MSHRs /\ GoodMSHR(d, u) /\ u.inService
  /\ Exclusive(u.targets) <=> Exclusive(m.targets)
  /\ u.pendingInvalidate <=> m.pendingInvalidate \/ t.cmd # "ReadReq"
  /\ m.pendingShared => u.pendingShared
  /\ ~m.pendingInvalidate /\ ~Exclusive(m.targets) /\ t.cmd = "ReadReq" => u.pendingShared
  /\ Exclusive(m.targets) =>
       \A i, x : i \in 1 .. Len(u.targets) /\ x = u.targets[i] /\ x.snoop
                   <=> \/ i \in 1 .. Len(m.targets) /\ x = m.targets[i] /\ x.snoop
                       \/ ~m.pendingInvalidate /\ i = Len(m.targets) + 1 /\ x = t

LEMMA DeferredFact ==
  ASSUME NEW d \in Caches, NEW m \in MSHRs, GoodMSHR(d, m), m.inService,
         NEW t \in OneTarget, t.snoop, t.from # d, t.cmd \in OnBus
  PROVE  Saw(d, m, t, Deferred(m, t))
<1> DEFINE u == Deferred(m, t)
           old == m.targets
<1> SUFFICES Saw(d, m, t, u)
  BY Zenon
<1>1. /\ old \in Targets /\ old # << >> /\ m.deferred \in Targets
      /\ m.inService \in BOOLEAN /\ m.pendingInvalidate \in BOOLEAN /\ m.pendingShared \in BOOLEAN
  BY MSHRFact, Zenon
<1>2. CASE m.pendingInvalidate
  <2>1. u = m
    BY <1>2, Zenon DEF Deferred
  <2> QED BY <1>2, <2>1, Zenon DEF Saw
<1>3. CASE ~m.pendingInvalidate /\ (Exclusive(old) \/ needsExclusive(t.cmd))
  <2> DEFINE e == Append(old, t)
             p == needsExclusive(t.cmd)
  <2>1. u = [m EXCEPT !.targets = e, !.pendingInvalidate = p]
    BY <1>3, Zenon DEF Deferred
  <2>2. Longer(old, t, e) /\ p \in BOOLEAN /\ (p <=> t.cmd # "ReadReq")
    BY <1>1, AppendFact, Zenon DEF needsExclusive
  <2> HIDE DEF e, p
  <2>3. u = [targets |-> e, deferred |-> m.deferred, inService |-> m.inService,
             pendingInvalidate |-> p, pendingShared |-> m.pendingShared]
    BY <2>1, Zenon DEF MSHRs
  <2> HIDE DEF u
  <2>4. /\ u.targets = e /\ u.deferred = m.deferred /\ u.inService = m.inService
        /\ u.pendingInvalidate = p /\ u.pendingShared = m.pendingShared
    BY <2>3, Zenon
  <2>5. u \in MSHRs
    BY <1>1, <2>2, <2>3, Zenon DEF MSHRs, Longer
  <2>6. \A i \in 1 .. Len(old) : old[i].snoop => old[i].cmd = "ReadReq"
    BY <1>3, Zenon DEF GoodMSHR, GoodTargets
  <2>8. GoodTargets(d, e)
    <3>1. GoodTargets(d, old)
      BY Zenon DEF GoodMSHR
    <3>2. ASSUME NEW i \in 1 .. Len(e)
          PROVE  /\ e[i].snoop => e[i].cmd \in OnBus /\ e[i].from # d
                 /\ ~e[i].snoop => e[i].cmd \in OfCpu
                 /\ e[i].snoop /\ e[i].cmd # "ReadReq" => i = Len(e)
      <4>1. CASE i \in 1 .. Len(old)
        <5>1. e[i] = old[i]
          BY <2>2, <4>1, Zenon DEF Longer
        <5> QED BY <2>6, <3>1, <4>1, <5>1, Zenon DEF GoodTargets
      <4>2. CASE i = Len(e)
        BY <2>2, <4>2, Zenon DEF Longer
      <4> QED BY <2>2, <4>1, <4>2, Zenon DEF Longer
    <3>3. ASSUME NEW i \in 1 .. Len(e), NEW j \in 1 .. Len(e), i < j, e[i].snoop, ~e[j].snoop
          PROVE  e[j].cmd = "ReadReq"
      <4>1. j \in 1 .. Len(old)
        BY <2>2, <3>3, Zenon DEF Longer
      <4>2. i \in 1 .. Len(old)
        <5>1. Len(e) \in Nat /\ Len(old) \in Nat /\ Len(e) = Len(old) + 1
          BY <1>1, <2>2, TargetsFact, Zenon DEF Longer
        <5> QED BY <3>3, <4>1, <5>1
      <4>3. e[i] = old[i] /\ e[j] = old[j]
        BY <2>2, <4>1, <4>2, Zenon DEF Longer
      <4> QED BY <3>1, <3>3, <4>1, <4>2, <4>3, Zenon DEF GoodTargets
    <3> QED BY <3>2, <3>3, Zenon DEF GoodTargets
  <2>9. Exclusive(e) <=> Exclusive(old)
    BY <2>2, Zenon DEF Longer
  <2>10. p <=> e[Len(e)].snoop /\ e[Len(e)].cmd # "ReadReq"
    BY <2>2, Zenon DEF Longer
  <2>11. ~Exclusive(e) => p /\ \A i \in 1 .. Len(e) : e[i].snoop => e[i].cmd # "ReadReq"
    <3>1. ~Exclusive(old) => p /\ \A i \in 1 .. Len(old) : old[i].snoop => old[i].cmd # "ReadReq"
      BY <1>3, <2>2, Zenon DEF GoodMSHR, needsExclusive
    <3> QED BY <2>2, <2>9, <3>1, Zenon DEF Longer
  <2>12. /\ Own(m.deferred)
         /\ m.pendingShared => ~Exclusive(e)
         /\ m.deferred # << >> => p \/ (~Exclusive(e) /\ Exclusive(m.deferred))
    BY <1>3, <2>9, Zenon DEF GoodMSHR
  <2>13. GoodMSHR(d, u)
    BY <2>4, <2>8, <2>10, <2>11, <2>12, Zenon DEF GoodMSHR
  <2>14. \A i, x : i \in 1 .. Len(e) /\ x = e[i] /\ x.snoop
                     <=> \/ i \in 1 .. Len(old) /\ x = old[i] /\ x.snoop
                         \/ i = Len(old) + 1 /\ x = t
    BY <2>2, Zenon DEF Longer
  <2>15. ~Exclusive(old) => t.cmd # "ReadReq"
    BY <1>3, Zenon DEF needsExclusive
  <2> QED BY <1>3, <2>2, <2>4, <2>5, <2>9, <2>13, <2>14, <2>15, Zenon DEF Saw
<1>4. CASE ~m.pendingInvalidate /\ ~(Exclusive(old) \/ needsExclusive(t.cmd))
  <2>1. u = [m EXCEPT !.pendingShared = TRUE]
    BY <1>4, Zenon DEF Deferred
  <2>2. u = [targets |-> old, deferred |-> m.deferred, inService |-> m.inService,
             pendingInvalidate |-> m.pendingInvalidate, pendingShared |-> TRUE]
    BY <2>1, Zenon DEF MSHRs
  <2> HIDE DEF u
  <2>3. /\ u.targets = old /\ u.deferred = m.deferred /\ u.inService = m.inService
        /\ u.pendingInvalidate = m.pendingInvalidate /\ u.pendingShared = TRUE
    BY <2>2, Zenon
  <2>4. u \in MSHRs
    BY <1>1, <2>2, Zenon DEF MSHRs
  <2>5. GoodMSHR(d, u)
    BY <1>4, <2>3, Zenon DEF GoodMSHR
  <2> QED BY <1>4, <2>3, <2>4, <2>5, Zenon DEF Saw, needsExclusive
<1> QED BY <1>2, <1>3, <1>4, Zenon

(* z is what snooping t makes of a cache without an MSHR in service.       *)
Shown(d, t, z) ==
  /\ z.blk \in Copies
  /\ ~isValid(blk[d]) => z.blk = blk[d]
  /\ isValid(blk[d]) /\ t.cmd = "ReadReq" => /\ z.blk.bits = blk[d].bits \ {"Writable"}
                                             /\ z.blk.data = blk[d].data
  /\ isValid(blk[d]) /\ t.cmd # "ReadReq" => z.blk = Invalid
  /\ z.out = IF Owns(d) THEN {Reply(d, t, latest, FALSE)} ELSE {}

LEMMA SnoopedFact ==
  ASSUME TypeOK, NEW d \in Caches, GoodCopy(d), NEW t \in OneTarget
  PROVE  Shown(d, t, Snooped(d, t))
<1> DEFINE w == [to |-> t.from, by |-> d, cmd |-> t.cmd, data |-> wb[d],
                 shared |-> t.cmd = "ReadReq", inhibit |-> TRUE, inval |-> FALSE]
           o == IF wb[d] = None THEN {} ELSE {w}
           s == [State(d) EXCEPT !.out = o]
           z == handleSnoop(s, d, t, FALSE)
<1>1. Snooped(d, t) = z
  BY Zenon DEF Snooped
<1>2. /\ blk[d] \in Copies /\ latest \in Nat /\ seen[d] \in Nat /\ (wb[d] # None => wb[d] \in Nat)
  BY TypeFact, Zenon
<1>3. w = Reply(d, t, wb[d], FALSE)
  BY Zenon DEF Reply
<1>4. wb[d] # None => w \in Responses
  BY <1>2 DEF Responses, OneTarget
<1> HIDE DEF w
<1>5. o \in SUBSET Responses
  BY <1>4, Zenon
<1> HIDE DEF o
<1>6. s = [blk |-> blk[d], latest |-> latest, seen |-> seen[d], out |-> o]
  BY DEF State
<1> HIDE DEF s
<1>7. s.blk = blk[d] /\ s.out = o
  BY <1>6, Zenon
<1>8. s \in LoopState
  BY <1>2, <1>5, <1>6, Zenon DEF LoopState
<1>9. SnoopResult(s, d, t, FALSE, z)
  BY <1>8, SnoopFact, Zenon
<1> HIDE DEF z
<1>10. z.blk \in Copies
  BY <1>9 DEF SnoopResult, LoopState
<1>11. z.out = IF Owns(d) THEN {Reply(d, t, latest, FALSE)} ELSE {}
  <2>1. CASE ~isValid(blk[d])
    <3>1. z.out = o /\ ~isDirty(blk[d])
      BY <1>7, <1>9, <2>1 DEF SnoopResult, GoodCopy, isDirty
    <3>2. wb[d] # None => wb[d] = latest
      BY Zenon DEF GoodCopy
    <3> QED BY <1>3, <3>1, <3>2, Zenon DEF o, Owns
  <2>2. CASE isValid(blk[d])
    <3>1. wb[d] = None /\ blk[d].data = latest
      BY <2>2, Zenon DEF GoodCopy
    <3>2. o = {}
      BY <3>1, Zenon DEF o
    <3>3. z.out = IF isDirty(blk[d]) THEN {} \cup {Reply(d, t, latest, FALSE)} ELSE {}
      BY <1>7, <1>9, <2>2, <3>1, <3>2, Zenon DEF SnoopResult
    <3> QED BY <3>1, <3>3, Zenon DEF Owns
  <2> QED BY <2>1, <2>2, Zenon
<1>12. Shown(d, t, z)
  BY <1>7, <1>9, <1>10, <1>11, Zenon DEF Shown, SnoopResult
<1> QED BY <1>1, <1>12, Zenon

(* A request t of cache c on the bus: its own MSHR,                        *)
SentFrom(c, t) ==
  /\ t \in OneTarget /\ t.from = c /\ t.snoop /\ t.cmd \in OnBus
  /\ t.cmd = "UpgradeReq" <=> isValid(blk[c])
  /\ ~inService(c) /\ wb[c] = None
  /\ inService(c)' /\ ~Passed(c)'
  /\ Ex(c)' <=> t.cmd # "ReadReq"
  /\ Rd(c)' <=> t.cmd = "ReadReq"
  /\ \A i, x : ~Promised(c, i, x)'

(* the MSHRs of the other caches,                                          *)
SentTo(t, d) ==
  /\ inService(d)' <=> inService(d)
  /\ Ex(d)' <=> Ex(d)
  /\ Rd(d)' <=> Rd(d)
  /\ Passed(d)' <=> inService(d) /\ (Passed(d) \/ t.cmd # "ReadReq")
  /\ Sharing(d) => Sharing(d)'
  /\ Rd(d) /\ ~Passed(d) /\ t.cmd = "ReadReq" => Sharing(d)'
  /\ \A i, x : Promised(d, i, x)'
                 <=> \/ Promised(d, i, x)
                     \/ Ex(d) /\ ~Passed(d) /\ i = Len(mshr[d].targets) + 1 /\ x = t

(* the copies and the writebacks,                                          *)
SentBlk(c, t, d) ==
  /\ d = c \/ inService(d) \/ ~isValid(blk[d]) => blk'[d] = blk[d]
  /\ d # c /\ ~inService(d) /\ isValid(blk[d]) /\ t.cmd = "ReadReq" =>
       blk'[d].bits = blk[d].bits \ {"Writable"} /\ blk'[d].data = blk[d].data
  /\ d # c /\ ~inService(d) /\ isValid(blk[d]) /\ t.cmd # "ReadReq" => blk'[d] = Invalid
  /\ wb'[d] = IF t.cmd # "ReadReq" THEN None ELSE wb[d]

(* and the answers, x the one of memory.                                   *)
Supplies(d) == IF inService(d) THEN Ex(d) /\ ~Passed(d) ELSE Owns(d)

Keeps(d) == IF inService(d) THEN Rd(d) /\ ~Passed(d) ELSE wb[d] # None \/ isValid(blk[d])

Answers(c, t, x) ==
  /\ x \in Responses /\ x.to = c /\ x.cmd = t.cmd /\ x.data = mem /\ ~x.inhibit /\ ~x.inval
  /\ x.shared <=> t.cmd = "ReadReq" /\ \E d \in Caches : d # c /\ Keeps(d)
  /\ \A y : y \in resp'
       <=> \/ y \in resp
           \/ \E d \in Caches : /\ d # c /\ ~inService(d) /\ Owns(d)
                                /\ y = Reply(d, t, latest, FALSE)
           \/ (\A d \in Caches : d # c => ~Supplies(d)) /\ y = x

Sent(c, t, x) ==
  /\ SentFrom(c, t) /\ Answers(c, t, x)
  /\ \A d \in Caches : d # c => SentTo(t, d)
  /\ \A d \in Caches : SentBlk(c, t, d)
  /\ mem' = mem /\ latest' = latest /\ seen' = seen

LEMMA StartedFact ==
  ASSUME NEW c, NEW m \in MSHRs, GoodMSHR(c, m), ~m.inService
  PROVE  LET own == [m EXCEPT !.inService = TRUE]
         IN  /\ own \in MSHRs /\ own # None /\ own.inService /\ own.targets = m.targets
             /\ ~own.pendingInvalidate /\ GoodMSHR(c, own)
<1> DEFINE own == [m EXCEPT !.inService = TRUE]
<1>1. m.targets \in Targets /\ m.targets # << >>
  BY MSHRFact, Zenon
<1>2. Len(m.targets) \in 1 .. Len(m.targets)
  BY <1>1, TargetsFact, Zenon
<1>3. Own(m.targets) /\ ~m.pendingInvalidate /\ ~m.pendingShared /\ m.deferred = << >>
  BY <1>2, Zenon DEF GoodMSHR, Own
<1>9. own = [m EXCEPT !.inService = TRUE]
  BY Zenon
<1> HIDE DEF own
<1>4. own = [targets |-> m.targets, deferred |-> m.deferred, inService |-> TRUE,
             pendingInvalidate |-> m.pendingInvalidate, pendingShared |-> m.pendingShared]
  BY <1>9, Zenon DEF MSHRs
<1>5. /\ own.targets = m.targets /\ own.deferred = m.deferred /\ own.inService = TRUE
      /\ own.pendingInvalidate = m.pendingInvalidate /\ own.pendingShared = m.pendingShared
  BY <1>4, Zenon
<1>6. own \in MSHRs
  BY <1>4, MSHRFact, Zenon DEF MSHRs
<1>7. own # None
  BY <1>6, CoherenceAssumption, Zenon DEF CoherenceAssumption
<1>8. GoodMSHR(c, own)
  BY <1>3, <1>5, Zenon DEF GoodMSHR
<1> QED BY <1>3, <1>5, <1>6, <1>7, <1>8, Zenon DEF own

LEMMA SendFact ==
  ASSUME IInv, NEW c \in Caches, SendRequest(c)
  PROVE  (\E t, x : Sent(c, t, x)) /\ TypeOK' /\ MshrInv'
<1> DEFINE cmd == getBusPacket(c)
           t == Target(c, cmd, TRUE)
           others == Caches \ {c}
           x == [to |-> c, by |-> None, cmd |-> cmd, data |-> mem,
                 shared |-> \E d \in others : AssertsShared(d, cmd),
                 inhibit |-> FALSE, inval |-> FALSE]
           m == mshr[c]
           own == [m EXCEPT !.inService = TRUE]
           fromCaches == UNION {Snooped(d, t).out : d \in {e \in others : e # c /\ ~inService(e)}}
           fromMemory == IF \E d \in others : AssertsInhibit(d, cmd) THEN {} ELSE {x}
<1>1. /\ m # None /\ ~m.inService /\ wb[c] = None
      /\ mshr' = [d \in Caches |-> IF d = c THEN own
                                   ELSE IF d # c /\ inService(d) THEN Deferred(mshr[d], t) ELSE mshr[d]]
      /\ blk' = [d \in Caches |-> IF d # c /\ ~inService(d) THEN Snooped(d, t).blk ELSE blk[d]]
      /\ wb' = [d \in Caches |-> IF (d # c /\ ~inService(d)) /\ needsExclusive(cmd) THEN None ELSE wb[d]]
      /\ UNCHANGED <<blocked, mem, left, latest, seen>>
  BY Zenon DEF SendRequest
<1>20. resp' = resp \cup fromCaches \cup fromMemory
  BY Zenon DEF SendRequest
<1>2. TypeOK /\ m \in MSHRs /\ GoodMSHR(c, m) /\ GoodCopy(c) /\ mem \in Nat /\ resp \in SUBSET Responses
  BY <1>1, TypeFact, Zenon DEF IInv, MshrInv, CopyInv, TypeOK
<1>3. ~inService(c) /\ Own(m.targets)
  BY <1>1, <1>2, Zenon DEF GoodMSHR, inService
<1>4. /\ cmd \in OnBus
      /\ cmd = "UpgradeReq" <=> isValid(blk[c])
      /\ cmd = "ReadReq" <=> ~Exclusive(m.targets)
  <2>1. isValid(blk[c]) => Exclusive(m.targets)
    BY <1>1, <1>2, Zenon DEF GoodCopy
  <2>2. isValid(blk[c]) => cmd = "UpgradeReq"
    BY Zenon DEF getBusPacket
  <2>3. ~isValid(blk[c]) /\ Exclusive(m.targets) => cmd = "ReadExReq"
    BY Zenon DEF getBusPacket
  <2>4. ~isValid(blk[c]) /\ ~Exclusive(m.targets) => cmd = "ReadReq"
    BY Zenon DEF getBusPacket
  <2> QED BY <2>1, <2>2, <2>3, <2>4 DEF OnBus
<1> HIDE DEF cmd
<1>5. t \in OneTarget /\ t.from = c /\ t.snoop /\ t.cmd = cmd
  BY <1>4 DEF Target, OneTarget, Cmd, OnBus
<1>6. /\ x \in Responses /\ x.to = c /\ x.cmd = cmd /\ x.data = mem /\ ~x.inhibit /\ ~x.inval
      /\ x.shared <=> \E d \in others : AssertsShared(d, cmd)
  BY <1>2, <1>4 DEF Responses, Cmd, OnBus
<1> HIDE DEF t, x
<1>7. /\ own \in MSHRs /\ own # None /\ own.inService /\ own.targets = m.targets
      /\ ~own.pendingInvalidate /\ GoodMSHR(c, own)
  BY <1>1, <1>2, StartedFact, Zenon
<1> HIDE DEF own
<1>8. /\ mshr'[c] = own
      /\ \A d \in Caches : d # c /\ ~inService(d) => mshr'[d] = mshr[d]
      /\ \A d \in Caches : d # c /\ inService(d) => mshr'[d] = Deferred(mshr[d], t)
  BY <1>1, Zenon
<1>9. SentFrom(c, t)
  <2>1. inService(c)' /\ ~Passed(c)' /\ (Ex(c)' <=> Exclusive(m.targets)) /\ (Rd(c)' <=> ~Exclusive(m.targets))
    BY <1>7, <1>8, Zenon DEF inService, Passed, Ex, Rd
  <2>2. \A i, y : ~Promised(c, i, y)'
    BY <1>3, <1>7, <1>8, Zenon DEF Promised, Own
  <2> QED BY <1>1, <1>3, <1>4, <1>5, <2>1, <2>2, Zenon DEF SentFrom
<1>10. ASSUME NEW d \in Caches, d # c, inService(d)
       PROVE  Saw(d, mshr[d], t, mshr'[d])
  <2>1. mshr[d] \in MSHRs /\ GoodMSHR(d, mshr[d]) /\ mshr[d].inService
    BY <1>2, <1>10, TypeFact, Zenon DEF IInv, MshrInv, inService
  <2>2. Saw(d, mshr[d], t, Deferred(mshr[d], t))
    BY <1>4, <1>5, <1>10, <2>1, DeferredFact, Zenon
  <2> QED BY <1>8, <1>10, <2>2, Zenon
<1>11. ASSUME NEW d \in Caches, d # c
       PROVE  SentTo(t, d)
  <2>1. CASE ~inService(d)
    <3>1. SameView(d)
      BY <1>8, <1>11, <2>1, SameMSHR, Zenon
    <3>2. ~Passed(d) /\ ~Sharing(d) /\ ~Ex(d) /\ ~Rd(d)
      BY <2>1, Zenon DEF Passed, Sharing, Ex, Rd
    <3> QED BY <2>1, <3>1, <3>2, Zenon DEF SameView, SentTo
  <2>2. CASE inService(d)
    <3>1. Saw(d, mshr[d], t, mshr'[d])
      BY <1>10, <1>11, <2>2, Zenon
    <3>2. mshr'[d] # None
      BY <3>1, CoherenceAssumption, Zenon DEF CoherenceAssumption, Saw
    <3>3. /\ inService(d)'
          /\ Ex(d)' <=> Ex(d)
          /\ Rd(d)' <=> Rd(d)
          /\ Passed(d)' <=> (Passed(d) \/ t.cmd # "ReadReq")
          /\ Sharing(d) => Sharing(d)'
          /\ Rd(d) /\ ~Passed(d) /\ t.cmd = "ReadReq" => Sharing(d)'
      BY <2>2, <3>1, <3>2, Zenon DEF Saw, inService, Ex, Rd, Passed, Sharing
    <3>4. ASSUME NEW i, NEW y
          PROVE  Promised(d, i, y)'
                   <=> \/ Promised(d, i, y)
                       \/ Ex(d) /\ ~Passed(d) /\ i = Len(mshr[d].targets) + 1 /\ y = t
      <4>1. CASE Ex(d)
        <5>1. Exclusive(mshr[d].targets) /\ (Passed(d) <=> mshr[d].pendingInvalidate)
          BY <4>1, Zenon DEF Ex, Passed
        <5>2. i \in 1 .. Len(mshr'[d].targets) /\ y = mshr'[d].targets[i] /\ y.snoop
                <=> \/ i \in 1 .. Len(mshr[d].targets) /\ y = mshr[d].targets[i] /\ y.snoop
                    \/ ~mshr[d].pendingInvalidate /\ i = Len(mshr[d].targets) + 1 /\ y = t
          BY <3>1, <5>1, Zenon DEF Saw
        <5>3. Ex(d)'
          BY <3>3, <4>1, Zenon
        <5> QED BY <4>1, <5>1, <5>2, <5>3, Zenon DEF Promised
      <4>2. CASE ~Ex(d)
        BY <3>3, <4>2, Zenon DEF Promised
      <4> QED BY <4>1, <4>2, Zenon
    <3> QED BY <2>2, <3>3, <3>4, Zenon DEF SentTo
  <2> QED BY <2>1, <2>2, Zenon
<1>12. ASSUME NEW d \in Caches
       PROVE  Shown(d, t, Snooped(d, t)) /\ GoodCopy(d)
  BY <1>2, <1>5, SnoopedFact, Zenon DEF IInv, CopyInv
<1>13. ASSUME NEW d \in Caches
       PROVE  SentBlk(c, t, d)
  <2>1. wb[d] # None => ~inService(d) /\ d # c
    BY <1>1, <1>12, Zenon DEF GoodCopy
  <2>2. wb'[d] = IF t.cmd # "ReadReq" THEN None ELSE wb[d]
    BY <1>1, <1>5, <2>1, Zenon DEF needsExclusive
  <2>3. blk'[d] = IF d # c /\ ~inService(d) THEN Snooped(d, t).blk ELSE blk[d]
    BY <1>1, Zenon
  <2> QED BY <1>12, <2>2, <2>3, Zenon DEF SentBlk, Shown
<1>14. ASSUME NEW d \in Caches
       PROVE  /\ AssertsInhibit(d, cmd) <=> Supplies(d)
              /\ AssertsShared(d, cmd) <=> cmd = "ReadReq" /\ Keeps(d)
  BY Zenon DEF AssertsInhibit, AssertsShared, Supplies, Keeps, Owns, Ex, Rd, Passed
<1>15. Answers(c, t, x)
  <2>1. x.shared <=> t.cmd = "ReadReq" /\ \E d \in Caches : d # c /\ Keeps(d)
    BY <1>5, <1>6, <1>14, Zenon
  <2>5. ASSUME NEW y
        PROVE  y \in resp'
          <=> \/ y \in resp
              \/ \E d \in Caches : /\ d # c /\ ~inService(d) /\ Owns(d)
                                   /\ y = Reply(d, t, latest, FALSE)
              \/ (\A d \in Caches : d # c => ~Supplies(d)) /\ y = x
    <3> DEFINE C == \E d \in Caches : /\ d # c /\ ~inService(d) /\ Owns(d)
                                   /\ y = Reply(d, t, latest, FALSE)
               D == (\A d \in Caches : d # c => ~Supplies(d)) /\ y = x
    <3>1. y \in fromCaches <=> C
      <4>1. ASSUME NEW d \in Caches
            PROVE  y \in Snooped(d, t).out <=> Owns(d) /\ y = Reply(d, t, latest, FALSE)
        BY <1>12, Zenon DEF Shown
      <4> QED BY <4>1, Zenon
    <3>2. y \in fromMemory <=> D
      BY <1>14, Zenon
    <3> HIDE DEF fromCaches, fromMemory, C, D
    <3>4. y \in resp' <=> y \in resp \/ C \/ D
      BY <1>20, <3>1, <3>2, Zenon
    <3> QED BY <3>4, Zenon DEF C, D
  <2> QED BY <1>5, <1>6, <2>1, <2>5, Zenon DEF Answers
<1>16. Sent(c, t, x)
  BY <1>1, <1>9, <1>11, <1>13, <1>15, Zenon DEF Sent
<1>17. ASSUME NEW d \in Caches
       PROVE  /\ mshr'[d] # None => mshr'[d] \in MSHRs /\ GoodMSHR(d, mshr'[d])
              /\ mshr'[d] \in MSHRs \cup {None}
  <2>1. mshr[d] # None => mshr[d] \in MSHRs /\ GoodMSHR(d, mshr[d])
    BY <1>2, TypeFact, Zenon DEF IInv, MshrInv
  <2>2. CASE d = c
    BY <1>7, <1>8, <2>2, Zenon
  <2>3. CASE d # c /\ inService(d)
    BY <1>10, <2>3, Zenon DEF Saw
  <2>4. CASE d # c /\ ~inService(d)
    BY <1>8, <2>1, <2>4, Zenon
  <2> QED BY <2>2, <2>3, <2>4, Zenon
<1>18. MshrInv'
  BY <1>17, Zenon DEF MshrInv, GoodMSHR
<1>19. TypeOK'
  <2>1. mshr' \in [Caches -> MSHRs \cup {None}]
    BY <1>1, <1>17, Zenon
  <2>2. blk' \in [Caches -> Copies]
    <3>1. \A d \in Caches : blk[d] \in Copies /\ Snooped(d, t).blk \in Copies
      BY <1>2, <1>12, Zenon DEF TypeOK, Shown
    <3> QED BY <1>1, <3>1, Zenon
  <2>3. wb' \in [Caches -> Nat \cup {None}]
    <3>1. \A d \in Caches : wb[d] \in Nat \cup {None}
      BY <1>2, Zenon DEF TypeOK
    <3> QED BY <1>1, <3>1, Zenon
  <2>4. resp' \in SUBSET Responses
    <3>1. ASSUME NEW d \in Caches
          PROVE  Reply(d, t, latest, FALSE) \in Responses
      <4>1. latest \in Nat
        BY <1>2, Zenon DEF TypeOK
      <4> QED BY <1>5, <4>1 DEF Reply, Responses, OneTarget
    <3> QED BY <1>2, <1>15, <3>1, Zenon DEF Answers
  <2> QED BY <1>1, <1>2, <2>1, <2>2, <2>3, <2>4, Zenon DEF TypeOK
<1> QED BY <1>16, <1>18, <1>19, Zenon

LEMMA SentCopies ==
  ASSUME IInv, NEW c \in Caches, SendRequest(c), NEW t, NEW x, Sent(c, t, x)
  PROVE  CopyInv' /\ WritableInv'
<1>1. mshr[c] # None /\ (mshr'[c] # None) /\ mshr'[c].targets = mshr[c].targets
  <2>1. mshr[c] # None /\ ~mshr[c].inService
    BY Zenon DEF SendRequest
  <2>2. mshr[c] \in MSHRs /\ GoodMSHR(c, mshr[c])
    BY <2>1, TypeFact, Zenon DEF IInv, MshrInv
  <2>3. mshr'[c] = [mshr[c] EXCEPT !.inService = TRUE]
    BY Zenon DEF SendRequest
  <2> QED BY <2>1, <2>2, <2>3, StartedFact, Zenon
<1>2. ASSUME NEW d \in Caches
      PROVE  /\ SentBlk(c, t, d) /\ GoodCopy(d)
             /\ latest' = latest /\ seen'[d] = seen[d]
  BY Zenon DEF Sent, IInv, CopyInv
<1>3. Invalid.bits = {} /\ ~isValid(Invalid) /\ ~isWritable(Invalid)
  BY InvalidFact DEF isValid, isWritable
<1>4. ASSUME NEW d \in Caches, d # c, ~inService(d)
      PROVE  mshr'[d] = mshr[d]
  BY <1>4, Zenon DEF SendRequest
<1>5. ASSUME NEW d \in Caches, d # c, inService(d)
      PROVE  mshr'[d] # None /\ (Exclusive(mshr'[d].targets) <=> Exclusive(mshr[d].targets))
  <2>1. SentTo(t, d)
    BY <1>5, Zenon DEF Sent
  <2> QED BY <1>5, <2>1, Zenon DEF SentTo, inService, Ex, Rd
<1>6. ASSUME NEW d \in Caches
      PROVE  ~isWritable(blk'[d])
  <2>1. CASE d = c \/ inService(d) \/ ~isValid(blk[d])
    <3>1. blk'[d] = blk[d]
      BY <1>2, <2>1, Zenon DEF SentBlk
    <3>2. ~isValid(blk[d]) => ~isWritable(blk[d])
      BY DEF isValid, isWritable
    <3>3. d = c \/ inService(d) => mshr[d] # None
      BY <1>1, Zenon DEF inService
    <3>4. isValid(blk[d]) /\ mshr[d] # None => ~isWritable(blk[d])
      BY <1>2, Zenon DEF GoodCopy
    <3> QED BY <2>1, <3>1, <3>2, <3>3, <3>4, Zenon
  <2>2. CASE d # c /\ ~inService(d) /\ isValid(blk[d]) /\ t.cmd = "ReadReq"
    <3>1. blk'[d].bits = blk[d].bits \ {"Writable"}
      BY <1>2, <2>2, Zenon DEF SentBlk
    <3> QED BY <3>1 DEF isWritable
  <2>3. CASE d # c /\ ~inService(d) /\ isValid(blk[d]) /\ t.cmd # "ReadReq"
    BY <1>2, <1>3, <2>3, Zenon DEF SentBlk
  <2> QED BY <2>1, <2>2, <2>3, Zenon
<1>7. ASSUME NEW d \in Caches, wb'[d] # None
      PROVE  wb'[d] = wb[d] /\ wb[d] # None /\ d # c /\ ~inService(d)'
  <2>1. wb'[d] = wb[d] /\ wb[d] # None
    BY <1>2, <1>7, Zenon DEF SentBlk
  <2>2. d # c
    BY <2>1, Zenon DEF Sent, SentFrom
  <2>3. ~inService(d) /\ SentTo(t, d)
    BY <1>2, <2>1, <2>2, Zenon DEF GoodCopy, Sent
  <2> QED BY <2>1, <2>2, <2>3, Zenon DEF SentTo
<1>8. ASSUME NEW d \in Caches
      PROVE  GoodCopy(d)'
  <2>1. wb'[d] # None => wb'[d] = latest /\ ~isValid(blk[d]) /\ ~inService(d)'
    BY <1>2, <1>7, Zenon DEF GoodCopy
  <2>2. CASE d = c \/ inService(d) \/ ~isValid(blk[d])
    <3>1. blk'[d] = blk[d]
      BY <1>2, <2>2, Zenon DEF SentBlk
    <3>2. isValid(blk[d]) => mshr'[d] # None /\ mshr[d] # None
                             /\ (Exclusive(mshr'[d].targets) <=> Exclusive(mshr[d].targets))
      BY <1>1, <1>5, <2>2, Zenon DEF inService
    <3> QED BY <1>2, <1>6, <2>1, <3>1, <3>2, Zenon DEF GoodCopy, isValid, isReadable, isWritable
  <2>3. CASE d # c /\ ~inService(d) /\ isValid(blk[d]) /\ t.cmd = "ReadReq"
    <3>1. blk'[d].bits = blk[d].bits \ {"Writable"} /\ blk'[d].data = blk[d].data /\ mshr'[d] = mshr[d]
      BY <1>2, <1>4, <2>3, Zenon DEF SentBlk
    <3>2. isValid(blk'[d]) /\ (isReadable(blk[d]) => isReadable(blk'[d]))
      BY <2>3, <3>1 DEF isValid, isReadable
    <3>3. wb'[d] = None
      BY <2>1, <2>3, Zenon
    <3> QED BY <1>2, <1>6, <2>3, <3>1, <3>2, <3>3, Zenon DEF GoodCopy, isValid, isReadable, isWritable
  <2>4. CASE d # c /\ ~inService(d) /\ isValid(blk[d]) /\ t.cmd # "ReadReq"
    <3>1. blk'[d] = Invalid /\ wb'[d] = None
      BY <1>2, <2>4, Zenon DEF SentBlk
    <3> QED BY <1>2, <1>3, <3>1, Zenon DEF GoodCopy, isValid
  <2> QED BY <2>2, <2>3, <2>4, Zenon
<1> QED BY <1>6, <1>8, Zenon DEF CopyInv, WritableInv, isWritable

LEMMA DirtyIsValid ==
  ASSUME IInv, NEW d \in Caches, Owns(d)
  PROVE  isValid(blk[d]) \/ wb[d] # None
BY DEF IInv, CopyInv, GoodCopy, Owns, isDirty

(* With requests for an exclusive copy on the bus, the last of them will   *)
(* answer the new request.                                                 *)
LEMMA SentBehind ==
  ASSUME IInv, NEW c \in Caches, NEW t, NEW x, Sent(c, t, x), NEW q, Chain(q), q # << >>
  PROVE  AnswerInv' /\ PromiseInv' /\ SupplierInv' /\ ChainInv' /\ OwnerInv'
<1> DEFINE n == Len(q)
           l == q[n]
           X == t.cmd # "ReadReq"
           k == Len(mshr[l].targets) + 1
<1>1. /\ n \in Nat /\ 1 \in 1 .. n /\ n \in 1 .. n
      /\ q[1] \in Caches /\ Ex(q[1]) /\ l \in Caches /\ Ex(l) /\ ~Passed(l)
  BY ChainHead, Zenon
<1>2. ~inService(c) /\ ~Ex(c) /\ l # c /\ q[1] # c /\ inService(l) /\ inService(q[1])
  BY <1>1, Zenon DEF Sent, SentFrom, Ex
<1>3. ASSUME NEW d \in Caches
      PROVE  wb[d] = None /\ (isValid(blk[d]) => d = q[1]) /\ blk'[d] = blk[d] /\ wb'[d] = None
  <2>1. wb[d] = None /\ (isValid(blk[d]) => d = q[1])
    BY Zenon DEF Chain
  <2>2. SentBlk(c, t, d)
    BY Zenon DEF Sent
  <2>3. d = c \/ inService(d) \/ ~isValid(blk[d])
    BY <1>2, <2>1, Zenon
  <2> QED BY <2>1, <2>2, <2>3, Zenon DEF SentBlk
<1>4. \A d \in Caches : Owns(d) => inService(d)
  BY <1>2, <1>3, DirtyIsValid, Zenon
<1>5. resp' = resp
  <2>1. Supplies(l)
    BY <1>1, <1>2, Zenon DEF Supplies
  <2>2. \A y : y \in resp' <=> y \in resp
    BY <1>1, <1>2, <1>4, <2>1, Zenon DEF Sent, Answers
  <2> QED BY <2>2, Zenon
<1>6. /\ t \in OneTarget /\ t.from = c /\ t.snoop /\ t.cmd \in {"ReadReq", "ReadExReq"}
      /\ inService(c)' /\ ~Passed(c)'
      /\ Ex(c)' <=> X
      /\ Rd(c)' <=> ~X
  <2>1. ~isValid(blk[c])
    BY <1>2, <1>3, Zenon
  <2> QED BY <2>1, Zenon DEF Sent, SentFrom, OnBus
<1>7. ASSUME NEW d \in Caches, Ex(d), ~Passed(d)
      PROVE  d = l
  <2>1. PICK i \in 1 .. n : q[i] = d
    BY <1>7, Zenon DEF Chain
  <2> QED BY <1>7, <2>1, Zenon DEF Chain
<1> HIDE DEF n, l, k
<1>8. ASSUME NEW d \in Caches, d # c
      PROVE  /\ inService(d)' <=> inService(d)
             /\ Ex(d)' <=> Ex(d)
             /\ Rd(d)' <=> Rd(d)
             /\ Passed(d)' <=> inService(d) /\ (Passed(d) \/ X)
  BY <1>8, Zenon DEF Sent, SentTo
<1>9. ASSUME NEW d \in Caches, NEW i, NEW y
      PROVE  Promised(d, i, y)' <=> Promised(d, i, y) \/ (d = l /\ i = k /\ y = t)
  <2>1. CASE d = c
    BY <1>2, <2>1, Zenon DEF Sent, SentFrom, Promised
  <2>2. CASE d # c
    <3>1. Promised(d, i, y)' <=> \/ Promised(d, i, y)
                                 \/ Ex(d) /\ ~Passed(d) /\ i = Len(mshr[d].targets) + 1 /\ y = t
      <4>1. SentTo(t, d)
        BY <2>2, Zenon DEF Sent
      <4> QED BY <4>1, Zenon DEF SentTo
    <3>2. Ex(d) /\ ~Passed(d) <=> d = l
      BY <1>1, <1>7, Zenon
    <3> QED BY <3>1, <3>2, Zenon DEF k
  <2> QED BY <2>1, <2>2, Zenon
<1>10. \A r \in resp : r.to \in Caches /\ GoodAnswer(r.to, r) /\ r.to # c
  <2>1. \A r \in resp : r.to \in Caches
    BY DEF IInv, TypeOK, Responses
  <2> QED BY <1>2, <2>1, Zenon DEF IInv, AnswerInv, GoodAnswer
<1>11. ASSUME NEW r \in resp
       PROVE  GoodAnswer(r.to, r)'
  <2>1. GoodAnswer(r.to, r) /\ r.to \in Caches /\ r.to # c /\ inService(r.to)
    BY <1>10, Zenon DEF GoodAnswer
  <2>2. Rd(r.to) => Passed(r.to)
    BY <1>1, <2>1, Zenon DEF GoodAnswer
  <2>3. latest' = latest /\ seen' = seen /\ blk'[r.to] = blk[r.to]
    BY <1>3, <2>1, Zenon DEF Sent
  <2>4. Rd(r.to)' => Passed(r.to)'
    BY <1>8, <2>1, <2>2, Zenon
  <2>5. /\ inService(r.to)' <=> inService(r.to)
        /\ Rd(r.to)' <=> Rd(r.to)
        /\ Passed(r.to) => Passed(r.to)'
    BY <1>8, <2>1, Zenon
  <2> QED BY <2>1, <2>3, <2>4, <2>5, Zenon DEF GoodAnswer, isValid, isDirty
<1>12. AnswerInv'
  BY <1>5, <1>11, Zenon DEF IInv, AnswerInv
<1>13. ASSUME NEW d \in Caches, NEW i, NEW y, Promised(d, i, y)
       PROVE  GoodPromise(d, y) /\ y.from # c
  <2>1. GoodPromise(d, y)
    BY <1>13, Zenon DEF IInv, PromiseInv
  <2> QED BY <1>2, <2>1, Zenon DEF GoodPromise
<1>14. ASSUME NEW d \in Caches, NEW i, NEW y, Promised(d, i, y)'
       PROVE  GoodPromise(d, y)'
  <2>1. CASE Promised(d, i, y)
    <3>1. GoodPromise(d, y) /\ y.from # c /\ Ex(d) /\ d # c
      BY <1>2, <1>13, <2>1, Zenon DEF Promised
    <3>2. y.from \in Caches /\ inService(y.from)
      BY <3>1, Zenon DEF GoodPromise
    <3>3. Rd(y.from)' /\ Passed(d)' => Passed(y.from)'
      BY <1>8, <3>1, <3>2, Zenon DEF GoodPromise
    <3> QED BY <1>5, <1>8, <3>1, <3>2, <3>3, Zenon DEF GoodPromise
  <2>2. CASE d = l /\ y = t
    <3>1. Rd(c)' => ~Passed(l)'
      BY <1>1, <1>2, <1>6, <1>8, Zenon
    <3> QED BY <1>5, <1>6, <1>10, <2>2, <3>1, Zenon DEF GoodPromise
  <2>3. Promised(d, i, y) \/ (d = l /\ i = k /\ y = t)
    BY <1>9, <1>14, Zenon
  <2> QED BY <2>1, <2>2, <2>3, Zenon
<1>15. ASSUME NEW d \in Caches, NEW e \in Caches, NEW i, NEW j, NEW y, NEW z,
              Promised(d, i, y)', Promised(e, j, z)', y.from = z.from
       PROVE  d = e /\ i = j
  <2>1. Promised(d, i, y) \/ (d = l /\ i = k /\ y = t)
    BY <1>9, <1>15, Zenon
  <2>2. Promised(e, j, z) \/ (e = l /\ j = k /\ z = t)
    BY <1>9, <1>15, Zenon
  <2>3. CASE Promised(d, i, y) /\ Promised(e, j, z)
    BY <1>15, <2>3, Zenon DEF IInv, PromiseInv
  <2> QED BY <1>6, <1>13, <1>15, <2>1, <2>2, <2>3, Zenon
<1>16. PromiseInv'
  BY <1>14, <1>15, Zenon DEF PromiseInv
<1>17. /\ Owes(l, c)'
       /\ \A d, e \in Caches : Owes(d, e) => Owes(d, e)'
  BY <1>1, <1>6, <1>9, Zenon DEF Owes
<1>18. SupplierInv'
  <2>1. ASSUME NEW d \in Caches, d # c, inService(d)'
        PROVE  (\E r \in resp : r.to = d) \/ \E e \in Caches : Owes(e, d)'
    BY <1>8, <1>17, <2>1, Zenon DEF IInv, SupplierInv
  <2> QED BY <1>1, <1>5, <1>17, <2>1, Zenon DEF SupplierInv
<1>19. OwnerInv'
  <2>1. \A d \in Caches : Owns(d)' <=> Owns(d)
    BY <1>3, Zenon DEF Owns, isDirty
  <2> QED BY <1>5, <2>1, Zenon DEF Sent, IInv, OwnerInv
<1>20. q \in Seq(Caches) /\ \A i \in 1 .. n : q[i] \in Caches /\ q[i] # c /\ Ex(q[i]) /\ inService(q[i])
  <2>1. q \in Seq(Caches)
    BY Zenon DEF Chain
  <2>2. \A i \in 1 .. n : q[i] \in Caches
    BY <2>1 DEF n
  <2> QED BY <1>2, <2>1, <2>2, Zenon DEF Chain, Ex, n
<1>21. /\ \A i, j \in 1 .. n : q[i] = q[j] => i = j
       /\ \A d \in Caches : Ex(d) <=> \E i \in 1 .. n : q[i] = d
       /\ \A i \in 1 .. n - 1 : Owes(q[i], q[i + 1])
       /\ \A i \in 1 .. n : Passed(q[i]) <=> i # n
       /\ \E r \in resp : r.to = q[1]
  BY Zenon DEF Chain, n
<1>22. \A i \in 1 .. n - 1 : i \in 1 .. n /\ i + 1 \in 1 .. n
  BY <1>1
<1>23. \A i \in 1 .. n - 1 : Owes(q[i], q[i + 1])'
  BY <1>17, <1>20, <1>21, <1>22, Zenon
<1>24. CASE ~X
  <2>1. \A d \in Caches : Ex(d)' <=> \E i \in 1 .. n : q[i] = d
    BY <1>6, <1>8, <1>20, <1>21, <1>24, Zenon
  <2>2. \A i \in 1 .. n : Passed(q[i])' <=> i # n
    BY <1>8, <1>20, <1>21, <1>24, Zenon
  <2>3. Chain(q)'
    BY <1>3, <1>5, <1>20, <1>21, <1>23, <2>1, <2>2, Zenon DEF Chain, n, isValid
  <2> QED BY <1>12, <1>16, <1>18, <1>19, <2>3, Zenon DEF ChainInv
<1>25. CASE X
  <2> DEFINE p == Append(q, c)
  <2>1. p \in Seq(Caches) /\ Len(p) = n + 1 /\ p # << >>
    BY <1>20 DEF n
  <2>2. /\ \A i : i \in 1 .. n + 1 <=> i \in 1 .. n \/ i = n + 1
        /\ \A i : i \in 1 .. (n + 1) - 1 <=> i \in 1 .. n - 1 \/ i = n
        /\ \A i \in 1 .. n : i # n + 1
    BY <1>1
  <2>3. p[n + 1] = c /\ \A i \in 1 .. n : p[i] = q[i]
    BY <1>20 DEF n
  <2> HIDE DEF p
  <2>4. \A i, j \in 1 .. n + 1 : p[i] = p[j] => i = j
    <3> SUFFICES ASSUME NEW i \in 1 .. n + 1, NEW j \in 1 .. n + 1, p[i] = p[j]
                 PROVE  i = j
      BY Zenon
    <3>1. CASE i \in 1 .. n /\ j \in 1 .. n
      <4>1. q[i] = q[j]
        BY <2>3, <3>1, Zenon
      <4> QED BY <1>21, <3>1, <4>1, Zenon
    <3>2. CASE i \in 1 .. n /\ j = n + 1
      BY <1>20, <2>3, <3>2, Zenon
    <3>3. CASE i = n + 1 /\ j \in 1 .. n
      BY <1>20, <2>3, <3>3, Zenon
    <3> QED BY <2>2, <3>1, <3>2, <3>3, Zenon
  <2>5. \A d \in Caches : Ex(d)' <=> \E i \in 1 .. n + 1 : p[i] = d
    <3>1. \A d \in Caches : Ex(d)' <=> Ex(d) \/ d = c
      BY <1>2, <1>6, <1>8, <1>25, Zenon
    <3>2. ASSUME NEW d \in Caches
          PROVE  (\E i \in 1 .. n + 1 : p[i] = d) <=> (\E i \in 1 .. n : q[i] = d) \/ d = c
      BY <2>2, <2>3, Zenon
    <3> QED BY <1>21, <3>1, <3>2, Zenon
  <2>6. \A i \in 1 .. (n + 1) - 1 : Owes(p[i], p[i + 1])'
    <3>1. \A i \in 1 .. n - 1 : Owes(p[i], p[i + 1])'
      BY <1>22, <1>23, <2>3, Zenon
    <3>2. Owes(p[n], p[n + 1])'
      BY <1>1, <1>17, <2>3, Zenon DEF l
    <3> QED BY <2>2, <3>1, <3>2, Zenon
  <2>7. \A i \in 1 .. n + 1 : Passed(p[i])' <=> i # n + 1
    <3>1. \A i \in 1 .. n : Passed(p[i])'
      BY <1>8, <1>20, <1>25, <2>3, Zenon
    <3>2. ~Passed(p[n + 1])'
      BY <1>6, <2>3, Zenon
    <3> QED BY <2>2, <3>1, <3>2, Zenon
  <2>8. p[1] = q[1]
    BY <1>1, <2>3, Zenon
  <2>9. Chain(p)'
    BY <1>3, <1>5, <1>21, <2>1, <2>4, <2>5, <2>6, <2>7, <2>8, Zenon DEF Chain, isValid
  <2> QED BY <1>12, <1>16, <1>18, <1>19, <2>9, Zenon DEF ChainInv
<1> QED BY <1>24, <1>25, Zenon

(* Else the owner answers, or memory.                                      *)
NewAnswer(c, t, y) ==
  /\ resp' = resp \cup {y}
  /\ y.to = c /\ y.cmd = t.cmd /\ ~y.inval
  /\ y.shared => t.cmd = "ReadReq"
  /\ t.cmd = "ReadReq" => ~Hands(y)
  /\ t.cmd = "ReadReq" /\ ~y.shared => \A d \in Caches : d # c => ~Keeps(d)
  /\ ~Owns(c) => y.data = latest
  /\ Hands(y) => ~Owns(c)
  /\ t.cmd # "ReadReq" /\ (\E d \in Caches : d # c /\ Owns(d)) => Hands(y)

LEMMA NewAnswerExists ==
  ASSUME IInv, NEW c \in Caches, NEW t, NEW x, Sent(c, t, x), \A d \in Caches : ~Ex(d)
  PROVE  \E y : NewAnswer(c, t, y)
<1>1. ASSUME NEW d \in Caches, Owns(d)
      PROVE  ~inService(d)
  <2>1. GoodCopy(d) /\ (isValid(blk[d]) \/ wb[d] # None) /\ ~Ex(d)
    BY <1>1, DirtyIsValid, Zenon DEF IInv, CopyInv
  <2> QED BY <2>1, Zenon DEF GoodCopy, Ex, inService
<1>2. ASSUME NEW d \in Caches
      PROVE  Supplies(d) <=> Owns(d)
  BY <1>1, Zenon DEF Supplies
<1>3. \A y : y \in resp'
        <=> \/ y \in resp
            \/ \E d \in Caches : d # c /\ Owns(d) /\ y = Reply(d, t, latest, FALSE)
            \/ (\A d \in Caches : d # c => ~Owns(d)) /\ y = x
  <2>1. \A y : y \in resp'
       <=> \/ y \in resp
           \/ \E d \in Caches : /\ d # c /\ ~inService(d) /\ Owns(d)
                                /\ y = Reply(d, t, latest, FALSE)
           \/ (\A d \in Caches : d # c => ~Supplies(d)) /\ y = x
    BY Zenon DEF Sent, Answers
  <2>2. \A y : (\E d \in Caches : d # c /\ Owns(d) /\ y = Reply(d, t, latest, FALSE))
                 <=> \E d \in Caches : /\ d # c /\ ~inService(d) /\ Owns(d)
                                       /\ y = Reply(d, t, latest, FALSE)
    BY <1>1, Zenon
  <2>3. (\A d \in Caches : d # c => ~Supplies(d)) <=> (\A d \in Caches : d # c => ~Owns(d))
    BY <1>2, Zenon
  <2> QED BY <2>1, <2>2, <2>3, Zenon
<1>4. t \in OneTarget /\ t.from = c /\ t.snoop
  BY Zenon DEF Sent, SentFrom
<1>5. CASE \E d \in Caches : d # c /\ Owns(d)
  <2>1. PICK o \in Caches : o # c /\ Owns(o)
    BY <1>5, Zenon
  <2>2. \A d \in Caches : Owns(d) => d = o
    BY <2>1, Zenon DEF IInv, OwnerInv
  <2> DEFINE y == Reply(o, t, latest, FALSE)
  <2>3. /\ y.to = c /\ y.cmd = t.cmd /\ y.data = latest /\ y.inhibit
        /\ y.shared <=> t.cmd = "ReadReq"
        /\ ~y.inval
    BY <1>4, Zenon DEF Reply
  <2>4. \A z : z \in resp' <=> z \in resp \/ z = y
    BY <1>3, <2>1, <2>2, Zenon
  <2> HIDE DEF y
  <2>5. resp' = resp \cup {y}
    BY <2>4, Zenon
  <2>6. ~Owns(c)
    BY <2>1, <2>2, Zenon
  <2>7. NewAnswer(c, t, y)
    BY <2>3, <2>5, <2>6, Zenon DEF NewAnswer, Hands
  <2> QED BY <2>7, Zenon
<1>6. CASE ~\E d \in Caches : d # c /\ Owns(d)
  <2>1. /\ x.to = c /\ x.cmd = t.cmd /\ x.data = mem /\ ~x.inhibit /\ ~x.inval
        /\ x.shared <=> t.cmd = "ReadReq" /\ \E d \in Caches : d # c /\ Keeps(d)
    BY Zenon DEF Sent, Answers
  <2>2. \A z : z \in resp' <=> z \in resp \/ z = x
    BY <1>3, <1>6, Zenon
  <2>3. resp' = resp \cup {x}
    BY <2>2, Zenon
  <2>4. ~Owns(c) => mem = latest
    <3>1. ASSUME NEW r \in resp
          PROVE  ~Hands(r)
      <4>1. GoodAnswer(r.to, r) /\ r.to \in Caches
        BY DEF IInv, AnswerInv, TypeOK, Responses
      <4> QED BY <4>1, Zenon DEF GoodAnswer, Ex, Rd
    <3> QED BY <1>6, <3>1, Zenon DEF IInv, OwnerInv
  <2>5. ~Hands(x)
    BY <2>1, Zenon DEF Hands
  <2>6. NewAnswer(c, t, x)
    BY <1>6, <2>1, <2>3, <2>4, <2>5, Zenon DEF NewAnswer
  <2> QED BY <2>6, Zenon
<1> QED BY <1>5, <1>6, Zenon

LEMMA SentFirst ==
  ASSUME IInv, NEW c \in Caches, NEW t, NEW x, Sent(c, t, x), \A d \in Caches : ~Ex(d)
  PROVE  AnswerInv' /\ PromiseInv' /\ SupplierInv' /\ ChainInv' /\ OwnerInv'
<1> DEFINE X == t.cmd # "ReadReq"
<1>1. PICK y : NewAnswer(c, t, y)
  BY NewAnswerExists, Zenon
<1>2. /\ t \in OneTarget /\ t.from = c /\ t.snoop /\ t.cmd \in OnBus
      /\ t.cmd = "UpgradeReq" <=> isValid(blk[c])
      /\ ~inService(c) /\ wb[c] = None
      /\ inService(c)' /\ ~Passed(c)'
      /\ Ex(c)' <=> X
      /\ Rd(c)' <=> ~X
      /\ \A i, z : ~Promised(c, i, z)'
      /\ mem' = mem /\ latest' = latest /\ seen' = seen
  BY Zenon DEF Sent, SentFrom
<1>3. ASSUME NEW d \in Caches, d # c
      PROVE  /\ inService(d)' <=> inService(d)
             /\ ~Ex(d)'
             /\ Rd(d)' <=> Rd(d)
             /\ Rd(d) <=> inService(d)
             /\ Passed(d)' <=> inService(d) /\ (Passed(d) \/ X)
             /\ Rd(d) /\ ~Passed(d) /\ ~X => Sharing(d)'
             /\ \A i, z : ~Promised(d, i, z)'
  <2>1. SentTo(t, d) /\ ~Ex(d)
    BY <1>3, Zenon DEF Sent
  <2>2. Rd(d) <=> inService(d)
    BY <2>1, Zenon DEF Rd, Ex
  <2>3. \A i, z : ~Promised(d, i, z)'
    BY <2>1, Zenon DEF SentTo, Promised
  <2> QED BY <2>1, <2>2, <2>3, Zenon DEF SentTo
<1>4. ASSUME NEW d \in Caches
      PROVE  SentBlk(c, t, d) /\ GoodCopy(d) /\ (isValid(blk[d]) => ~inService(d))
  BY Zenon DEF Sent, IInv, CopyInv, GoodCopy, Ex, inService
<1>5. blk'[c] = blk[c]
  BY <1>4, Zenon DEF SentBlk
<1>6. ASSUME X, NEW d \in Caches, d # c
      PROVE  ~isValid(blk'[d]) /\ wb'[d] = None /\ ~isDirty(blk'[d])
  <2>1. wb'[d] = None
    BY <1>4, <1>6, Zenon DEF SentBlk
  <2>2. CASE isValid(blk[d])
    <3>1. blk'[d] = Invalid
      BY <1>4, <1>6, <2>2, Zenon DEF SentBlk
    <3> QED BY <2>1, <3>1, InvalidFact, Zenon DEF isValid, isDirty
  <2>3. CASE ~isValid(blk[d])
    <3>1. blk'[d] = blk[d] /\ blk[d].bits = {}
      BY <1>4, <2>3, Zenon DEF SentBlk, GoodCopy
    <3> QED BY <2>1, <3>1, Zenon DEF isValid, isDirty
  <2> QED BY <2>2, <2>3, Zenon
<1>7. \A d \in Caches : (\A i, z : ~Promised(d, i, z)') /\ (\A e : ~Owes(d, e)) /\ (Ex(d)' => d = c /\ X)
  BY <1>2, <1>3, Zenon DEF Promised, Owes
<1>8. PromiseInv'
  BY <1>7, Zenon DEF PromiseInv
<1>9. \A r \in resp' : r \in resp \/ r = y
  BY <1>1, Zenon DEF NewAnswer
<1>10. resp \subseteq resp' /\ y \in resp' /\ y.to = c
  BY <1>1, Zenon DEF NewAnswer
<1>11. \A r \in resp : r.to \in Caches /\ GoodAnswer(r.to, r) /\ r.to # c
  <2>1. \A r \in resp : r.to \in Caches
    BY DEF IInv, TypeOK, Responses
  <2> QED BY <1>2, <2>1, Zenon DEF IInv, AnswerInv, GoodAnswer
<1>12. SupplierInv'
  BY <1>3, <1>7, <1>10, Zenon DEF IInv, SupplierInv
<1>13. ASSUME NEW r \in resp
       PROVE  GoodAnswer(r.to, r)'
  <2>1. GoodAnswer(r.to, r) /\ r.to \in Caches /\ r.to # c /\ inService(r.to) /\ Rd(r.to)
    BY <1>3, <1>11, Zenon DEF GoodAnswer
  <2>2. r.cmd = "ReadReq" /\ ~Hands(r)
    BY <2>1, Zenon DEF GoodAnswer
  <2>3. r.cmd # "UpgradeReq" /\ r.cmd # "ReadExReq"
    BY <2>2
  <2>4. /\ inService(r.to)' /\ Rd(r.to)'
        /\ Passed(r.to)' <=> Passed(r.to) \/ X
        /\ ~Passed(r.to) /\ ~X => Sharing(r.to)'
    BY <1>3, <2>1, Zenon
  <2>5. ~X => \A d \in Caches : ~Ex(d)'
    BY <1>7, Zenon
  <2> QED BY <1>2, <2>1, <2>2, <2>3, <2>4, <2>5, Zenon DEF GoodAnswer
<1>14. GoodAnswer(c, y)'
  <2>1. ~isValid(blk[c]) => ~Owns(c)
    BY <1>2, DirtyIsValid, Zenon
  <2>2. t.cmd = "ReadReq" \/ t.cmd = "ReadExReq" => y.data = latest
    <3>1. t.cmd = "ReadReq" \/ t.cmd = "ReadExReq" => t.cmd # "UpgradeReq"
      OBVIOUS
    <3> QED BY <1>1, <1>2, <2>1, <3>1, Zenon DEF NewAnswer
  <2>3. seen[c] <= latest /\ latest <= latest
    <3>1. latest \in Nat
      BY Zenon DEF IInv, TypeOK
    <3>2. latest <= latest
      BY <3>1
    <3> QED BY <1>4, <3>2, Zenon DEF GoodCopy
  <2>4. Hands(y) => ~isDirty(blk[c])
    BY <1>1, Zenon DEF NewAnswer, Owns
  <2>5. ASSUME ~X, ~y.shared
        PROVE  Alone(c)'
    <3>1. ASSUME NEW d \in Caches, d # c
          PROVE  ~isValid(blk'[d]) /\ wb'[d] = None /\ (inService(d)' => Rd(d)' /\ Passed(d)')
      <4>1. ~Keeps(d)
        BY <1>1, <2>5, <3>1, Zenon DEF NewAnswer
      <4>2. CASE inService(d)
        <5>1. blk'[d] = blk[d] /\ ~isValid(blk[d]) /\ wb'[d] = wb[d] /\ wb[d] = None
          BY <1>4, <2>5, <4>2, Zenon DEF SentBlk, GoodCopy
        <5>2. Rd(d)' /\ Passed(d)'
          BY <1>3, <3>1, <4>1, <4>2, Zenon DEF Keeps
        <5> QED BY <5>1, <5>2, Zenon
      <4>3. CASE ~inService(d)
        <5>1. blk'[d] = blk[d] /\ ~isValid(blk[d]) /\ wb'[d] = wb[d] /\ wb[d] = None
          BY <1>4, <2>5, <4>1, <4>3, Zenon DEF SentBlk, Keeps
        <5> QED BY <1>3, <3>1, <4>3, <5>1, Zenon
      <4> QED BY <4>2, <4>3, Zenon
    <3> QED BY <3>1, Zenon DEF Alone, isValid
  <2>6. ~X => \A d \in Caches : ~Ex(d)'
    BY <1>7, Zenon
  <2>7. y.cmd = t.cmd /\ ~y.inval /\ (y.shared => ~X) /\ (~X => ~Hands(y))
    BY <1>1, Zenon DEF NewAnswer
  <2>8. isValid(blk[c])' <=> isValid(blk[c])
    BY <1>5, Zenon DEF isValid
  <2>9. isDirty(blk[c])' <=> isDirty(blk[c])
    BY <1>5, Zenon DEF isDirty
  <2> QED BY <1>2, <2>2, <2>3, <2>4, <2>5, <2>6, <2>7, <2>8, <2>9, Zenon DEF GoodAnswer
<1>15. AnswerInv'
  <2>1. ASSUME NEW r \in resp', NEW s \in resp', r.to = s.to
        PROVE  r = s
    <3>1. CASE r \in resp /\ s \in resp
      BY <2>1, <3>1, Zenon DEF IInv, AnswerInv
    <3> QED BY <1>9, <1>10, <1>11, <2>1, <3>1, Zenon
  <2>2. \A r \in resp' : GoodAnswer(r.to, r)'
    BY <1>9, <1>10, <1>13, <1>14, Zenon
  <2> QED BY <2>1, <2>2, Zenon DEF AnswerInv
<1>16. ChainInv'
  <2>1. CASE ~X
    BY <1>7, <2>1, EmptyChain, Zenon
  <2>2. CASE X
    <3> DEFINE q == <<c>>
    <3>1. /\ q \in Seq(Caches) /\ q # << >> /\ Len(q) = 1 /\ q[1] = c
          /\ \A i : i \in 1 .. Len(q) <=> i = 1
          /\ \A i : ~(i \in 1 .. Len(q) - 1)
      OBVIOUS
    <3> HIDE DEF q
    <3>2. \A d \in Caches : Ex(d)' <=> d = c
      BY <1>2, <1>7, <2>2, Zenon
    <3>3. wb'[c] = None
      BY <1>4, <2>2, Zenon DEF SentBlk
    <3>4. \A d \in Caches : wb'[d] = None /\ (isValid(blk'[d]) => d = c)
      BY <1>6, <2>2, <3>3, Zenon
    <3>5. \A i, j \in 1 .. Len(q) : q[i] = q[j] => i = j
      BY <3>1
    <3>6. \A d \in Caches : Ex(d)' <=> \E i \in 1 .. Len(q) : q[i] = d
      BY <3>1, <3>2, Zenon
    <3>7. \A i \in 1 .. Len(q) : Passed(q[i])' <=> i # Len(q)
      BY <1>2, <3>1, Zenon
    <3>8. Chain(q)'
      BY <1>10, <3>1, <3>4, <3>5, <3>6, <3>7, Zenon DEF Chain, isValid
    <3> QED BY <3>8, Zenon DEF ChainInv
  <2> QED BY <2>1, <2>2, Zenon
<1>17. OwnerInv'
  <2>1. CASE ~X
    <3>1. ASSUME NEW d \in Caches
          PROVE  Owns(d)' <=> Owns(d)
      <4>1. wb'[d] = wb[d]
        BY <1>4, <2>1, Zenon DEF SentBlk
      <4>2. "Dirty" \in blk'[d].bits <=> "Dirty" \in blk[d].bits
        <5>1. CASE d = c \/ inService(d) \/ ~isValid(blk[d])
          BY <1>4, <5>1, Zenon DEF SentBlk
        <5>2. CASE d # c /\ ~inService(d) /\ isValid(blk[d])
          <6>1. blk'[d].bits = blk[d].bits \ {"Writable"}
            BY <1>4, <2>1, <5>2, Zenon DEF SentBlk
          <6> QED BY <6>1
        <5> QED BY <5>1, <5>2, Zenon
      <4> QED BY <4>1, <4>2, Zenon DEF Owns, isDirty
    <3> QED BY <1>2, <1>10, <3>1, Zenon DEF IInv, OwnerInv
  <2>2. CASE X
    <3>1. \A d \in Caches : Owns(d)' => d = c
      BY <1>6, <2>2, Zenon DEF Owns, isDirty
    <3>2. Owns(c)' <=> isDirty(blk[c])
      <4>1. wb'[c] = None
        BY <1>4, <2>2, Zenon DEF SentBlk
      <4> QED BY <1>5, <4>1, Zenon DEF Owns, isDirty
    <3>3. Owns(c) <=> isDirty(blk[c])
      BY <1>2, Zenon DEF Owns
    <3>4. ASSUME ~Owns(c)', \A r \in resp' : ~Hands(r)
          PROVE  mem = latest
      <4>1. \A d \in Caches : ~Owns(d)
        BY <1>1, <1>10, <2>2, <3>2, <3>3, <3>4, Zenon DEF NewAnswer
      <4> QED BY <1>10, <3>4, <4>1, Zenon DEF IInv, OwnerInv
    <3> QED BY <1>2, <3>1, <3>4, Zenon DEF OwnerInv
  <2> QED BY <2>1, <2>2, Zenon
<1> QED BY <1>8, <1>12, <1>15, <1>16, <1>17, Zenon

LEMMA SendRequestStep ==
  ASSUME IInv, NEW c \in Caches, SendRequest(c)
  PROVE  IInv' /\ Forward
<1>1. PICK t, x : Sent(c, t, x)
  BY SendFact, Zenon
<1>2. TypeOK' /\ MshrInv'
  BY SendFact, Zenon
<1>3. CopyInv' /\ WritableInv'
  BY <1>1, SentCopies, Zenon
<1>4. PICK q : Chain(q)
  BY Zenon DEF IInv, ChainInv
<1>5. AnswerInv' /\ PromiseInv' /\ SupplierInv' /\ ChainInv' /\ OwnerInv'
  <2>1. CASE q # << >>
    BY <1>1, <1>4, <2>1, SentBehind, Zenon
  <2>2. CASE q = << >>
    <3>1. \A i : ~(i \in 1 .. Len(q))
      BY <2>2
    <3>2. \A d \in Caches : ~Ex(d)
      BY <1>4, <3>1, Zenon DEF Chain
    <3> QED BY <1>1, <3>2, SentFirst, Zenon
  <2> QED BY <2>1, <2>2, Zenon
<1>6. Forward
  <2>1. seen' = seen
    BY <1>1, Zenon DEF Sent
  <2>2. \A d \in Caches : seen[d] >= seen[d]
    BY DEF IInv, TypeOK
  <2> QED BY <2>1, <2>2, Zenon DEF Forward
<1> QED BY <1>2, <1>3, <1>5, <1>6, Zenon DEF IInv

-----------------------------------------------------------------------------
(* An answer.                                                              *)

IsFill(c, r, shared, b) ==
  /\ b \in Copies /\ {"Valid", "Readable"} \subseteq b.bits
  /\ "Writable" \in b.bits <=> ~shared
  /\ isDirty(b) <=> ~shared /\ r.inhibit
  /\ b.data = IF r.cmd = "UpgradeReq" THEN blk[c].data ELSE r.data

LEMMA FillFact ==
  ASSUME NEW c, NEW r \in Responses, NEW shared \in BOOLEAN, blk[c].data \in Nat
  PROVE  IsFill(c, r, shared, handleFill(c, r, shared))
<1> DEFINE bits == {"Valid", "Readable"}
              \cup (IF shared THEN {} ELSE {"Writable"})
              \cup (IF ~shared /\ r.inhibit THEN {"Dirty"} ELSE {})
           data == IF r.cmd = "UpgradeReq" THEN blk[c].data ELSE r.data
           b == handleFill(c, r, shared)
<1>1. b = [bits |-> bits, data |-> data]
  BY Zenon DEF handleFill
<1>2. data \in Nat
  BY DEF Responses
<1>3. /\ bits \in SUBSET {"Valid", "Readable", "Writable", "Dirty"}
      /\ {"Valid", "Readable"} \subseteq bits
      /\ "Writable" \in bits <=> ~shared
      /\ "Dirty" \in bits <=> ~shared /\ r.inhibit
  OBVIOUS
<1> HIDE DEF bits, b
<1>4. b.bits = bits /\ b.data = data
  BY <1>1, Zenon
<1> HIDE DEF data
<1>5. b \in Copies
  BY <1>1, <1>2, <1>3, Zenon DEF Copies
<1>6. IsFill(c, r, shared, b)
  BY <1>3, <1>4, <1>5, Zenon DEF isDirty, data, IsFill
<1> QED BY <1>6, Zenon DEF b

LEMMA ConcatFact ==
  ASSUME NEW s \in Targets, NEW u \in Targets, Own(s), Own(u), s # << >>
  PROVE  s \o u \in Targets /\ s \o u # << >> /\ Own(s \o u)
<1>1. s \in Seq(OneTarget) /\ u \in Seq(OneTarget) /\ Len(s) \in Nat /\ Len(u) \in Nat
  BY TargetsFact, Zenon DEF Targets
<1>2. s \o u \in Seq(OneTarget) /\ Len(s \o u) = Len(s) + Len(u)
  BY <1>1
<1>3. s \o u # << >>
  BY <1>1, <1>2
<1>4. ASSUME NEW i \in 1 .. Len(s \o u)
      PROVE  ~(s \o u)[i].snoop /\ (s \o u)[i].cmd \in OfCpu
  <2>1. CASE i \in 1 .. Len(s)
    <3>1. (s \o u)[i] = s[i]
      BY <1>1, <2>1
    <3> QED BY <2>1, <3>1, Zenon DEF Own
  <2>2. CASE ~(i \in 1 .. Len(s))
    <3>1. i - Len(s) \in 1 .. Len(u) /\ (s \o u)[i] = u[i - Len(s)]
      BY <1>1, <1>2, <2>2
    <3> QED BY <3>1, Zenon DEF Own
  <2> QED BY <2>1, <2>2, Zenon
<1> QED BY <1>2, <1>3, <1>4, Zenon DEF Own, Targets

(* f is MSHR m once its answer is there.                                   *)
Filled(c, m, shared, f) ==
  /\ f.targets \in Targets /\ f.targets # << >> /\ f.deferred \in Targets
  /\ f.pendingInvalidate = m.pendingInvalidate
  /\ GoodTargets(c, f.targets) /\ Own(f.deferred)
  /\ Exclusive(m.targets) \/ m.pendingInvalidate => f = m
  /\ ~Exclusive(m.targets) /\ ~m.pendingInvalidate => Own(f.targets)
  /\ ~Exclusive(m.targets) /\ Exclusive(f.targets) => ~shared
  /\ f.deferred # << >> => \/ m.pendingInvalidate
                           \/ shared /\ ~Exclusive(m.targets) /\ Exclusive(f.deferred)

LEMMA FilledFact ==
  ASSUME NEW c, NEW m \in MSHRs, GoodMSHR(c, m), m.inService, NEW shared \in BOOLEAN
  PROVE  Filled(c, m, shared, FilledMSHR(m, shared))
<1>1. m.targets \in Targets /\ m.targets # << >> /\ m.deferred \in Targets
  BY MSHRFact, Zenon
<1>2. << >> \in Targets /\ Own(<< >>)
  <2>1. << >> \in Targets /\ \A i : ~(i \in 1 .. Len(<< >>))
    BY DEF Targets
  <2> QED BY <2>1, Zenon DEF Own
<1>3. CASE ~shared /\ ~m.pendingInvalidate /\ Exclusive(m.deferred)
  <2> DEFINE e == m.targets \o m.deferred
             f == FilledMSHR(m, shared)
             none == << >>
  <2>1. f = [m EXCEPT !.targets = e, !.deferred = none]
    BY <1>3, Zenon DEF FilledMSHR
  <2>2. m.deferred # << >>
    <3>1. DOMAIN << >> = {}
      OBVIOUS
    <3> QED BY <1>3, <3>1, Zenon DEF Exclusive
  <2>3. ~Exclusive(m.targets) /\ Own(m.targets) /\ Own(m.deferred)
    BY <1>3, <2>2, Zenon DEF GoodMSHR
  <2>4. e \in Targets /\ e # << >> /\ Own(e)
    BY <1>1, <2>3, ConcatFact, Zenon
  <2>5. none = << >>
    OBVIOUS
  <2> HIDE DEF e, f, none
  <2>6. f = [targets |-> e, deferred |-> none, inService |-> m.inService,
             pendingInvalidate |-> m.pendingInvalidate, pendingShared |-> m.pendingShared]
    BY <2>1, Zenon DEF MSHRs
  <2>7. f.targets = e /\ f.deferred = none /\ f.pendingInvalidate = m.pendingInvalidate
    BY <2>6, Zenon
  <2>8. GoodTargets(c, e)
    BY <2>4, Zenon DEF GoodTargets, Own
  <2>9. Filled(c, m, shared, f)
    BY <1>2, <1>3, <2>3, <2>4, <2>5, <2>7, <2>8, Zenon DEF Filled
  <2> QED BY <2>9, Zenon DEF f
<1>4. CASE ~(~shared /\ ~m.pendingInvalidate /\ Exclusive(m.deferred))
  <2>1. FilledMSHR(m, shared) = m
    BY <1>4, Zenon DEF FilledMSHR
  <2>2. Filled(c, m, shared, m)
    BY <1>1, <1>4, Zenon DEF Filled, GoodMSHR
  <2> QED BY <2>1, <2>2, Zenon
<1> QED BY <1>3, <1>4, Zenon

LEMMA LoopEnd ==
  ASSUME NEW c, NEW t \in Targets, t # << >>, GoodTargets(c, t)
  PROVE  /\ Wrote(t, Len(t)) <=> Exclusive(t)
         /\ Taken(t, Len(t)) <=> t[Len(t)].snoop /\ t[Len(t)].cmd # "ReadReq"
         /\ Own(t) => ~WasSnooped(t, Len(t)) /\ ~Taken(t, Len(t))
<1>1. /\ Exclusive(t) <=> \E i \in 1 .. Len(t) : ~t[i].snoop /\ t[i].cmd # "ReadReq"
      /\ Len(t) \in 1 .. Len(t)
  BY TargetsFact, Zenon
<1>2. \A i \in 1 .. Len(t) : ~t[i].snoop => (t[i].cmd # "ReadReq" <=> t[i].cmd = "WriteReq")
  <2>1. \A i \in 1 .. Len(t) : ~t[i].snoop => t[i].cmd \in OfCpu
    BY Zenon DEF GoodTargets
  <2> QED BY <2>1 DEF OfCpu
<1>3. Wrote(t, Len(t)) <=> Exclusive(t)
  BY <1>1, <1>2, Zenon DEF Wrote
<1>4. Taken(t, Len(t)) <=> t[Len(t)].snoop /\ t[Len(t)].cmd # "ReadReq"
  BY <1>1, Zenon DEF Taken, GoodTargets
<1> QED BY <1>3, <1>4, Zenon DEF Own, WasSnooped, Taken

(* s is what the loop over the targets f.targets of cache c leaves.        *)
Done(c, shared, f, inval, s) ==
  /\ s \in LoopState /\ latest <= s.latest
  /\ seen[c] <= s.seen /\ s.seen <= s.latest
  /\ Passed(c) => s.blk = Invalid
  /\ ~Passed(c) => /\ s.blk.data = s.latest /\ {"Valid", "Readable"} \subseteq s.blk.bits
                   /\ isDirty(s.blk) <=> Exclusive(f.targets)
                   /\ "Writable" \in s.blk.bits
                        => ~shared /\ ~WasSnooped(f.targets, Len(f.targets))
  /\ ~Exclusive(f.targets) => s.latest = latest
  /\ Rd(c) => s.out = {}
  /\ Ex(c) => /\ \A y \in s.out : \E k, t : /\ Promised(c, k, t)
                                            /\ y = Reply(c, t, s.latest, inval)
              /\ \A k, t : Promised(c, k, t) => Reply(c, t, s.latest, inval) \in s.out

Finished(c, r, shared) ==
  LET f == FilledMSHR(mshr[c], shared)
  IN  Done(c, shared, f, f.pendingInvalidate \/ r.inval,
           Served(c, r, f, handleFill(c, r, shared)))

LEMMA DoneFact ==
  ASSUME LeastExists, IInv, NEW c \in Caches, NEW r \in resp, r.to = c, inService(c),
         NEW shared \in BOOLEAN, shared <=> r.shared \/ mshr[c].pendingShared
  PROVE  Finished(c, r, shared)
<1> DEFINE m == mshr[c]
           f == FilledMSHR(m, shared)
           t == f.targets
           n == Len(f.targets)
           inval == f.pendingInvalidate \/ r.inval
           filled == handleFill(c, r, shared)
           s == Served(c, r, f, filled)
<1> SUFFICES Done(c, shared, f, inval, s)
  BY Zenon DEF Finished
<1>1. /\ m \in MSHRs /\ GoodMSHR(c, m) /\ m.inService
      /\ blk[c].data \in Nat /\ seen[c] \in Nat /\ latest \in Nat /\ r \in Responses
      /\ GoodCopy(c) /\ GoodAnswer(c, r)
  <2>1. m # None /\ m.inService
    BY Zenon DEF inService
  <2>2. r \in Responses
    BY Zenon DEF IInv, TypeOK
  <2>3. m \in MSHRs /\ blk[c].data \in Nat /\ seen[c] \in Nat /\ latest \in Nat
    BY <2>1, TypeFact, Zenon DEF IInv
  <2> QED BY <2>1, <2>2, <2>3, Zenon DEF IInv, MshrInv, CopyInv, AnswerInv
<1>2. Filled(c, m, shared, f)
  BY <1>1, FilledFact, Zenon
<1>3. /\ filled \in Copies /\ {"Valid", "Readable"} \subseteq filled.bits
      /\ "Writable" \in filled.bits <=> ~shared
      /\ isDirty(filled) <=> ~shared /\ r.inhibit
      /\ filled.data = IF r.cmd = "UpgradeReq" THEN blk[c].data ELSE r.data
  <2>1. IsFill(c, r, shared, filled)
    BY <1>1, FillFact, Zenon
  <2> HIDE DEF filled
  <2> QED BY <2>1, Zenon DEF IsFill
<1> HIDE DEF f, filled
<1>4. r.data \in Nat /\ r.inval \in BOOLEAN /\ filled.data \in Nat
  BY <1>1, <1>3 DEF Responses, Copies
<1>5. m.pendingInvalidate \in BOOLEAN /\ (Passed(c) <=> m.pendingInvalidate) /\ f.pendingInvalidate \in BOOLEAN
  <2>1. m.pendingInvalidate \in BOOLEAN
    BY <1>1, MSHRFact, Zenon
  <2> QED BY <1>2, <2>1, Zenon DEF Passed, Filled
<1>6. Ex(c) => filled.data = latest
  <2>1. SUFFICES ASSUME Ex(c) PROVE filled.data = latest
    OBVIOUS
  <2>2. ~Rd(c)
    BY <2>1, Zenon DEF Ex, Rd
  <2>3. r.cmd \in OnBus /\ r.cmd # "ReadReq"
    BY <1>1, <2>2, Zenon DEF GoodAnswer
  <2>4. r.cmd = "UpgradeReq" \/ r.cmd = "ReadExReq"
    BY <2>3 DEF OnBus
  <2>5. "UpgradeReq" # "ReadExReq"
    OBVIOUS
  <2> QED BY <1>1, <1>3, <2>4, <2>5, Zenon DEF GoodAnswer, GoodCopy
<1>7. Rd(c) => /\ filled.data = r.data /\ seen[c] <= r.data /\ r.data <= latest
               /\ ~Passed(c) => r.data = latest
               /\ ~isDirty(filled)
  <2>1. SUFFICES ASSUME Rd(c) PROVE /\ filled.data = r.data /\ seen[c] <= r.data /\ r.data <= latest
                                    /\ ~Passed(c) => r.data = latest
                                    /\ ~isDirty(filled)
    BY Zenon
  <2>2. r.cmd = "ReadReq" /\ ~Hands(r)
    BY <1>1, <2>1, Zenon DEF GoodAnswer
  <2>3. "UpgradeReq" # "ReadReq"
    OBVIOUS
  <2> QED BY <1>1, <1>3, <2>1, <2>2, <2>3, Zenon DEF GoodAnswer, Hands
<1>8. (Ex(c) \/ Rd(c)) /\ ~(Ex(c) /\ Rd(c))
  BY Zenon DEF Ex, Rd
<1>9. seen[c] <= filled.data /\ filled.data <= latest /\ (~Passed(c) \/ Ex(c) => filled.data = latest)
  <2>1. CASE Ex(c)
    <3>1. seen[c] <= latest
      BY <1>1, Zenon DEF GoodCopy
    <3>2. latest <= latest
      BY <1>1
    <3> QED BY <1>6, <2>1, <3>1, <3>2, Zenon
  <2>2. CASE Rd(c)
    BY <1>7, <1>8, <2>2, Zenon
  <2> QED BY <1>8, <2>1, <2>2, Zenon
<1>10. t \in Targets /\ t # << >> /\ GoodTargets(c, t)
  BY <1>2, Zenon DEF Filled
<1>11. LoopInv(c, t, filled, inval, n, s)
  <2>1. LoopStarts(c, r, f, filled)
    BY <1>1, <1>3, <1>4, <1>5, <1>9, <1>10, Zenon DEF LoopStarts
  <2>2. LoopEnds(c, r, f, filled)
    BY <2>1, ServedFact, Zenon
  <2> QED BY <2>2, Zenon DEF LoopEnds
<1>12. /\ Wrote(t, n) <=> Exclusive(t)
       /\ Taken(t, n) <=> t[n].snoop /\ t[n].cmd # "ReadReq"
       /\ Own(t) => ~WasSnooped(t, n) /\ ~Taken(t, n)
  BY <1>10, LoopEnd, Zenon
<1> HIDE DEF s, inval, n
<1>13. Taken(t, n) <=> Passed(c)
  <2>1. CASE Ex(c) \/ Passed(c)
    <3>1. f = m
      BY <1>2, <1>5, <2>1, Zenon DEF Filled, Ex
    <3> QED BY <1>1, <1>5, <1>12, <3>1, Zenon DEF GoodMSHR, n
  <2>2. CASE Rd(c) /\ ~Passed(c)
    BY <1>2, <1>5, <1>12, <2>2, Zenon DEF Filled, Rd
  <2> QED BY <1>8, <2>1, <2>2, Zenon
<1>14. s \in LoopState /\ s.latest \in Nat /\ s.seen \in Nat /\ s.latest >= latest
  BY <1>11 DEF LoopInv, LoopState
<1>15. /\ latest <= s.latest
       /\ filled.data + (s.latest - latest) <= s.latest
       /\ filled.data = latest => filled.data + (s.latest - latest) = s.latest
  <2>1. latest \in Nat /\ filled.data \in Nat /\ filled.data <= latest
    BY <1>1, <1>4, <1>9, Zenon
  <2> QED BY <1>14, <2>1
<1>16. seen[c] <= s.seen /\ s.seen <= s.latest
  <2>1. seen[c] <= s.seen /\ s.seen <= Now(filled, s)
    BY <1>11, Zenon DEF LoopInv
  <2>2. s.seen <= filled.data + (s.latest - latest)
    BY <2>1, Zenon DEF Now
  <2>3. s.seen <= s.latest
    BY <1>1, <1>4, <1>14, <1>15, <2>2
  <2> QED BY <2>1, <2>3
<1>17. ~Passed(c) \/ Ex(c) => Now(filled, s) = s.latest
  BY <1>9, <1>15, Zenon DEF Now
<1>18. Passed(c) => s.blk = Invalid
  BY <1>11, <1>13, Zenon DEF LoopInv
<1>19. Ex(c) => Exclusive(t)
  BY <1>2, Zenon DEF Ex, Filled
<1>20. ASSUME ~Passed(c)
       PROVE  /\ s.blk.data = s.latest /\ {"Valid", "Readable"} \subseteq s.blk.bits
              /\ isDirty(s.blk) <=> Exclusive(t)
              /\ "Writable" \in s.blk.bits => ~shared /\ ~WasSnooped(t, n)
  <2>1. isDirty(filled) => Exclusive(t)
    BY <1>7, <1>8, <1>19, Zenon
  <2> QED BY <1>3, <1>11, <1>12, <1>13, <1>17, <1>20, <2>1, Zenon DEF LoopInv
<1>21. ~Exclusive(t) => s.latest = latest
  BY <1>11, <1>12, Zenon DEF LoopInv
<1>22. Rd(c) => s.out = {}
  <2>1. SUFFICES ASSUME Rd(c) PROVE s.out = {}
    OBVIOUS
  <2>2. CASE Passed(c)
    <3>1. ~Exclusive(t)
      BY <1>2, <1>5, <2>1, <2>2, Zenon DEF Filled, Rd
    <3> QED BY <1>7, <1>11, <1>12, <2>1, <3>1, Zenon DEF LoopInv
  <2>3. CASE ~Passed(c)
    <3>1. Own(t)
      BY <1>2, <1>5, <2>1, <2>3, Zenon DEF Filled, Rd
    <3>2. \A y : y \notin s.out
      BY <1>11, <3>1, Zenon DEF LoopInv, Own, n
    <3> QED BY <3>2, Zenon
  <2> QED BY <2>2, <2>3, Zenon
<1>23. Ex(c) => /\ \A y \in s.out : \E k, x : Promised(c, k, x) /\ y = Reply(c, x, s.latest, inval)
                /\ \A k, x : Promised(c, k, x) => Reply(c, x, s.latest, inval) \in s.out
  <2>1. SUFFICES ASSUME Ex(c)
                 PROVE  /\ \A y \in s.out : \E k, x : Promised(c, k, x) /\ y = Reply(c, x, s.latest, inval)
                        /\ \A k, x : Promised(c, k, x) => Reply(c, x, s.latest, inval) \in s.out
    BY Zenon
  <2>2. \A k, x : Promised(c, k, x) <=> k \in 1 .. n /\ x = t[k] /\ x.snoop
    <3>1. f = m
      BY <1>2, <2>1, Zenon DEF Filled, Ex
    <3> QED BY <2>1, <3>1, Zenon DEF Promised, n
  <2>3. Wrote(t, n) /\ Now(filled, s) = s.latest
    BY <1>12, <1>17, <1>19, <2>1, Zenon
  <2>4. \A y \in s.out : \E k \in 1 .. n : t[k].snoop /\ y = Reply(c, t[k], s.latest, inval)
    BY <1>11, <2>3, Zenon DEF LoopInv
  <2>5. \A k \in 1 .. n : t[k].snoop => Reply(c, t[k], s.latest, inval) \in s.out
    BY <1>11, <2>3, Zenon DEF LoopInv
  <2>6. ASSUME NEW y \in s.out
        PROVE  \E k, x : Promised(c, k, x) /\ y = Reply(c, x, s.latest, inval)
    <3>1. PICK k \in 1 .. n : t[k].snoop /\ y = Reply(c, t[k], s.latest, inval)
      BY <2>4, Zenon
    <3>2. Promised(c, k, t[k])
      BY <2>2, <3>1, Zenon
    <3> QED BY <3>1, <3>2, Zenon
  <2>7. ASSUME NEW k, NEW x, Promised(c, k, x)
        PROVE  Reply(c, x, s.latest, inval) \in s.out
    BY <2>2, <2>5, <2>7, Zenon
  <2> QED BY <2>6, <2>7, Zenon
<1> QED BY <1>14, <1>15, <1>16, <1>18, <1>20, <1>21, <1>22, <1>23, Zenon DEF Done, n

(* What an answer leaves alone, and what the other caches see of it.       *)
Answered(c, r, out, inval) ==
  /\ r \in resp /\ r.to = c /\ inService(c) /\ GoodAnswer(c, r)
  /\ \A d \in Caches : d # c => /\ blk'[d] = blk[d] /\ mshr'[d] = mshr[d]
                                /\ wb'[d] = wb[d] /\ seen'[d] = seen[d]
  /\ ~inService(c)' /\ GoodCopy(c)' /\ seen[c] <= seen'[c]
  /\ mem' = mem /\ latest <= latest'
  /\ resp' = (resp \ {r}) \cup out
  /\ inval => Passed(c)
  /\ Rd(c) => out = {}
  /\ Passed(c) => ~isValid(blk'[c]) /\ ~Owns(c)'
  /\ Rd(c) /\ Passed(c) => latest' = latest
  /\ Rd(c) /\ ~Passed(c) => /\ Owns(c)' => Alone(c)
                            /\ ~Owns(c)' => latest' = latest
                            /\ isWritable(blk'[c]) => Alone(c)
  /\ Ex(c) => /\ \A y \in out : \E k, t : Promised(c, k, t) /\ y = Reply(c, t, latest', inval)
              /\ \A k, t : Promised(c, k, t) => Reply(c, t, latest', inval) \in out
              /\ Passed(c) => \E y \in out : Hands(y)
              /\ ~Passed(c) => /\ Owns(c)'
                               /\ isWritable(blk'[c]) => \A k, t : ~Promised(c, k, t)

LEMMA AnsweredFact ==
  ASSUME LeastExists, IInv, NEW c \in Caches, NEW r \in resp, NEW temp \in BOOLEAN,
         handleResponse(c, r, temp)
  PROVE  TypeOK' /\ MshrInv' /\ \E out, inval : Answered(c, r, out, inval)
<1> DEFINE m == mshr[c]
           shared == r.shared \/ m.pendingShared
           f == FilledMSHR(m, shared)
           s == Served(c, r, f, handleFill(c, r, shared))
           again == f.deferred # << >>
           kept == IF r.inval \/ temp \/ ~isValid(s.blk) THEN Invalid
                   ELSE [s.blk EXCEPT !.bits = IF again THEN @ \ {"Readable"} ELSE @]
           next == IF again THEN NewMSHR(f.deferred) ELSE None
           buffered == IF temp /\ isDirty(s.blk) /\ ~r.inval THEN s.blk.data ELSE wb[c]
           inval == f.pendingInvalidate \/ r.inval
<1>1. /\ r.to = c /\ inService(c)
      /\ blk' = [blk EXCEPT ![c] = kept] /\ mshr' = [mshr EXCEPT ![c] = next]
      /\ wb' = [wb EXCEPT ![c] = buffered] /\ blocked' = [blocked EXCEPT ![c] = FALSE]
      /\ resp' = (resp \ {r}) \cup s.out /\ latest' = s.latest
      /\ seen' = [seen EXCEPT ![c] = s.seen] /\ mem' = mem /\ left' = left
  BY Zenon DEF handleResponse
<1>2. /\ m \in MSHRs /\ GoodMSHR(c, m) /\ m.inService
      /\ seen[c] \in Nat /\ latest \in Nat /\ r \in Responses
      /\ GoodCopy(c) /\ GoodAnswer(c, r) /\ wb[c] = None
  <2>1. m # None /\ m.inService
    BY <1>1, Zenon DEF inService
  <2>2. r \in Responses
    BY Zenon DEF IInv, TypeOK
  <2>3. m \in MSHRs /\ seen[c] \in Nat /\ latest \in Nat
    BY <2>1, TypeFact, Zenon DEF IInv
  <2>4. GoodMSHR(c, m) /\ GoodCopy(c) /\ GoodAnswer(c, r)
    BY <1>1, <2>1, Zenon DEF IInv, MshrInv, CopyInv, AnswerInv
  <2> QED BY <1>1, <2>1, <2>2, <2>3, <2>4, Zenon DEF GoodCopy
<1>3. shared \in BOOLEAN /\ (shared <=> r.shared \/ m.pendingShared)
  OBVIOUS
<1> HIDE DEF shared
<1>4. Filled(c, m, shared, f)
  BY <1>2, <1>3, FilledFact, Zenon
<1>5. Done(c, shared, f, inval, s)
  <2>1. Finished(c, r, shared)
    BY <1>1, <1>3, DoneFact, Zenon
  <2> QED BY <2>1, Zenon DEF Finished
<1> HIDE DEF f, s
<1>6. /\ Passed(c) <=> m.pendingInvalidate
      /\ f.pendingInvalidate = m.pendingInvalidate
      /\ Ex(c) \/ Rd(c)
      /\ ~(Ex(c) /\ Rd(c))
  BY <1>1, <1>4, Zenon DEF Passed, Ex, Rd, Filled
<1>7. r.inval => Rd(c) /\ Passed(c)
  BY <1>2, Zenon DEF GoodAnswer
<1>8. Ex(c) => ~shared
  <2>1. r.shared => r.cmd = "ReadReq"
    BY <1>2, Zenon DEF GoodAnswer
  <2>2. r.cmd = "ReadReq" => Rd(c)
    BY <1>2, Zenon DEF GoodAnswer
  <2>3. m.pendingShared => ~Exclusive(m.targets)
    BY <1>2, Zenon DEF GoodMSHR
  <2> QED BY <1>3, <1>6, <2>1, <2>2, <2>3, Zenon DEF Ex
<1>9. again => Passed(c) \/ (shared /\ Rd(c) /\ Exclusive(f.deferred))
  BY <1>1, <1>4, <1>6, Zenon DEF Filled, Rd
<1>10. /\ s \in LoopState /\ s.blk \in Copies /\ s.out \in SUBSET Responses
       /\ s.latest \in Nat /\ s.seen \in Nat
       /\ s.blk.data \in Nat /\ s.blk.bits \in SUBSET {"Valid", "Readable", "Writable", "Dirty"}
  BY <1>5 DEF Done, LoopState, Copies
<1>11. /\ kept \in Copies
       /\ (r.inval \/ temp \/ ~isValid(s.blk)) => kept = Invalid
       /\ ~(r.inval \/ temp \/ ~isValid(s.blk)) =>
            /\ kept.data = s.blk.data
            /\ kept.bits = IF again THEN s.blk.bits \ {"Readable"} ELSE s.blk.bits
  <2>1. CASE r.inval \/ temp \/ ~isValid(s.blk)
    <3>1. kept = Invalid
      BY <2>1, Zenon
    <3> QED BY <2>1, <3>1, InvalidFact, Zenon
  <2>2. CASE ~(r.inval \/ temp \/ ~isValid(s.blk))
    <3> DEFINE bits == IF again THEN s.blk.bits \ {"Readable"} ELSE s.blk.bits
    <3>1. kept = [s.blk EXCEPT !.bits = bits]
      BY <2>2, Zenon
    <3>2. bits \in SUBSET {"Valid", "Readable", "Writable", "Dirty"}
      BY <1>10, Zenon
    <3> HIDE DEF bits, again, kept
    <3>3. kept = [bits |-> bits, data |-> s.blk.data]
      BY <1>10, <3>1, Zenon DEF Copies
    <3>4. kept.bits = bits /\ kept.data = s.blk.data /\ kept \in Copies
      BY <1>10, <3>2, <3>3, Zenon DEF Copies
    <3> QED BY <2>2, <3>4, Zenon DEF bits
  <2> QED BY <2>1, <2>2, Zenon
<1>12. /\ next \in MSHRs \cup {None}
       /\ again => /\ next # None /\ ~next.inService /\ next.targets = f.deferred
                   /\ GoodMSHR(c, next)
       /\ ~again => next = None
  <2>1. again => /\ NewMSHR(f.deferred) \in MSHRs /\ NewMSHR(f.deferred) # None
                 /\ ~NewMSHR(f.deferred).inService /\ NewMSHR(f.deferred).targets = f.deferred
                 /\ GoodMSHR(c, NewMSHR(f.deferred))
    BY <1>4, NewMSHRFact, Zenon DEF Filled
  <2> QED BY <2>1, Zenon
<1>13. buffered \in Nat \cup {None}
  BY <1>2, <1>10, Zenon
<1> HIDE DEF kept, next, again
<1>14. /\ blk'[c] = kept /\ mshr'[c] = next /\ wb'[c] = buffered /\ seen'[c] = s.seen
       /\ \A d \in Caches : d # c => /\ blk'[d] = blk[d] /\ mshr'[d] = mshr[d]
                                     /\ wb'[d] = wb[d] /\ seen'[d] = seen[d]
  BY <1>1, Zenon DEF IInv, TypeOK
<1> HIDE DEF buffered
<1>15. TypeOK'
  BY <1>1, <1>10, <1>11, <1>12, <1>13, Zenon DEF IInv, TypeOK

<1>16. MshrInv'
  <2>1. ASSUME NEW d \in Caches, mshr'[d] # None PROVE GoodMSHR(d, mshr'[d])
    <3>1. CASE d = c
      BY <1>12, <1>14, <2>1, <3>1, Zenon
    <3>2. CASE d # c
      BY <1>14, <2>1, <3>2, Zenon DEF IInv, MshrInv
    <3> QED BY <3>1, <3>2, Zenon
  <2> QED BY <2>1, Zenon DEF MshrInv, GoodMSHR, GoodTargets, Own, Exclusive
<1>17. /\ (r.inval \/ temp \/ ~isValid(s.blk)) => kept.bits = {}
       /\ ~(r.inval \/ temp \/ ~isValid(s.blk)) =>
            /\ kept.data = s.blk.data /\ "Valid" \in kept.bits
            /\ "Dirty" \in kept.bits <=> "Dirty" \in s.blk.bits
            /\ "Writable" \in kept.bits <=> "Writable" \in s.blk.bits
            /\ ~again => kept.bits = s.blk.bits
  <2>1. CASE r.inval \/ temp \/ ~isValid(s.blk)
    BY <1>11, <2>1, InvalidFact, Zenon
  <2>2. CASE ~(r.inval \/ temp \/ ~isValid(s.blk))
    <3>1. kept.data = s.blk.data /\ (kept.bits = s.blk.bits \/ (again /\ kept.bits = s.blk.bits \ {"Readable"}))
      BY <1>11, <2>2, Zenon
    <3>2. /\ "Valid" \in s.blk.bits \ {"Readable"} <=> "Valid" \in s.blk.bits
          /\ "Dirty" \in s.blk.bits \ {"Readable"} <=> "Dirty" \in s.blk.bits
          /\ "Writable" \in s.blk.bits \ {"Readable"} <=> "Writable" \in s.blk.bits
      OBVIOUS
    <3>3. "Valid" \in s.blk.bits
      BY <2>2, Zenon DEF isValid
    <3> QED BY <2>2, <3>1, <3>2, <3>3, Zenon
  <2> QED BY <2>1, <2>2, Zenon
<1>18. ~isDirty(Invalid) /\ ~isValid(Invalid)
  BY InvalidFact, Zenon DEF isDirty, isValid
<1>19. Passed(c) => kept.bits = {} /\ buffered = None
  BY <1>2, <1>5, <1>17, <1>18, Zenon DEF Done, buffered
<1>20. ~Passed(c) => /\ ~r.inval /\ isValid(s.blk) /\ s.blk.data = s.latest
                     /\ {"Valid", "Readable"} \subseteq s.blk.bits
                     /\ isDirty(s.blk) <=> Exclusive(f.targets)
                     /\ "Writable" \in s.blk.bits
                          => ~shared /\ ~WasSnooped(f.targets, Len(f.targets))
  BY <1>5, <1>7, Zenon DEF Done, isValid
<1>21. ~Passed(c) => /\ temp => kept.bits = {}
                     /\ temp /\ isDirty(s.blk) => buffered = s.latest
                     /\ ~(temp /\ isDirty(s.blk)) => buffered = None
                     /\ ~temp => /\ kept.data = s.latest /\ "Valid" \in kept.bits
                                 /\ "Dirty" \in kept.bits <=> isDirty(s.blk)
                                 /\ "Writable" \in kept.bits <=> "Writable" \in s.blk.bits
                                 /\ ~again => kept.bits = s.blk.bits
  BY <1>2, <1>17, <1>20, Zenon DEF buffered, isDirty
<1>22. /\ inService(c)' <=> next # None /\ next.inService
       /\ Owns(c)' <=> "Dirty" \in kept.bits \/ buffered # None
       /\ isValid(blk'[c]) <=> "Valid" \in kept.bits
       /\ isWritable(blk'[c]) <=> {"Valid", "Writable"} \subseteq kept.bits
  BY <1>14, Zenon DEF inService, Owns, isDirty, isValid, isWritable
<1>23. ~inService(c)'
  BY <1>12, <1>22, Zenon
<1>24. GoodCopy(c)'
  <2>1. "Valid" \in kept.bits => ~Passed(c) /\ ~temp
    BY <1>19, <1>21, Zenon
  <2>2. kept.bits = {} \/ "Valid" \in kept.bits
    BY <1>17, Zenon
  <2>3. "Valid" \in kept.bits => kept.data = s.latest
    BY <1>21, <2>1, Zenon
  <2>4. "Valid" \in kept.bits /\ next = None => {"Valid", "Readable"} \subseteq kept.bits
    BY <1>12, <1>20, <1>21, <2>1, Zenon
  <2>5. "Valid" \in kept.bits /\ next # None => "Writable" \notin kept.bits /\ Exclusive(next.targets)
    BY <1>9, <1>12, <1>20, <1>21, <2>1, Zenon
  <2>6. buffered # None => buffered = s.latest /\ "Valid" \notin kept.bits
    BY <1>19, <1>21, <2>1, Zenon
  <2>7. s.seen <= s.latest
    BY <1>5, Zenon DEF Done
  <2> QED BY <1>1, <1>14, <1>23, <2>2, <2>3, <2>4, <2>5, <2>6, <2>7, Zenon
          DEF GoodCopy, isValid, isReadable, isWritable
<1>25. Passed(c) => ~isValid(blk'[c]) /\ ~Owns(c)'
  BY <1>19, <1>22, Zenon
<1>26. latest <= s.latest /\ seen[c] <= s.seen
  BY <1>5, Zenon DEF Done
<1>27. Rd(c) => s.out = {}
  BY <1>5, Zenon DEF Done
<1>28. Rd(c) /\ Passed(c) => s.latest = latest
  BY <1>4, <1>5, <1>6, Zenon DEF Filled, Done, Rd
<1>29. ASSUME Rd(c), ~Passed(c)
       PROVE  /\ Owns(c)' => Alone(c)
              /\ ~Owns(c)' => s.latest = latest
              /\ isWritable(blk'[c]) => Alone(c)
  <2>1. ~shared => Alone(c)
    BY <1>1, <1>2, <1>3, <1>29, Zenon DEF GoodAnswer, Sharing
  <2>2. Exclusive(f.targets) => ~shared
    BY <1>4, <1>29, Zenon DEF Filled, Rd
  <2>3. Owns(c)' => isDirty(s.blk)
    BY <1>21, <1>22, <1>29, Zenon
  <2>4. None # s.latest
    BY <1>10, CoherenceAssumption, Zenon
  <2>5. isDirty(s.blk) => Owns(c)'
    BY <1>21, <1>22, <1>29, <2>4, Zenon
  <2>6. ~Exclusive(f.targets) => s.latest = latest
    BY <1>5, Zenon DEF Done
  <2>7. "Writable" \in kept.bits => ~shared
    BY <1>20, <1>21, <1>29, Zenon
  <2> QED BY <1>20, <1>22, <1>29, <2>1, <2>2, <2>3, <2>5, <2>6, <2>7, Zenon
<1>30. ASSUME Ex(c)
       PROVE  /\ \A y \in s.out : \E k, t : Promised(c, k, t) /\ y = Reply(c, t, s.latest, inval)
              /\ \A k, t : Promised(c, k, t) => Reply(c, t, s.latest, inval) \in s.out
              /\ Passed(c) => \E y \in s.out : Hands(y)
              /\ ~Passed(c) => /\ Owns(c)'
                               /\ isWritable(blk'[c]) => \A k, t : ~Promised(c, k, t)
  <2>1. \A k, t : Promised(c, k, t) => Reply(c, t, s.latest, inval) \in s.out
    BY <1>5, <1>30, Zenon DEF Done
  <2>2. \A y \in s.out : \E k, t : Promised(c, k, t) /\ y = Reply(c, t, s.latest, inval)
    BY <1>5, <1>30, Zenon DEF Done
  <2>3. f = m
    BY <1>4, <1>30, Zenon DEF Filled, Ex
  <2>4. Passed(c) => \E y \in s.out : Hands(y)
    <3>1. SUFFICES ASSUME Passed(c) PROVE \E y \in s.out : Hands(y)
      OBVIOUS
    <3>2. Len(m.targets) \in 1 .. Len(m.targets)
      BY <1>2, MSHRFact, TargetsFact, Zenon
    <3> DEFINE t == m.targets[Len(m.targets)]
    <3>3. t.snoop /\ t.cmd # "ReadReq"
      BY <1>2, <1>6, <3>1, Zenon DEF GoodMSHR
    <3>4. Promised(c, Len(m.targets), t)
      BY <1>30, <3>2, <3>3, Zenon DEF Promised
    <3>5. Hands(Reply(c, t, s.latest, inval))
      <4> HIDE DEF t, inval
      <4> QED BY <3>3, Zenon DEF Hands, Reply
    <3> QED BY <2>1, <3>4, <3>5, Zenon
  <2>5. ~Passed(c) => Owns(c)'
    <3>1. None # s.latest
      BY <1>10, CoherenceAssumption, Zenon
    <3>2. Exclusive(f.targets)
      BY <1>30, <2>3, Zenon DEF Ex
    <3> QED BY <1>20, <1>21, <1>22, <3>1, <3>2, Zenon
  <2>6. ~Passed(c) /\ isWritable(blk'[c]) => \A k, t : ~Promised(c, k, t)
    <3>1. SUFFICES ASSUME ~Passed(c), isWritable(blk'[c]), NEW k, NEW t PROVE ~Promised(c, k, t)
      OBVIOUS
    <3>2. ~temp /\ "Writable" \in kept.bits
      BY <1>21, <1>22, <3>1, Zenon
    <3>3. ~WasSnooped(m.targets, Len(m.targets))
      BY <1>20, <1>21, <2>3, <3>1, <3>2, Zenon
    <3> QED BY <3>3, Zenon DEF WasSnooped, Promised
  <2> QED BY <2>1, <2>2, <2>4, <2>5, <2>6, Zenon
<1>31. inval => Passed(c)
  BY <1>6, <1>7, Zenon
<1> HIDE DEF inval
<1>32. Answered(c, r, s.out, inval)
  <2>1. latest' = s.latest
    BY <1>1, Zenon
  <2>2. seen[c] <= seen'[c] /\ latest <= latest' /\ resp' = (resp \ {r}) \cup s.out
    BY <1>1, <1>14, <1>26, Zenon
  <2>3. Rd(c) /\ Passed(c) => latest' = latest
    BY <1>28, <2>1, Zenon
  <2>4. Rd(c) /\ ~Passed(c) => /\ Owns(c)' => Alone(c)
                               /\ ~Owns(c)' => latest' = latest
                               /\ isWritable(blk'[c]) => Alone(c)
    BY <1>29, <2>1, Zenon
  <2>5. Ex(c) => /\ \A y \in s.out : \E k, t : Promised(c, k, t) /\ y = Reply(c, t, latest', inval)
                 /\ \A k, t : Promised(c, k, t) => Reply(c, t, latest', inval) \in s.out
                 /\ Passed(c) => \E y \in s.out : Hands(y)
                 /\ ~Passed(c) => /\ Owns(c)'
                                  /\ isWritable(blk'[c]) => \A k, t : ~Promised(c, k, t)
    BY <1>30, <2>1, Zenon
  <2> QED BY <1>1, <1>2, <1>14, <1>23, <1>24, <1>25, <1>27, <1>31, <2>2, <2>3, <2>4, <2>5, Zenon
          DEF Answered
<1> QED BY <1>15, <1>16, <1>32, Zenon

(* Only the first of the chain has its answer.                             *)
LEMMA HeadAnswered ==
  ASSUME IInv, NEW q, Chain(q), NEW e \in Caches, Ex(e), NEW y \in resp, y.to = e
  PROVE  q # << >> /\ q[1] = e
<1>1. q \in Seq(Caches) /\ Len(q) \in Nat
  <2>1. q \in Seq(Caches)
    BY Zenon DEF Chain
  <2> QED BY <2>1
<1>2. PICK i \in 1 .. Len(q) : q[i] = e
  BY Zenon DEF Chain
<1>3. q # << >>
  BY <1>1, <1>2
<1>4. i = 1
  <2>1. SUFFICES ASSUME i # 1 PROVE FALSE
    OBVIOUS
  <2>0. Len(q) \in Nat /\ i \in 1 .. Len(q)
    BY <1>1, <1>2, Zenon
  <2>2. i - 1 \in 1 .. Len(q) - 1 /\ i - 1 \in 1 .. Len(q) /\ (i - 1) + 1 = i
    BY <2>0, <2>1
  <2>3. Owes(q[i - 1], e)
    <3>1. Owes(q[i - 1], q[(i - 1) + 1])
      BY <2>2, Zenon DEF Chain
    <3> QED BY <1>2, <2>2, <3>1, Zenon
  <2>4. q[i - 1] \in Caches
    BY <1>1, <2>2
  <2>5. PICK k, t : Promised(q[i - 1], k, t) /\ t.from = e
    BY <2>3, Zenon DEF Owes
  <2>6. GoodPromise(q[i - 1], t)
    BY <2>4, <2>5, Zenon DEF IInv, PromiseInv
  <2> QED BY <2>5, <2>6, Zenon DEF GoodPromise
<1> QED BY <1>2, <1>3, <1>4, Zenon

(* What the order of the bus says of an answer for c.                      *)
Ordered(c, r, out, q) ==
  /\ \A d \in Caches : d # c => SameView(d)
  /\ ~inService(c)' /\ ~Ex(c)' /\ \A k, t : ~Promised(c, k, t)'
  /\ Ex(c) \/ Rd(c)
  /\ ~(Ex(c) /\ Rd(c))
  /\ \A y \in resp : y.to = c => y = r
  /\ Ex(c) => /\ q # << >> /\ c = q[1]
              /\ \A d \in Caches : d # c => ~isValid(blk[d]) /\ wb[d] = None
  /\ Ex(c) /\ ~Passed(c) => \A d \in Caches : Ex(d) => d = c
  /\ Rd(c) /\ (\E d \in Caches : Ex(d)) => Passed(c)
  /\ \A d \in Caches : d # c => \/ latest' = latest
                                \/ ~isValid(blk[d]) /\ wb[d] = None
  /\ \A y \in out : \E k, t : Promised(c, k, t) /\ y.to = t.from
  /\ \A d \in Caches : \A k, t : Promised(d, k, t) => GoodPromise(d, t) /\ t.from # c /\ t.from # d

LEMMA OrderedFact ==
  ASSUME IInv, NEW c \in Caches, NEW r, NEW out, NEW inval, Answered(c, r, out, inval),
         NEW q, Chain(q)
  PROVE  Ordered(c, r, out, q)
<1>1. \A d \in Caches : d # c => SameView(d)
  BY SameMSHR, Zenon DEF Answered
<1>2. ~inService(c)' /\ ~Ex(c)' /\ \A k, t : ~Promised(c, k, t)'
  BY Zenon DEF Answered, Ex, Promised
<1>3. (Ex(c) \/ Rd(c)) /\ ~(Ex(c) /\ Rd(c)) /\ inService(c) /\ r \in resp /\ r.to = c /\ GoodAnswer(c, r)
  BY Zenon DEF Answered, Ex, Rd
<1>4. \A y \in resp : y.to = c => y = r
  BY <1>3, Zenon DEF IInv, AnswerInv
<1>5. ASSUME NEW d \in Caches, NEW k, NEW t, Promised(d, k, t)
      PROVE  GoodPromise(d, t) /\ t.from # c /\ t.from # d
  <2>1. GoodPromise(d, t)
    BY <1>5, Zenon DEF IInv, PromiseInv
  <2>2. t.from # c
    BY <1>3, <2>1, Zenon DEF GoodPromise
  <2>3. t.from # d
    BY <1>5, Zenon DEF IInv, MshrInv, GoodMSHR, GoodTargets, Promised, Ex, inService
  <2> QED BY <2>1, <2>2, <2>3, Zenon
<1>6. ASSUME Ex(c)
      PROVE  /\ q # << >> /\ c = q[1] /\ \A d \in Caches : d # c => ~isValid(blk[d]) /\ wb[d] = None
             /\ ~Passed(c) => \A d \in Caches : Ex(d) => d = c
  <2>1. q # << >> /\ q[1] = c
    BY <1>3, <1>6, HeadAnswered, Zenon
  <2>2. 1 \in 1 .. Len(q)
    BY <2>1, ChainHead, Zenon
  <2>5. ~Passed(c) => \A d \in Caches : Ex(d) => d = c
    <3>1. SUFFICES ASSUME ~Passed(c), NEW d \in Caches, Ex(d) PROVE d = c
      OBVIOUS
    <3>2. 1 = Len(q)
      BY <2>1, <2>2, <3>1, Zenon DEF Chain
    <3>3. PICK j \in 1 .. Len(q) : q[j] = d
      BY <3>1, Zenon DEF Chain
    <3>4. j \in 1 .. 1
      BY <3>2, <3>3, Zenon
    <3>5. j = 1
      BY <3>4
    <3> QED BY <2>1, <3>3, <3>5, Zenon
  <2> QED BY <2>1, <2>5, Zenon DEF Chain
<1>7. Rd(c) /\ (\E d \in Caches : Ex(d)) => Passed(c)
  BY <1>3, Zenon DEF GoodAnswer
<1>8. ASSUME NEW d \in Caches, d # c
      PROVE  latest' = latest \/ (~isValid(blk[d]) /\ wb[d] = None)
  <2>1. CASE Ex(c)
    BY <1>6, <1>8, <2>1, Zenon
  <2>2. CASE Rd(c) /\ Passed(c)
    BY <2>2, Zenon DEF Answered
  <2>3. CASE Rd(c) /\ ~Passed(c)
    <3>1. latest' = latest \/ Alone(c)
      BY <2>3, Zenon DEF Answered
    <3>2. d \in Caches \ {c}
      BY <1>8, Zenon
    <3> QED BY <3>1, <3>2, Zenon DEF Alone
  <2> QED BY <1>3, <2>1, <2>2, <2>3, Zenon
<1>9. ASSUME NEW y \in out PROVE \E k, t : Promised(c, k, t) /\ y.to = t.from
  <2>1. Ex(c)
    BY <1>3, <1>9, Zenon DEF Answered
  <2>2. PICK k, t : Promised(c, k, t) /\ y = Reply(c, t, latest', inval)
    BY <2>1, Zenon DEF Answered
  <2>3. y.to = t.from
    BY <2>2, Zenon DEF Reply
  <2> QED BY <2>2, <2>3, Zenon
<1> QED BY <1>1, <1>2, <1>3, <1>4, <1>5, <1>6, <1>7, <1>8, <1>9, Zenon DEF Ordered

LEMMA AnsweredCopies ==
  ASSUME IInv, TypeOK', NEW c \in Caches, NEW r, NEW out, NEW inval, Answered(c, r, out, inval),
         NEW q, Chain(q), Ordered(c, r, out, q)
  PROVE  CopyInv' /\ WritableInv'
<1>1. ASSUME NEW d \in Caches PROVE GoodCopy(d)'
  <2>1. CASE d = c
    BY <2>1, Zenon DEF Answered
  <2>2. CASE d # c
    <3>1. GoodCopy(d)
      BY Zenon DEF IInv, CopyInv
    <3>2. blk'[d] = blk[d] /\ mshr'[d] = mshr[d] /\ wb'[d] = wb[d] /\ seen'[d] = seen[d]
      BY <2>2, Zenon DEF Answered
    <3>3. latest' = latest \/ (~isValid(blk[d]) /\ wb[d] = None)
      BY <2>2, Zenon DEF Ordered
    <3>4. seen'[d] <= latest'
      <4>1. latest \in Nat /\ latest' \in Nat /\ seen[d] \in Nat
        BY Zenon DEF IInv, TypeOK
      <4>2. seen[d] <= latest /\ latest <= latest'
        BY <3>1, Zenon DEF GoodCopy, Answered
      <4>3. seen[d] <= latest'
        BY <4>1, <4>2
      <4> QED BY <3>2, <4>3, Zenon
    <3>5. inService(d)' <=> inService(d)
      BY <2>2, Zenon DEF Ordered, SameView
    <3> QED BY <3>1, <3>2, <3>3, <3>4, <3>5, Zenon DEF GoodCopy, isValid, isReadable, isWritable
  <2> QED BY <2>1, <2>2, Zenon
<1>2. \A d \in Caches : d # c => SameView(d) /\ blk'[d] = blk[d] /\ wb'[d] = wb[d]
  BY Zenon DEF Ordered, Answered
<1>3. ~inService(c)'
  BY Zenon DEF Answered
<1>4. Passed(c) => ~isValid(blk'[c]) /\ wb'[c] = None
  BY Zenon DEF Answered, Owns
<1>5. ASSUME NEW d \in Caches, isWritable(blk'[d]), NEW e \in Caches \ {d}
      PROVE  ~isValid(blk'[e]) /\ wb'[e] = None /\ (inService(e)' => Rd(e)' /\ Passed(e)')
  <2>1. CASE d # c
    <3>1. isWritable(blk[d])
      BY <1>2, <1>5, <2>1, Zenon
    <3>2. Alone(d)
      BY <3>1, Zenon DEF IInv, WritableInv
    <3>3. CASE e = c
      <4>1. Passed(c)
        BY <1>5, <3>2, <3>3, Zenon DEF Alone, Answered
      <4> QED BY <1>3, <1>4, <3>3, <4>1, Zenon
    <3>4. CASE e # c
      BY <1>2, <3>2, <3>4, Zenon DEF Alone, SameView
    <3> QED BY <3>3, <3>4, Zenon
  <2>2. CASE d = c
    <3>1. e \in Caches /\ e # c /\ SameView(e) /\ blk'[e] = blk[e] /\ wb'[e] = wb[e]
      BY <1>2, <2>2, Zenon
    <3>2. ~Passed(c)
      BY <1>4, <1>5, <2>2, Zenon DEF isWritable, isValid
    <3>3. CASE Rd(c)
      <4>1. Alone(c)
        BY <1>5, <2>2, <3>2, <3>3, Zenon DEF Answered
      <4> QED BY <2>2, <3>1, <4>1, Zenon DEF Alone, SameView
    <3>4. CASE Ex(c)
      <4>1. ~isValid(blk[e]) /\ wb[e] = None /\ ~Ex(e)
        BY <3>1, <3>2, <3>4, Zenon DEF Ordered
      <4>2. \A k, t : ~Promised(c, k, t)
        BY <1>5, <2>2, <3>2, <3>4, Zenon DEF Answered
      <4>3. inService(e) => Rd(e)
        BY <4>1, Zenon DEF Ex, Rd
      <4>4. ASSUME inService(e) PROVE Passed(e)
        <5>1. CASE \E y \in resp : y.to = e
          <6>1. PICK y \in resp : y.to = e
            BY <5>1, Zenon
          <6>2. GoodAnswer(e, y)
            BY <6>1, Zenon DEF IInv, AnswerInv
          <6> QED BY <3>4, <4>3, <4>4, <6>2, Zenon DEF GoodAnswer
        <5>2. CASE \E x \in Caches : Owes(x, e)
          <6>0. PICK x \in Caches : Owes(x, e)
            BY <5>2, Zenon
          <6>1. PICK k, t : Promised(x, k, t) /\ t.from = e
            BY <6>0, Zenon DEF Owes
          <6>2. x = c
            BY <3>2, <3>4, <6>1, Zenon DEF Promised, Ordered
          <6> QED BY <4>2, <6>1, <6>2, Zenon
        <5> QED BY <3>1, <4>4, <5>1, <5>2, Zenon DEF IInv, SupplierInv
      <4> QED BY <3>1, <4>1, <4>3, <4>4, Zenon DEF SameView
    <3> QED BY <3>3, <3>4, Zenon DEF Ordered
  <2> QED BY <2>1, <2>2, Zenon
<1>6. WritableInv'
  BY <1>5, Zenon DEF WritableInv, Alone, isWritable, isValid
<1> QED BY <1>1, <1>6, Zenon DEF CopyInv

LEMMA AnsweredOld ==
  ASSUME IInv, TypeOK', NEW c \in Caches, NEW r, NEW out, NEW inval, Answered(c, r, out, inval),
         NEW q, Chain(q), Ordered(c, r, out, q), NEW y \in resp, y # r
  PROVE  GoodAnswer(y.to, y)'
<1> DEFINE e == y.to
<1>1. e \in Caches /\ y.data \in Nat /\ latest \in Nat /\ latest' \in Nat /\ latest <= latest'
  <2>1. y \in Responses /\ latest \in Nat /\ latest' \in Nat
    BY Zenon DEF IInv, TypeOK
  <2>2. latest <= latest'
    BY Zenon DEF Answered
  <2> QED BY <2>1, <2>2 DEF Responses
<1>2. e # c
  BY Zenon DEF Ordered
<1> HIDE DEF e
<1>3. GoodAnswer(e, y)
  BY Zenon DEF IInv, AnswerInv, e
<1>4. SameView(e) /\ blk'[e] = blk[e] /\ seen'[e] = seen[e]
  BY <1>1, <1>2, Zenon DEF Ordered, Answered
<1>5. y.cmd = "ReadExReq" => y.data = latest'
  <2>1. SUFFICES ASSUME y.cmd = "ReadExReq" PROVE y.data = latest'
    OBVIOUS
  <2>2. y.cmd # "ReadReq"
    BY <2>1
  <2>3. Ex(e)
    BY <1>3, <2>2, Zenon DEF GoodAnswer, Ex, Rd
  <2>4. ~Ex(c)
    <3>1. SUFFICES ASSUME Ex(c) PROVE FALSE
      OBVIOUS
    <3>2. q # << >> /\ c = q[1]
      BY <3>1, Zenon DEF Ordered
    <3>3. q[1] = e
      BY <1>1, <2>3, HeadAnswered, Zenon DEF e
    <3> QED BY <1>2, <3>2, <3>3, Zenon
  <2>5. Rd(c) /\ Passed(c)
    BY <1>1, <2>3, <2>4, Zenon DEF Ordered
  <2>6. latest' = latest
    BY <2>5, Zenon DEF Answered
  <2> QED BY <1>3, <2>1, <2>6, Zenon DEF GoodAnswer
<1>6. Rd(e) => seen[e] <= y.data /\ y.data <= latest'
  <2>1. Rd(e) => seen[e] <= y.data /\ y.data <= latest
    BY <1>3, Zenon DEF GoodAnswer
  <2>2. y.data <= latest => y.data <= latest'
    BY <1>1
  <2> QED BY <2>1, <2>2, Zenon
<1>7. ASSUME Rd(e), ~Passed(e)
      PROVE  y.data = latest' /\ \A d \in Caches : ~Ex(d)'
  <2>1. y.data = latest /\ \A d \in Caches : ~Ex(d)
    BY <1>3, <1>7, Zenon DEF GoodAnswer
  <2>2. Rd(c)
    BY <2>1, Zenon DEF Ordered
  <2>3. ~Alone(c)
    <3>1. e \in Caches \ {c} /\ inService(e)
      BY <1>1, <1>2, <1>7, Zenon DEF Rd
    <3> QED BY <1>7, <3>1, Zenon DEF Alone
  <2>4. latest' = latest
    BY <2>2, <2>3, Zenon DEF Answered
  <2> QED BY <2>1, <2>4, Zenon DEF Ordered, SameView
<1>8. ASSUME Rd(e), ~Passed(e), ~y.shared, ~Sharing(e), NEW d \in Caches \ {e}
      PROVE  /\ ~isValid(blk'[d]) /\ wb'[d] = None
             /\ inService(d)' => Rd(d)' /\ Passed(d)'
  <2>1. Alone(e)
    BY <1>3, <1>8, Zenon DEF GoodAnswer
  <2>2. CASE d = c
    <3>1. Passed(c)
      BY <1>8, <2>1, <2>2, Zenon DEF Alone, Answered
    <3>2. ~isValid(blk'[c]) /\ wb'[c] = None /\ ~inService(c)'
      BY <3>1, Zenon DEF Answered, Owns
    <3> QED BY <2>2, <3>2, Zenon
  <2>3. CASE d # c
    <3>1. SameView(d) /\ blk'[d] = blk[d] /\ wb'[d] = wb[d]
      BY <2>3, Zenon DEF Ordered, Answered
    <3> QED BY <2>1, <3>1, Zenon DEF Alone, SameView
  <2> QED BY <2>2, <2>3, Zenon
<1>9. Rd(e)' /\ ~Passed(e)' /\ ~y.shared /\ ~Sharing(e)' => Alone(e)'
  BY <1>4, <1>8, Zenon DEF SameView, Alone, isValid
<1>10. GoodAnswer(e, y)'
  BY <1>3, <1>4, <1>5, <1>6, <1>7, <1>9, Zenon DEF GoodAnswer, SameView, Hands, isDirty, isValid
<1> QED BY <1>10, Zenon DEF e

LEMMA AnsweredNew ==
  ASSUME IInv, TypeOK', NEW c \in Caches, NEW r, NEW out, NEW inval, Answered(c, r, out, inval),
         NEW q, Chain(q), Ordered(c, r, out, q), NEW y \in out
  PROVE  GoodAnswer(y.to, y)'
<1>1. Ex(c)
  BY Zenon DEF Ordered, Answered
<1>2. PICK k, t : Promised(c, k, t) /\ y = Reply(c, t, latest', inval)
  BY <1>1, Zenon DEF Answered
<1>3. GoodPromise(c, t) /\ t.from # c
  BY <1>2, Zenon DEF Ordered
<1> DEFINE e == t.from
<1>4. /\ y.to = e /\ y.cmd = t.cmd /\ y.data = latest' /\ y.inhibit
      /\ y.shared <=> t.cmd = "ReadReq"
      /\ y.inval <=> inval /\ t.cmd = "ReadReq"
  BY <1>2, Zenon DEF Reply
<1> HIDE DEF e
<1>5. e \in Caches /\ e # c /\ inService(e) /\ t.cmd \in {"ReadReq", "ReadExReq"}
      /\ (t.cmd = "ReadReq" <=> Rd(e)) /\ (Rd(e) /\ Passed(c) => Passed(e))
  BY <1>3, Zenon DEF GoodPromise, e
<1>6. SameView(e) /\ blk'[e] = blk[e] /\ seen'[e] = seen[e]
  BY <1>5, Zenon DEF Ordered, Answered
<1>7. y.cmd \in OnBus /\ y.cmd # "UpgradeReq"
  BY <1>4, <1>5 DEF OnBus
<1>8. seen[e] <= y.data /\ y.data <= latest'
  <2>1. latest \in Nat /\ latest' \in Nat /\ seen[e] \in Nat /\ seen[e] <= latest /\ latest <= latest'
    BY <1>5, Zenon DEF IInv, TypeOK, CopyInv, GoodCopy, Answered
  <2>2. seen[e] <= latest' /\ latest' <= latest'
    BY <2>1
  <2> QED BY <1>4, <2>2, Zenon
<1>9. ASSUME Rd(e), ~Passed(e), NEW d \in Caches PROVE ~Ex(d)'
  <2>1. ~Passed(c)
    BY <1>5, <1>9, Zenon
  <2>2. Ex(d) => d = c
    BY <1>1, <2>1, Zenon DEF Ordered
  <2> QED BY <2>2, Zenon DEF Ordered, SameView
<1>10. ~isDirty(blk[e])
  <2>1. ~isValid(blk[e]) /\ wb[e] = None
    BY <1>1, <1>5, Zenon DEF Ordered
  <2> QED BY <1>5, <2>1, DirtyIsValid, Zenon DEF Owns
<1>11. y.inval => Rd(e) /\ Passed(e)
  BY <1>4, <1>5, Zenon DEF Answered
<1>12. GoodAnswer(e, y)'
  BY <1>4, <1>5, <1>6, <1>7, <1>8, <1>9, <1>10, <1>11, Zenon
     DEF GoodAnswer, SameView, Hands, isDirty, isValid
<1> QED BY <1>4, <1>12, Zenon DEF GoodAnswer, e

LEMMA AnsweredAnswers ==
  ASSUME IInv, TypeOK', NEW c \in Caches, NEW r, NEW out, NEW inval, Answered(c, r, out, inval),
         NEW q, Chain(q), Ordered(c, r, out, q)
  PROVE  AnswerInv' /\ PromiseInv' /\ SupplierInv'
<1>1. resp' = (resp \ {r}) \cup out
  BY Zenon DEF Answered
<1>2. \A y \in resp' : GoodAnswer(y.to, y)'
  <2>1. SUFFICES ASSUME NEW y \in resp' PROVE GoodAnswer(y.to, y)'
    BY Zenon
  <2>2. CASE y \in out
    BY <2>2, AnsweredNew, Zenon
  <2>3. CASE y \in resp /\ y # r
    BY <2>3, AnsweredOld, Zenon
  <2> QED BY <1>1, <2>1, <2>2, <2>3, Zenon
<1>3. ASSUME NEW y \in out, NEW d \in Caches, NEW k, NEW t, Promised(d, k, t), t.from = y.to
      PROVE  d = c
  <2>1. PICK j, u : Promised(c, j, u) /\ y.to = u.from
    BY <1>3, Zenon DEF Ordered
  <2> QED BY <1>3, <2>1, Zenon DEF IInv, PromiseInv
<1>4. ASSUME NEW y \in out, NEW z \in resp PROVE y.to # z.to
  <2>1. PICK j, u : Promised(c, j, u) /\ y.to = u.from
    BY <1>4, Zenon DEF Ordered
  <2>2. GoodPromise(c, u)
    BY <2>1, Zenon DEF Ordered
  <2> QED BY <2>1, <2>2, Zenon DEF GoodPromise
<1>5. ASSUME NEW y \in out, NEW z \in out, y.to = z.to PROVE y = z
  <2>1. Ex(c)
    BY <1>5, Zenon DEF Ordered, Answered
  <2>2. PICK j, t : Promised(c, j, t) /\ y = Reply(c, t, latest', inval)
    BY <2>1, Zenon DEF Answered
  <2>3. PICK k, u : Promised(c, k, u) /\ z = Reply(c, u, latest', inval)
    BY <2>1, Zenon DEF Answered
  <2>4. y.to = t.from /\ z.to = u.from
    BY <2>2, <2>3, Zenon DEF Reply
  <2>5. j = k
    BY <1>5, <2>2, <2>3, <2>4, Zenon DEF IInv, PromiseInv
  <2>6. t = u
    BY <2>2, <2>3, <2>5, Zenon DEF Promised
  <2> QED BY <2>2, <2>3, <2>6, Zenon
<1>6. \A y, z \in resp' : y.to = z.to => y = z
  <2>1. SUFFICES ASSUME NEW y \in resp', NEW z \in resp', y.to = z.to PROVE y = z
    BY Zenon
  <2>2. (y \in resp \/ y \in out) /\ (z \in resp \/ z \in out)
    BY <1>1, <2>1, Zenon
  <2>3. CASE y \in resp /\ z \in resp
    BY <2>1, <2>3, Zenon DEF IInv, AnswerInv
  <2>4. CASE y \in out /\ z \in out
    BY <1>5, <2>1, <2>4, Zenon
  <2>5. CASE y \in resp /\ z \in out
    BY <1>4, <2>1, <2>5, Zenon
  <2>6. CASE y \in out /\ z \in resp
    BY <1>4, <2>1, <2>6, Zenon
  <2> QED BY <2>2, <2>3, <2>4, <2>5, <2>6, Zenon
<1>7. ASSUME NEW d \in Caches, NEW k, NEW t, Promised(d, k, t)'
      PROVE  d # c /\ Promised(d, k, t)
  <2>1. d # c
    BY <1>7, Zenon DEF Ordered
  <2> QED BY <1>7, <2>1, Zenon DEF Ordered, SameView
<1>8. ASSUME NEW d \in Caches, NEW k, NEW t, Promised(d, k, t)'
      PROVE  GoodPromise(d, t)'
  <2>1. d # c /\ Promised(d, k, t)
    BY <1>7, <1>8, Zenon
  <2>2. GoodPromise(d, t) /\ t.from # c
    BY <2>1, Zenon DEF Ordered
  <2>3. t.from \in Caches /\ SameView(t.from) /\ SameView(d)
    BY <2>1, <2>2, Zenon DEF Ordered, GoodPromise
  <2>4. ASSUME NEW y \in resp' PROVE y.to # t.from
    <3>1. CASE y \in out
      BY <1>3, <2>1, <3>1, Zenon
    <3>2. CASE y \in resp
      BY <2>2, <3>2, Zenon DEF GoodPromise
    <3> QED BY <1>1, <2>4, <3>1, <3>2, Zenon
  <2> QED BY <2>2, <2>3, <2>4, Zenon DEF GoodPromise, SameView
<1>9. ASSUME NEW d \in Caches, NEW e \in Caches, NEW i, NEW j, NEW t, NEW u,
             Promised(d, i, t)', Promised(e, j, u)', t.from = u.from
      PROVE  d = e /\ i = j
  <2>1. Promised(d, i, t) /\ Promised(e, j, u)
    BY <1>7, <1>9, Zenon
  <2> QED BY <1>9, <2>1, Zenon DEF IInv, PromiseInv
<1>10. ASSUME NEW d \in Caches, inService(d)'
       PROVE  (\E y \in resp' : y.to = d) \/ \E e \in Caches : Owes(e, d)'
  <2>1. d # c /\ inService(d)
    BY <1>10, Zenon DEF Ordered, SameView
  <2>2. CASE \E y \in resp : y.to = d
    <3>1. PICK y \in resp : y.to = d
      BY <2>2, Zenon
    <3>2. y # r
      BY <2>1, <3>1, Zenon DEF Answered
    <3> QED BY <1>1, <3>1, <3>2, Zenon
  <2>3. CASE \E e \in Caches : Owes(e, d)
    <3>1. PICK e \in Caches : Owes(e, d)
      BY <2>3, Zenon
    <3>2. PICK k, t : Promised(e, k, t) /\ t.from = d
      BY <3>1, Zenon DEF Owes
    <3>3. CASE e = c
      <4>1. Reply(c, t, latest', inval) \in out
        BY <3>2, <3>3, Zenon DEF Answered, Promised
      <4>2. Reply(c, t, latest', inval).to = d
        BY <3>2, Zenon DEF Reply
      <4> QED BY <1>1, <4>1, <4>2, Zenon
    <3>4. CASE e # c
      <4>1. Promised(e, k, t)'
        BY <3>2, <3>4, Zenon DEF Ordered, SameView
      <4> QED BY <3>2, <4>1, Zenon DEF Owes
    <3> QED BY <3>3, <3>4, Zenon
  <2> QED BY <2>1, <2>2, <2>3, Zenon DEF IInv, SupplierInv
<1>11. AnswerInv'
  BY <1>2, <1>6, Zenon DEF AnswerInv
<1>12. PromiseInv'
  BY <1>8, <1>9, Zenon DEF PromiseInv
<1>13. SupplierInv'
  BY <1>10, Zenon DEF SupplierInv
<1> QED BY <1>11, <1>12, <1>13, Zenon

LEMMA AnsweredChain ==
  ASSUME IInv, NEW c \in Caches, NEW r, NEW out, NEW inval, Answered(c, r, out, inval),
         NEW q, Chain(q), Ordered(c, r, out, q)
  PROVE  ChainInv'
<1>1. resp' = (resp \ {r}) \cup out
  BY Zenon DEF Answered
<1>2. \A d \in Caches : d # c => SameView(d) /\ blk'[d] = blk[d] /\ wb'[d] = wb[d]
  BY Zenon DEF Ordered, Answered
<1>3. ~Ex(c)' /\ (Passed(c) => ~isValid(blk'[c]) /\ wb'[c] = None)
  BY Zenon DEF Ordered, Answered, Owns
<1>4. q \in Seq(Caches) /\ Len(q) \in Nat /\ \A i \in 1 .. Len(q) : q[i] \in Caches
  <2>1. q \in Seq(Caches)
    BY Zenon DEF Chain
  <2> QED BY <2>1
<1>5. \A i : i \in 1 .. Len(q) - 1 => i \in 1 .. Len(q) /\ i + 1 \in 1 .. Len(q)
  BY <1>4
<1>6. ASSUME NEW d \in Caches, d # c, NEW e, Owes(d, e) PROVE Owes(d, e)'
  BY <1>2, <1>6, Zenon DEF Owes, SameView
<1>7. CASE Rd(c)
  <2>1. ~Ex(c)
    BY <1>7, Zenon DEF Ordered
  <2>2. \A i \in 1 .. Len(q) : q[i] # c
    BY <2>1, Zenon DEF Chain
  <2>3. \A d \in Caches : Ex(d)' <=> \E i \in 1 .. Len(q) : q[i] = d
    <3>1. \A d \in Caches : Ex(d)' <=> Ex(d)
      BY <1>2, <1>3, <2>1, Zenon DEF SameView
    <3>2. \A d \in Caches : Ex(d) <=> \E i \in 1 .. Len(q) : q[i] = d
      BY Zenon DEF Chain
    <3> QED BY <3>1, <3>2, Zenon
  <2>4. ASSUME NEW i \in 1 .. Len(q) - 1 PROVE Owes(q[i], q[i + 1])'
    <3>1. q[i] \in Caches /\ q[i] # c /\ Owes(q[i], q[i + 1])
      BY <1>4, <1>5, <2>2, Zenon DEF Chain
    <3> QED BY <1>6, <3>1, Zenon
  <2>5. ASSUME NEW i \in 1 .. Len(q) PROVE Passed(q[i])' <=> i # Len(q)
    <3>1. q[i] \in Caches /\ q[i] # c
      BY <1>4, <2>2, Zenon
    <3> QED BY <1>2, <3>1, Zenon DEF Chain, SameView
  <2>6. ASSUME q # << >> PROVE (\E y \in resp' : y.to = q[1])
                              /\ \A d \in Caches : wb'[d] = None /\ (isValid(blk'[d]) => d = q[1])
    <3>1. 1 \in 1 .. Len(q) /\ q[1] \in Caches /\ Ex(q[1])
      BY <2>6, ChainHead, Zenon
    <3>2. PICK y \in resp : y.to = q[1]
      BY <2>6, Zenon DEF Chain
    <3>3. y \in resp'
      BY <1>1, <2>2, <3>1, <3>2, Zenon DEF Answered
    <3>4. Passed(c)
      BY <1>7, <3>1, Zenon DEF Ordered
    <3>5. \A d \in Caches : wb'[d] = None /\ (isValid(blk'[d]) => d = q[1])
      BY <1>2, <1>3, <2>6, <3>4, Zenon DEF Chain
    <3> QED BY <3>2, <3>3, <3>5, Zenon
  <2>7. Chain(q)'
    BY <1>4, <2>3, <2>4, <2>5, <2>6, Zenon DEF Chain, isValid
  <2> QED BY <2>7, Zenon DEF ChainInv
<1>8. CASE Ex(c)
  <2>1. q # << >> /\ c = q[1] /\ \A d \in Caches : d # c => ~isValid(blk[d]) /\ wb[d] = None
    BY <1>8, Zenon DEF Ordered
  <2> DEFINE u == Tail(q)
  <2>2. /\ u \in Seq(Caches) /\ Len(u) = Len(q) - 1 /\ Len(u) \in Nat
        /\ \A i \in 1 .. Len(u) : u[i] = q[i + 1]
    BY <1>4, <2>1
  <2> HIDE DEF u
  <2>3. /\ 1 \in 1 .. Len(q)
        /\ \A i \in 1 .. Len(u) : i + 1 \in 1 .. Len(q) /\ i + 1 # 1 /\ (i + 1 = Len(q) <=> i = Len(u))
        /\ \A i \in 1 .. Len(u) - 1 : /\ i \in 1 .. Len(u) /\ i + 1 \in 1 .. Len(u)
                                      /\ i + 1 \in 1 .. Len(q) - 1
        /\ \A j \in 1 .. Len(q) : j # 1 => j - 1 \in 1 .. Len(u) /\ (j - 1) + 1 = j
        /\ \A i, j \in 1 .. Len(u) : i + 1 = j + 1 => i = j
    BY <1>4, <2>1, <2>2
  <2>0. \A i, j \in 1 .. Len(q) : q[i] = q[j] => i = j
    BY Zenon DEF Chain
  <2>4. ASSUME NEW i \in 1 .. Len(u) PROVE u[i] # c /\ u[i] \in Caches
    <3>1. u[i] = q[i + 1] /\ i + 1 \in 1 .. Len(q) /\ i + 1 # 1
      BY <2>2, <2>3, Zenon
    <3> QED BY <1>4, <2>0, <2>1, <2>3, <3>1, Zenon
  <2>5. \A i, j \in 1 .. Len(u) : u[i] = u[j] => i = j
    <3>1. SUFFICES ASSUME NEW i \in 1 .. Len(u), NEW j \in 1 .. Len(u), u[i] = u[j]
                   PROVE  i = j
      BY Zenon
    <3>2. u[i] = q[i + 1] /\ u[j] = q[j + 1] /\ i + 1 \in 1 .. Len(q) /\ j + 1 \in 1 .. Len(q)
      BY <2>2, <2>3, Zenon
    <3> QED BY <2>0, <2>3, <3>1, <3>2, Zenon
  <2>6. ASSUME NEW d \in Caches PROVE Ex(d)' <=> \E i \in 1 .. Len(u) : u[i] = d
    <3>1. CASE d = c
      BY <1>3, <2>4, <3>1, Zenon
    <3>2. CASE d # c
      <4>1. Ex(d)' <=> Ex(d)
        BY <1>2, <3>2, Zenon DEF SameView
      <4>2. Ex(d) <=> \E j \in 1 .. Len(q) : q[j] = d
        BY Zenon DEF Chain
      <4>3. ASSUME NEW j \in 1 .. Len(q), q[j] = d PROVE \E i \in 1 .. Len(u) : u[i] = d
        <5>1. j # 1
          BY <2>1, <3>2, <4>3, Zenon
        <5>2. j - 1 \in 1 .. Len(u) /\ u[j - 1] = q[j]
          BY <2>2, <2>3, <5>1, Zenon
        <5> QED BY <4>3, <5>2, Zenon
      <4>4. ASSUME NEW i \in 1 .. Len(u), u[i] = d PROVE \E j \in 1 .. Len(q) : q[j] = d
        BY <2>2, <2>3, <4>4, Zenon
      <4> QED BY <4>1, <4>2, <4>3, <4>4, Zenon
    <3> QED BY <3>1, <3>2, Zenon
  <2>7. ASSUME NEW i \in 1 .. Len(u) - 1 PROVE Owes(u[i], u[i + 1])'
    <3>1. u[i] \in Caches /\ u[i] # c
      BY <2>3, <2>4, Zenon
    <3>2. u[i] = q[i + 1] /\ u[i + 1] = q[(i + 1) + 1] /\ i + 1 \in 1 .. Len(q) - 1
      BY <2>2, <2>3, Zenon
    <3>3. Owes(u[i], u[i + 1])
      BY <3>2, Zenon DEF Chain
    <3> QED BY <1>6, <3>1, <3>3, Zenon
  <2>8. ASSUME NEW i \in 1 .. Len(u) PROVE Passed(u[i])' <=> i # Len(u)
    <3>1. SameView(u[i]) /\ u[i] = q[i + 1]
      BY <1>2, <2>2, <2>4, Zenon
    <3>2. Passed(q[i + 1]) <=> i + 1 # Len(q)
      BY <2>3, Zenon DEF Chain
    <3> QED BY <2>3, <3>1, <3>2, Zenon DEF SameView
  <2>9. ASSUME u # << >> PROVE (\E y \in resp' : y.to = u[1])
                              /\ \A d \in Caches : wb'[d] = None /\ (isValid(blk'[d]) => d = u[1])
    <3>1. 1 \in 1 .. Len(u) /\ 1 \in 1 .. Len(q) - 1 /\ 1 # Len(q) /\ 1 + 1 = 2
      BY <2>2, <2>9
    <3>2. u[1] = q[1 + 1]
      BY <2>2, <3>1, Zenon
    <3>3. Owes(c, u[1]) /\ Passed(c)
      BY <2>1, <2>3, <3>1, <3>2, Zenon DEF Chain
    <3>4. PICK k, t : Promised(c, k, t) /\ t.from = u[1]
      BY <3>3, Zenon DEF Owes
    <3>5. Reply(c, t, latest', inval) \in resp'
      BY <1>1, <1>8, <3>4, Zenon DEF Answered
    <3>6. Reply(c, t, latest', inval).to = u[1]
      BY <3>4, Zenon DEF Reply
    <3>7. \A d \in Caches : wb'[d] = None /\ ~isValid(blk'[d])
      BY <1>2, <1>3, <2>1, <3>3, Zenon
    <3> QED BY <3>5, <3>6, <3>7, Zenon
  <2>10. Chain(u)'
    BY <2>2, <2>5, <2>6, <2>7, <2>8, <2>9, Zenon DEF Chain, isValid
  <2> QED BY <2>10, Zenon DEF ChainInv
<1> QED BY <1>7, <1>8, Zenon DEF Ordered

LEMMA AnsweredOwner ==
  ASSUME IInv, NEW c \in Caches, NEW r, NEW out, NEW inval, Answered(c, r, out, inval),
         NEW q, Chain(q), Ordered(c, r, out, q)
  PROVE  OwnerInv'
<1>1. \A d \in Caches : d # c => (Owns(d)' <=> Owns(d))
  BY Zenon DEF Answered, Owns, isDirty
<1>2. ASSUME NEW d \in Caches, d # c, Owns(c)' PROVE ~Owns(d)'
  <2>1. ~isValid(blk[d]) /\ wb[d] = None
    <3>1. CASE Ex(c)
      BY <1>2, <3>1, Zenon DEF Ordered
    <3>2. CASE Rd(c)
      <4>1. Alone(c)
        BY <1>2, <3>2, Zenon DEF Answered
      <4>2. d \in Caches \ {c}
        BY <1>2, Zenon
      <4> QED BY <4>1, <4>2, Zenon DEF Alone
    <3> QED BY <3>1, <3>2, Zenon DEF Ordered
  <2>2. ~Owns(d)
    BY <2>1, DirtyIsValid, Zenon
  <2> QED BY <1>1, <1>2, <2>2, Zenon
<1>3. \A d, e \in Caches : Owns(d)' /\ Owns(e)' => d = e
  <2>1. SUFFICES ASSUME NEW d \in Caches, NEW e \in Caches, Owns(d)', Owns(e)', d # e
                 PROVE  FALSE
    BY Zenon
  <2>2. d # c /\ e # c
    BY <1>2, <2>1, Zenon
  <2> QED BY <1>1, <2>1, <2>2, Zenon DEF IInv, OwnerInv
<1>4. ASSUME \A d \in Caches : ~Owns(d)', \A y \in resp' : ~Hands(y)
      PROVE  mem' = latest'
  <2>1. resp' = (resp \ {r}) \cup out /\ mem' = mem
    BY Zenon DEF Answered
  <2>2. Rd(c)
    <3>1. ~Ex(c)
      BY <1>4, <2>1, Zenon DEF Answered
    <3> QED BY <3>1, Zenon DEF Ordered
  <2>3. latest' = latest
    BY <1>4, <2>2, Zenon DEF Answered
  <2>4. ~Hands(r)
    BY <2>2, Zenon DEF Answered, GoodAnswer
  <2>5. \A y \in resp : ~Hands(y)
    BY <1>4, <2>1, <2>4, Zenon
  <2>6. ~Owns(c)
    <3>1. inService(c) /\ mshr[c] # None /\ ~Exclusive(mshr[c].targets)
      BY <2>2, Zenon DEF Rd, inService
    <3>2. ~isValid(blk[c]) /\ wb[c] = None
      BY <3>1, Zenon DEF IInv, CopyInv, GoodCopy
    <3> QED BY <3>2, DirtyIsValid, Zenon
  <2>7. \A d \in Caches : ~Owns(d)
    BY <1>1, <1>4, <2>6, Zenon
  <2>8. mem = latest
    BY <2>5, <2>7, Zenon DEF IInv, OwnerInv
  <2> QED BY <2>1, <2>3, <2>8, Zenon
<1>5. (\A d \in Caches : ~Owns(d)') /\ (\A y \in resp' : ~Hands(y)) => mem' = latest'
  BY <1>4, Zenon
<1> QED BY <1>3, <1>5, Zenon DEF OwnerInv, Hands

LEMMA handleResponseStep ==
  ASSUME LeastExists, IInv, NEW c \in Caches, NEW r \in resp, NEW temp \in BOOLEAN,
         handleResponse(c, r, temp)
  PROVE  IInv' /\ Forward
<1>1. TypeOK' /\ MshrInv'
  BY AnsweredFact, Zenon
<1>2. PICK out, inval : Answered(c, r, out, inval)
  BY AnsweredFact, Zenon
<1>3. PICK q : Chain(q)
  BY Zenon DEF IInv, ChainInv
<1>4. Ordered(c, r, out, q)
  BY <1>2, <1>3, OrderedFact, Zenon
<1>5. CopyInv' /\ WritableInv'
  BY <1>1, <1>2, <1>3, <1>4, AnsweredCopies, Zenon
<1>6. AnswerInv' /\ PromiseInv' /\ SupplierInv'
  BY <1>1, <1>2, <1>3, <1>4, AnsweredAnswers, Zenon
<1>7. ChainInv'
  BY <1>2, <1>3, <1>4, AnsweredChain, Zenon
<1>8. OwnerInv'
  BY <1>2, <1>3, <1>4, AnsweredOwner, Zenon
<1>9. Forward
  <2>1. ASSUME NEW d \in Caches PROVE seen'[d] >= seen[d]
    <3>1. seen[d] \in Nat /\ seen'[d] \in Nat /\ seen[d] <= seen[d]
      <4>1. seen[d] \in Nat /\ seen'[d] \in Nat
        BY <1>1, Zenon DEF IInv, TypeOK
      <4> QED BY <4>1
    <3>2. seen[d] <= seen'[d]
      BY <1>2, <3>1, Zenon DEF Answered
    <3> QED BY <3>1, <3>2
  <2> QED BY <2>1, Zenon DEF Forward
<1> QED BY <1>1, <1>5, <1>6, <1>7, <1>8, <1>9, Zenon DEF IInv

-----------------------------------------------------------------------------
(* All steps.                                                              *)

LEMMA StutterStep ==
  ASSUME IInv, UNCHANGED vars
  PROVE  IInv' /\ Forward
<1>1. /\ blk' = blk /\ mshr' = mshr /\ wb' = wb /\ blocked' = blocked /\ resp' = resp
      /\ mem' = mem /\ left' = left /\ latest' = latest /\ seen' = seen
  BY Zenon DEF vars
<1>2. TypeOK'
  BY <1>1, Zenon DEF IInv, TypeOK
<1>3. MshrInv'
  <2>1. \A d \in Caches : mshr'[d] # None => GoodMSHR(d, mshr'[d])
    BY <1>1, Zenon DEF IInv, MshrInv
  <2> QED BY <2>1, Zenon DEF MshrInv, GoodMSHR, GoodTargets, Own, Exclusive
<1>4. \A d \in Caches : SameView(d)
  BY <1>1, SameMSHR, Zenon
<1>5. \A d \in Caches : SameBits(d)
  BY <1>1, Zenon DEF SameBits
<1>6. CopyInv'
  BY <1>1, <1>4, Zenon DEF IInv, CopyInv, GoodCopy, SameView, isValid, isReadable, isWritable
<1>7. WritableInv' /\ AnswerInv' /\ PromiseInv' /\ SupplierInv' /\ ChainInv' /\ OwnerInv'
  BY <1>1, <1>4, <1>5, QuietStep, Zenon DEF IInv, TypeOK
<1>8. Forward
  <2>1. \A d \in Caches : seen[d] >= seen[d]
    BY DEF IInv, TypeOK
  <2> QED BY <1>1, <2>1, Zenon DEF Forward
<1> QED BY <1>2, <1>3, <1>6, <1>7, <1>8, Zenon DEF IInv

LEMMA NextStep ==
  ASSUME LeastExists, ~LateWrites, IInv, [Next]_vars
  PROVE  IInv' /\ Forward
<1>1. CASE UNCHANGED vars
  BY <1>1, StutterStep, Zenon
<1>2. ASSUME NEW c \in Caches, SendRequest(c) PROVE IInv' /\ Forward
  BY <1>2, SendRequestStep, Zenon
<1>3. ASSUME NEW c \in Caches, SendWriteback(c) PROVE IInv' /\ Forward
  BY <1>3, SendWritebackStep, Zenon
<1>4. ASSUME NEW c \in Caches, NEW r \in resp, NEW temp \in BOOLEAN, handleResponse(c, r, temp)
      PROVE  IInv' /\ Forward
  BY <1>4, handleResponseStep, Zenon
<1>5. ASSUME NEW c \in Caches, NEW cmd \in {"ReadReq", "WriteReq"}, CpuRequest(c, cmd)
      PROVE  IInv' /\ Forward
  BY <1>5, CpuRequestStep, Zenon DEF OfCpu
<1>6. ASSUME NEW c \in Caches, allocateBlock(c) PROVE IInv' /\ Forward
  BY <1>6, allocateBlockStep, Zenon
<1> QED BY <1>1, <1>2, <1>3, <1>4, <1>5, <1>6, Zenon DEF Next, Progress

LEMMA InitStep ==
  ASSUME Init
  PROVE  IInv
<1>1. \A c \in Caches : /\ blk[c] = Invalid /\ mshr[c] = None /\ wb[c] = None
                        /\ blocked[c] = FALSE /\ seen[c] = 0
  BY Zenon DEF Init
<1>2. Requests \in 0 .. Requests /\ 0 \in Nat /\ 0 <= 0
  BY CoherenceAssumption
<1>3. TypeOK
  BY <1>2, InvalidFact, Zenon DEF Init, TypeOK
<1>4. \A c \in Caches : /\ ~isValid(blk[c]) /\ ~isWritable(blk[c]) /\ ~isDirty(blk[c])
                        /\ ~inService(c) /\ ~Ex(c) /\ ~Owns(c)
  BY <1>1, InvalidFact, Zenon DEF isValid, isWritable, isDirty, inService, Ex, Owns
<1>5. MshrInv
  BY <1>1, Zenon DEF MshrInv
<1>6. CopyInv
  BY <1>1, <1>2, <1>4, InvalidFact, Zenon DEF CopyInv, GoodCopy, Init
<1>7. WritableInv
  BY <1>4, Zenon DEF WritableInv
<1>8. AnswerInv
  BY Zenon DEF AnswerInv, Init
<1>9. PromiseInv
  <2>1. \A d \in Caches : \A i, t : ~Promised(d, i, t)
    BY <1>4, Zenon DEF Promised
  <2> QED BY <2>1, Zenon DEF PromiseInv
<1>10. SupplierInv
  BY <1>4, Zenon DEF SupplierInv
<1>11. ChainInv
  <2> DEFINE q == << >>
  <2>1. q \in Seq(Caches) /\ Len(q) = 0 /\ q = << >>
    OBVIOUS
  <2> HIDE DEF q
  <2>2. \A i : ~(i \in 1 .. Len(q)) /\ ~(i \in 1 .. Len(q) - 1)
    BY <2>1
  <2>3. Chain(q)
    BY <1>4, <2>1, <2>2, Zenon DEF Chain
  <2> QED BY <2>3, Zenon DEF ChainInv
<1>12. OwnerInv
  BY <1>4, Zenon DEF OwnerInv, Init
<1> QED BY <1>3, <1>5, <1>6, <1>7, <1>8, <1>9, <1>10, <1>11, <1>12, Zenon DEF IInv

-----------------------------------------------------------------------------
(* What the inductive invariant says.                                      *)

CardFacts == Cardinality({}) = 0 /\ \A x : Cardinality({x}) = 1

LEMMA PromisesFact ==
  ASSUME IInv, NEW c \in Caches
  PROVE  \A x : x \in Promises(c) <=> \E d \in Caches : \E i, t :
                                        /\ Promised(d, i, t) /\ t.from = c /\ x = <<d, i>>
<1> DEFINE busy == {e \in Caches \ {c} : inService(e) /\ Exclusive(mshr[e].targets)}
           mine(d) == {j \in DOMAIN mshr[d].targets :
                         mshr[d].targets[j].snoop /\ mshr[d].targets[j].from = c}
<1>1. \A x : x \in Promises(c) <=> \E d \in busy : \E i \in mine(d) : x = <<d, i>>
  <2> DEFINE row(d) == {<<d, i>> : i \in mine(d)}
             rows == {row(d) : d \in busy}
  <2>1. Promises(c) = UNION rows
    BY Zenon DEF Promises
  <2> HIDE DEF mine, busy
  <2>2. \A d, x : x \in row(d) <=> \E i \in mine(d) : x = <<d, i>>
    BY Zenon
  <2>3. \A S : S \in rows <=> \E d \in busy : S = row(d)
    BY Zenon
  <2> HIDE DEF row, rows
  <2>4. \A x : x \in UNION rows <=> \E S \in rows : x \in S
    BY Zenon
  <2>5. \A x : x \in UNION rows <=> \E d \in busy : x \in row(d)
    BY <2>3, <2>4, Zenon
  <2>6. \A x : x \in UNION rows <=> \E d \in busy : \E i \in mine(d) : x = <<d, i>>
    BY <2>2, <2>5, Zenon
  <2> QED BY <2>1, <2>6, Zenon
<1>2. ASSUME NEW d \in Caches, Ex(d) PROVE DOMAIN mshr[d].targets = 1 .. Len(mshr[d].targets)
  <2>1. mshr[d] \in MSHRs
    BY <1>2, TypeFact, Zenon DEF IInv, Ex, inService
  <2>2. mshr[d].targets \in Targets
    BY <2>1, MSHRFact, Zenon
  <2> QED BY <2>2, TargetsFact, Zenon
<1>3. ASSUME NEW d \in busy, NEW i \in mine(d)
      PROVE  d \in Caches /\ Promised(d, i, mshr[d].targets[i]) /\ mshr[d].targets[i].from = c
  <2>1. d \in Caches /\ Ex(d)
    BY <1>3, Zenon DEF Ex
  <2> QED BY <1>2, <1>3, <2>1, Zenon DEF Promised
<1>4. ASSUME NEW d \in Caches, NEW i, NEW t, Promised(d, i, t), t.from = c
      PROVE  d \in busy /\ i \in mine(d)
  <2>1. Ex(d) /\ i \in 1 .. Len(mshr[d].targets) /\ t = mshr[d].targets[i] /\ t.snoop
    BY <1>4, Zenon DEF Promised
  <2>2. t.from # d
    BY <2>1, Zenon DEF IInv, MshrInv, GoodMSHR, GoodTargets, Ex, inService
  <2>3. d \in busy
    BY <1>4, <2>1, <2>2, Zenon DEF Ex
  <2>4. i \in mine(d)
    BY <1>2, <1>4, <2>1, Zenon
  <2> QED BY <2>3, <2>4, Zenon
<1> HIDE DEF busy, mine
<1>5. ASSUME NEW x, x \in Promises(c)
      PROVE  \E d \in Caches : \E i, t : Promised(d, i, t) /\ t.from = c /\ x = <<d, i>>
  <2>1. PICK d \in busy : \E i \in mine(d) : x = <<d, i>>
    BY <1>1, <1>5, Zenon
  <2>2. PICK i \in mine(d) : x = <<d, i>>
    BY <2>1, Zenon
  <2> QED BY <1>3, <2>2, Zenon
<1>6. ASSUME NEW d \in Caches, NEW i, NEW t, Promised(d, i, t), t.from = c
      PROVE  <<d, i>> \in Promises(c)
  BY <1>1, <1>4, <1>6, Zenon
<1> QED BY <1>5, <1>6, Zenon

LEMMA OneSupplierFact ==
  ASSUME IInv, CardFacts
  PROVE  OneSupplier
<1> SUFFICES ASSUME NEW c \in Caches
             PROVE  Cardinality({r \in resp : r.to = c}) + Cardinality(Promises(c))
                      = IF inService(c) THEN 1 ELSE 0
  BY Zenon DEF OneSupplier
<1> DEFINE R == {r \in resp : r.to = c}
           P == Promises(c)
<1>1. \A x : x \in P <=> \E d \in Caches : \E i, t :
                           /\ Promised(d, i, t) /\ t.from = c /\ x = <<d, i>>
  BY PromisesFact, Zenon
<1> HIDE DEF P
<1>2. ASSUME NEW d \in Caches, NEW i, NEW t, Promised(d, i, t), t.from = c
      PROVE  inService(c) /\ R = {}
  <2>1. GoodPromise(d, t)
    BY <1>2, Zenon DEF IInv, PromiseInv
  <2> QED BY <1>2, <2>1, Zenon DEF GoodPromise
<1>3. \A r \in R : inService(c) /\ R = {r}
  BY Zenon DEF IInv, AnswerInv, GoodAnswer
<1> HIDE DEF R
<1>4. CASE ~inService(c)
  <2>1. R = {}
    BY <1>3, <1>4, Zenon
  <2>2. P = {}
    BY <1>1, <1>2, <1>4, Zenon
  <2>3. Cardinality(R) = 0 /\ Cardinality(P) = 0
    BY <2>1, <2>2, Zenon DEF CardFacts
  <2>4. Cardinality(R) + Cardinality(P) = 0
    BY <2>3
  <2> QED BY <1>4, <2>4, Zenon DEF R, P
<1>5. CASE inService(c)
  <2>1. CASE R # {}
    <3>1. PICK r \in R : R = {r}
      BY <1>3, <2>1, Zenon
    <3>2. P = {}
      BY <1>1, <1>2, <2>1, Zenon
    <3>3. Cardinality(R) = 1 /\ Cardinality(P) = 0
      BY <3>1, <3>2, Zenon DEF CardFacts
    <3>4. Cardinality(R) + Cardinality(P) = 1
      BY <3>3
    <3> QED BY <1>5, <3>4, Zenon DEF R, P
  <2>2. CASE R = {}
    <3>1. \A r \in resp : r.to # c
      BY <2>2, Zenon DEF R
    <3>2. PICK d \in Caches : Owes(d, c)
      BY <1>5, <3>1, Zenon DEF IInv, SupplierInv
    <3>3. PICK i, t : Promised(d, i, t) /\ t.from = c
      BY <3>2, Zenon DEF Owes
    <3>4. <<d, i>> \in P
      BY <1>1, <3>3, Zenon
    <3>5. ASSUME NEW x \in P PROVE x = <<d, i>>
      <4>1. PICK e \in Caches : \E j, u : Promised(e, j, u) /\ u.from = c /\ x = <<e, j>>
        BY <1>1, <3>5, Zenon
      <4>2. PICK j, u : Promised(e, j, u) /\ u.from = c /\ x = <<e, j>>
        BY <4>1, Zenon
      <4>3. e = d /\ j = i
        BY <3>3, <4>2, Zenon DEF IInv, PromiseInv
      <4> QED BY <4>2, <4>3, Zenon
    <3>6. P = {<<d, i>>}
      BY <3>4, <3>5, Zenon
    <3>7. Cardinality(R) = 0 /\ Cardinality(P) = 1
      BY <2>2, <3>6, Zenon DEF CardFacts
    <3>8. Cardinality(R) + Cardinality(P) = 1
      BY <3>7
    <3> QED BY <1>5, <3>8, Zenon DEF R, P
  <2> QED BY <2>1, <2>2, Zenon
<1> QED BY <1>4, <1>5, Zenon

LEMMA AssertionsFact ==
  ASSUME IInv
  PROVE  AssertionsHold
<1>1. ASSUME NEW c \in Caches
      PROVE  /\ isValid(blk[c]) /\ mshr[c] = None => isReadable(blk[c])
             /\ isValid(blk[c]) /\ mshr[c] # None => ~isWritable(blk[c]) /\ Exclusive(mshr[c].targets)
             /\ wb[c] # None => ~isValid(blk[c]) /\ ~inService(c)
  BY Zenon DEF IInv, CopyInv, GoodCopy
<1>2. ASSUME NEW c \in Caches, NEW r \in resp, r.to = c, r.cmd = "UpgradeReq"
      PROVE  isValid(blk[c])
  BY <1>2, Zenon DEF IInv, AnswerInv, GoodAnswer
<1> QED BY <1>1, <1>2, Zenon DEF AssertionsHold

(* The owner of the block is a cache, or an answer when no cache is.       *)
LEMMA HandsFact ==
  ASSUME IInv, NEW r \in resp, Hands(r), NEW q, Chain(q)
  PROVE  r.to = q[1] /\ \A c \in Caches : ~Owns(c)
<1>1. r.to \in Caches
  <2>1. r \in Responses
    BY Zenon DEF IInv, TypeOK
  <2> QED BY <2>1 DEF Responses
<1>2. GoodAnswer(r.to, r)
  BY Zenon DEF IInv, AnswerInv
<1>3. Ex(r.to) /\ ~isDirty(blk[r.to])
  BY <1>2, Zenon DEF GoodAnswer, Ex, Rd
<1>4. q # << >> /\ q[1] = r.to
  BY <1>1, <1>3, HeadAnswered, Zenon
<1>5. ASSUME NEW c \in Caches, Owns(c) PROVE FALSE
  <2>1. wb[c] = None /\ (isValid(blk[c]) => c = q[1])
    BY <1>4, Zenon DEF Chain
  <2>2. isValid(blk[c])
    BY <1>5, <2>1, DirtyIsValid, Zenon
  <2> QED BY <1>3, <1>4, <1>5, <2>1, <2>2, Zenon DEF Owns
<1> QED BY <1>4, <1>5, Zenon

LEMMA CopiesFact ==
  ASSUME IInv, CardFacts
  PROVE  CopiesCurrent
<1>1. PICK q : Chain(q)
  BY Zenon DEF IInv, ChainInv
<1>2. \A c \in Caches : /\ isValid(blk[c]) => blk[c].data = latest
                        /\ wb[c] # None => wb[c] = latest /\ ~isValid(blk[c])
  BY Zenon DEF IInv, CopyInv, GoodCopy
<1>3. ASSUME NEW x \in Owners
      PROVE  \/ \E c \in Caches : isDirty(blk[c]) /\ x = <<"copy", c>>
             \/ \E c \in Caches : wb[c] # None /\ x = <<"writeback", c>>
             \/ \E r \in resp : Hands(r) /\ x = <<"answer", r.to>>
  BY <1>3, Zenon DEF Owners, Hands
<1>4. ASSUME Owners = {} PROVE mem = latest
  <2>1. \A c \in Caches : ~Owns(c)
    BY <1>4, Zenon DEF Owners, Owns
  <2>2. \A r \in resp : ~Hands(r)
    BY <1>4, Zenon DEF Owners, Hands
  <2> QED BY <2>1, <2>2, Zenon DEF IInv, OwnerInv
<1>5. ASSUME NEW c \in Caches, isDirty(blk[c]) PROVE Owns(c) /\ wb[c] = None
  <2>1. isValid(blk[c]) \/ wb[c] # None
    BY <1>5, DirtyIsValid, Zenon DEF Owns
  <2>2. isValid(blk[c])
    BY <1>5 DEF IInv, CopyInv, GoodCopy, isDirty
  <2> QED BY <1>2, <1>5, <2>2, Zenon DEF Owns
<1>6. ASSUME NEW c \in Caches, wb[c] # None PROVE Owns(c)
  BY <1>6, Zenon DEF Owns
<1>7. \A c, d \in Caches : Owns(c) /\ Owns(d) => c = d
  BY Zenon DEF IInv, OwnerInv
<1>8. \A r \in resp : Hands(r) => r.to = q[1] /\ \A c \in Caches : ~Owns(c)
  BY <1>1, HandsFact, Zenon
<1>9. ASSUME NEW x \in Owners, NEW y \in Owners PROVE x = y
  <2>1. CASE \E c \in Caches : isDirty(blk[c]) /\ x = <<"copy", c>>
    <3>1. PICK c \in Caches : isDirty(blk[c]) /\ x = <<"copy", c>>
      BY <2>1, Zenon
    <3>2. Owns(c) /\ wb[c] = None
      BY <1>5, <3>1, Zenon
    <3>3. (\A d \in Caches : wb[d] = None) /\ \A r \in resp : ~Hands(r)
      BY <1>6, <1>7, <1>8, <3>2, Zenon
    <3>4. PICK d \in Caches : isDirty(blk[d]) /\ y = <<"copy", d>>
      BY <1>3, <3>3, Zenon
    <3> QED BY <1>5, <1>7, <3>1, <3>4, Zenon
  <2>2. CASE \E c \in Caches : wb[c] # None /\ x = <<"writeback", c>>
    <3>1. PICK c \in Caches : wb[c] # None /\ x = <<"writeback", c>>
      BY <2>2, Zenon
    <3>2. PICK d \in Caches : wb[d] # None /\ y = <<"writeback", d>>
      BY <1>3, <1>5, <1>6, <1>7, <1>8, <3>1, Zenon
    <3> QED BY <1>6, <1>7, <3>1, <3>2, Zenon
  <2>3. CASE \E r \in resp : Hands(r) /\ x = <<"answer", r.to>>
    <3>1. PICK r \in resp : Hands(r) /\ x = <<"answer", r.to>>
      BY <2>3, Zenon
    <3>2. PICK s \in resp : Hands(s) /\ y = <<"answer", s.to>>
      BY <1>3, <1>5, <1>6, <1>8, <3>1, Zenon
    <3> QED BY <1>8, <3>1, <3>2, Zenon
  <2> QED BY <1>3, <2>1, <2>2, <2>3, Zenon
<1>10. Cardinality(Owners) <= 1
  <2>1. CASE Owners = {}
    <3>1. Cardinality(Owners) = 0
      BY <2>1, Zenon DEF CardFacts
    <3> QED BY <3>1
  <2>2. CASE Owners # {}
    <3>1. PICK x \in Owners : TRUE
      BY <2>2, Zenon
    <3>2. Owners = {x}
      BY <1>9, <3>1, Zenon
    <3>3. Cardinality(Owners) = 1
      BY <3>2, Zenon DEF CardFacts
    <3> QED BY <3>3
  <2> QED BY <2>1, <2>2, Zenon
<1>11. ASSUME NEW c \in Caches, NEW d \in Caches, c # d, isWritable(blk[c])
       PROVE  ~isValid(blk[d]) /\ wb[d] = None
  <2>1. Alone(c) /\ d \in Caches \ {c}
    BY <1>11, Zenon DEF IInv, WritableInv
  <2> QED BY <2>1, Zenon DEF Alone
<1> QED BY <1>2, <1>4, <1>10, <1>11, Zenon DEF CopiesCurrent

-----------------------------------------------------------------------------
(* The theorems.  The least number of a set and the cardinality of small   *)
(* sets come from the library.                                             *)

INSTANCE WellFoundedInduction
INSTANCE FiniteSetTheorems

LEMMA LeastFact == LeastExists
<1> SUFFICES ASSUME NEW T \in SUBSET Nat, T # {}
             PROVE  \E x \in T : \A y \in T : x <= y
  BY Zenon DEF LeastExists
<1>1. IsWellFoundedOn(OpToRel(<, Nat), Nat)
  BY NatLessThanWellFounded, Zenon
<1>2. PICK x \in T : \A y \in T : ~(<<y, x>> \in OpToRel(<, Nat))
  BY <1>1, WFMin, Zenon
<1>3. \A y \in T : ~(y < x)
  BY <1>2, Zenon DEF OpToRel
<1> QED BY <1>3

LEMMA CardFact == CardFacts
BY FS_EmptySet, FS_Singleton, Zenon DEF CardFacts

(* The inductive invariant.                                                *)
LEMMA IInvHolds ==
  ASSUME ~LateWrites
  PROVE  Spec => []IInv
<1>1. Init => IInv
  BY InitStep, Zenon
<1>2. IInv /\ [Next]_vars => IInv'
  BY NextStep, LeastFact, Zenon
<1> QED BY <1>1, <1>2, PTL DEF Spec

(* The assertions of timingAccess, getBusPacket, handleFill and            *)
(* allocateBlock hold, and whatever the order of the requests on the bus,  *)
(* a request that handleSnoop or snoopTiming inhibits has exactly one      *)
(* answer, on its way or kept as a target of one MSHR: for any number of   *)
(* caches, accesses and targets, unless a write joins an MSHR behind a     *)
(* snooped read.                                                           *)
THEOREM CoherenceSafe ==
  ASSUME ~LateWrites
  PROVE  Spec => []CoherenceInv
<1>1. IInv => CoherenceInv
  BY OneSupplierFact, AssertionsFact, CardFact, Zenon DEF CoherenceInv, IInv
<1> QED BY <1>1, IInvHolds, PTL

(* Every valid copy and every writeback holds all writes so far, and so    *)
(* does memory when handleSnoop has not left a dirty copy elsewhere; the   *)
(* dirty copy is in one place, and a copy that satisfyCpuSideRequest may   *)
(* write is the only one.                                                  *)
THEOREM CoherentCopies ==
  ASSUME ~LateWrites
  PROVE  Spec => []CopiesCurrent
<1>1. IInv => CopiesCurrent
  BY CopiesFact, CardFact, Zenon
<1> QED BY <1>1, IInvHolds, PTL

(* No processor sees the block go back, whether a hit, a fill, or an       *)
(* answer that handleResponse drops again serves it.                       *)
THEOREM CoherentReads ==
  ASSUME ~LateWrites
  PROVE  Spec => ReadsForward
<1>1. IInv /\ [Next]_vars => [\A c \in Caches : seen'[c] >= seen[c]]_vars
  BY NextStep, LeastFact, Zenon DEF Forward
<1> QED BY <1>1, IInvHolds, PTL DEF Spec, ReadsForward
=============================================================================

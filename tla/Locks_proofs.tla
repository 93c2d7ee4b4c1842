----------------------------- MODULE Locks_proofs -----------------------------
(***************************************************************************)
(* The two places that keep load-locks.                                    *)
(*                                                                         *)
(* Memory's list of locked addresses, for any number of contexts, any      *)
(* addresses and any granule: one record per context, no lock on a stored  *)
(* location, and the refinement of LLSC.                                   *)
(*                                                                         *)
(* The first-level cache, for every associativity, set of blocks and set   *)
(* of contexts: a conditional store that succeeds is atomic with its load, *)
(* until a locked block is swapped or loses its frame.  It follows from    *)
(* LocksAreOfBlock, which is inductive together with the type of the       *)
(* frames and the fact that a block has one frame.                         *)
(***************************************************************************)
EXTENDS MCLocks, Sequences, TLAPS

Inv == TypeOK /\ OneRecord

-----------------------------------------------------------------------------
\* trackLoadLocked keeps one record per context, the new one
LEMMA TrackStep ==
  ASSUME Inv, NEW c \in Contexts, NEW a \in Addrs, trackLoadLocked(c, a)
  PROVE  /\ lockedAddrList' =
              {r \in lockedAddrList : r.contextId # c}
                 \cup {[addr |-> mask(a), contextId |-> c]}
         /\ lockedAddrList' \subseteq LockedAddr
         /\ OneRecord'
<1> DEFINE old == {r \in lockedAddrList : r.contextId = c}
           new == [addr |-> mask(a), contextId |-> c]
<1>1. new \in LockedAddr /\ new.contextId = c
  BY Zenon DEF LockedAddr
<1>2. lockedAddrList' = {r \in lockedAddrList : r.contextId # c} \cup {new}
  <2>1. CASE old = {}
    <3>1. \A r \in lockedAddrList : r.contextId # c
      BY <2>1, Zenon
    <3> QED BY <2>1, <3>1, Zenon DEF trackLoadLocked
  <2>2. CASE old # {}
    <3> DEFINE o == CHOOSE r \in old : TRUE
    <3>1. o \in old
      BY <2>2, Zenon
    <3>2. lockedAddrList' = (lockedAddrList \ {o}) \cup {new}
      BY <2>2, Zenon DEF trackLoadLocked
    <3> HIDE DEF o
    <3>3. \A r \in lockedAddrList : r.contextId = c <=> r = o
      BY <3>1, Zenon DEF Inv, OneRecord
    <3> QED BY <3>2, <3>3, Zenon
  <2> QED BY <2>1, <2>2, Zenon
<1>3. lockedAddrList' \subseteq LockedAddr
  BY <1>1, <1>2, Zenon DEF Inv, TypeOK
<1>4. OneRecord'
  <2> HIDE DEF new
  <2> QED BY <1>1, <1>2, Zenon DEF Inv, OneRecord
<1> QED BY <1>2, <1>3, <1>4, Zenon

LEMMA InitInv == Init => Inv
BY Zenon DEF Init, Inv, TypeOK, OneRecord

LEMMA NextInv == Inv /\ [Next]_vars => Inv'
<1> SUFFICES ASSUME Inv, [Next]_vars PROVE Inv'
  OBVIOUS
<1>1. ASSUME NEW c \in Contexts, NEW a \in Addrs, ReadReq(c, a)
      PROVE  Inv'
  BY <1>1, Zenon DEF Inv, TypeOK, OneRecord, ReadReq, Answer
<1>2. ASSUME NEW c \in Contexts, NEW a \in Addrs, LoadLockedReq(c, a)
      PROVE  Inv'
  <2>1. lockedAddrList' \subseteq LockedAddr /\ OneRecord'
    BY <1>2, TrackStep, Zenon DEF LoadLockedReq
  <2> QED BY <1>2, <2>1, Zenon DEF Inv, TypeOK, LoadLockedReq, Answer
<1>3. ASSUME NEW c \in Contexts, NEW a \in Addrs, NEW v \in Values,
             WriteReq(c, a, v) \/ StoreCondReq(c, a, v)
      PROVE  Inv'
  <2>1. lockedAddrList' \subseteq lockedAddrList
    BY <1>3, Zenon DEF WriteReq, StoreCondReq, writeOK
  <2>2. pmem' \in [Addrs -> Values]
    BY <1>3, Zenon DEF WriteReq, StoreCondReq, Inv, TypeOK
  <2>3. resp' \in Answer
    <3>1. [context |-> c, val |-> v, ok |-> TRUE] \in Answer
      BY Zenon DEF Answer
    <3>2. [context |-> c, val |-> v, ok |-> FALSE] \in Answer
      BY Zenon DEF Answer
    <3> QED BY <1>3, <3>1, <3>2, Zenon DEF WriteReq, StoreCondReq
  <2> QED BY <2>1, <2>2, <2>3, Zenon DEF Inv, TypeOK, OneRecord
<1>4. ASSUME NEW c \in Contexts, NEW a \in Addrs, NEW v \in Values,
             NEW cond \in BOOLEAN, NEW e \in Values, SwapReq(c, a, v, cond, e)
      PROVE  Inv'
  BY <1>4, Zenon DEF SwapReq, Inv, TypeOK, OneRecord, Answer
<1>5. ASSUME NEW a \in Addrs, NEW v \in Values, FunctionalWrite(a, v)
      PROVE  Inv'
  BY <1>5, Zenon DEF FunctionalWrite, Inv, TypeOK, OneRecord
<1>6. CASE Restore
  BY <1>6, Zenon DEF Restore, Inv, TypeOK, OneRecord
<1>7. CASE UNCHANGED vars
  BY <1>7, Zenon DEF vars, Inv, TypeOK, OneRecord
<1> QED BY <1>1, <1>2, <1>3, <1>4, <1>5, <1>6, <1>7, Zenon DEF Next, BypassingWrite

LEMMA SpecInv == Spec => []Inv
BY InitInv, NextInv, PTL DEF Spec

\* The memory's state is well-formed: every record is of a masked address.
THEOREM MemoryTypeOK == Spec => []TypeOK
<1>1. Inv => TypeOK
  BY Zenon DEF Inv
<1> QED BY <1>1, SpecInv, PTL

\* A context never has two records in lockedAddrList (trackLoadLocked).
THEOREM MemoryOneRecord == Spec => []OneRecord
<1>1. Inv => OneRecord
  BY Zenon DEF Inv
<1> QED BY <1>1, SpecInv, PTL

-----------------------------------------------------------------------------
\* A step that writes to b without a swap or a functional write
LEMMA WriteStep ==
  ASSUME Inv, Next, NEW b \in Addrs, pmem'[b] # pmem[b]
  PROVE  BypassingWrite \/ \A r \in lockedAddrList' : r.addr # mask(b)
<1> SUFFICES ASSUME ~BypassingWrite PROVE \A r \in lockedAddrList' : r.addr # mask(b)
  OBVIOUS
<1>1. PICK c \in Contexts, a \in Addrs, v \in Values :
         WriteReq(c, a, v) \/ StoreCondReq(c, a, v)
  BY Zenon DEF Next, ReadReq, LoadLockedReq, Restore
<1>2. a = b
  BY <1>1, Zenon DEF WriteReq, StoreCondReq, Inv, TypeOK
<1> QED BY <1>1, <1>2, Zenon DEF WriteReq, StoreCondReq, writeOK

\* No store leaves a lock on what it has written ("this method must be called on
\* *all* stores"); only swaps and functional writes may.
THEOREM MemoryStoresClearLocks == Spec => StoresClearLocks
<1>1. Inv /\ [Next]_vars =>
        [\A a \in Addrs : pmem'[a] # pmem[a] =>
            BypassingWrite \/ \A r \in lockedAddrList' : r.addr # mask(a)]_vars
  <2> SUFFICES ASSUME Inv, Next, NEW a \in Addrs, pmem'[a] # pmem[a]
               PROVE  BypassingWrite \/ \A r \in lockedAddrList' : r.addr # mask(a)
    OBVIOUS
  <2> QED BY WriteStep, Zenon
<1> QED BY <1>1, SpecInv, PTL DEF Spec, StoresClearLocks

-----------------------------------------------------------------------------
(* The refinement.  links is the abstract state; the locations it names    *)
(* are those of the records.                                               *)

LEMMA LinksFact ==
  ASSUME NEW c \in Contexts
  PROVE  \A g : g \in links[c] <=>
             \E r \in lockedAddrList : r.contextId = c /\ r.addr = g
BY Zenon DEF links

LEMMA LinksFactNext ==
  ASSUME NEW c \in Contexts
  PROVE  \A g : g \in links'[c] <=>
             \E r \in lockedAddrList' : r.contextId = c /\ r.addr = g
BY Zenon DEF links

LEMMA LinksType == Inv => links \in [Contexts -> SUBSET Abstract!Granules]
<1> SUFFICES ASSUME Inv, NEW c \in Contexts, NEW g \in links[c]
             PROVE  g \in Abstract!Granules
  BY Zenon DEF links
<1>0. \E r \in lockedAddrList : r.contextId = c /\ r.addr = g
  BY LinksFact, Zenon
<1>1. PICK r \in lockedAddrList : r.addr = g
  BY <1>0, Zenon
<1>2. r \in LockedAddr
  BY Zenon DEF Inv, TypeOK
<1> QED BY <1>1, <1>2, Zenon DEF LockedAddr, Abstract!Granules

LEMMA LinksTypeNext == Inv' => links' \in [Contexts -> SUBSET Abstract!Granules]
<1> SUFFICES ASSUME Inv', NEW c \in Contexts, NEW g \in links'[c]
             PROVE  g \in Abstract!Granules
  BY Zenon DEF links
<1>0. \E r \in lockedAddrList' : r.contextId = c /\ r.addr = g
  BY LinksFactNext, Zenon
<1>1. PICK r \in lockedAddrList' : r.addr = g
  BY <1>0, Zenon
<1>2. r \in LockedAddr
  BY Zenon DEF Inv, TypeOK
<1> QED BY <1>1, <1>2, Zenon DEF LockedAddr, Abstract!Granules

\* Records that go are links that go
LEMMA FewerRecords ==
  ASSUME Inv', lockedAddrList' \subseteq lockedAddrList
  PROVE  Abstract!Fewer
<1>1. \A c \in Contexts : links'[c] \subseteq links[c]
  BY LinksFact, LinksFactNext
<1> QED BY <1>1, LinksTypeNext, Zenon DEF Abstract!Fewer

\* What writeOK does to the links of the location
LEMMA WriteOKStep ==
  ASSUME Inv', NEW c \in Contexts, NEW a \in Addrs, NEW isLLSC, writeOK(c, a, isLLSC)
  PROVE  /\ Abstract!Fewer
         /\ \A d \in Contexts : mask(a) \notin links'[d]
<1>1. Abstract!Fewer
  BY FewerRecords, Zenon DEF writeOK
<1>2. \A d \in Contexts : mask(a) \notin links'[d]
  BY LinksFactNext, Zenon DEF writeOK
<1> QED BY <1>1, <1>2, Zenon

LEMMA InitRefines == Init => Abstract!Init
BY Zenon DEF Init, Abstract!Init, Abstract!Answer, Answer, links

LEMMA NextRefines ==
  ASSUME Inv, Inv', [Next]_vars
  PROVE  [Abstract!Next]_(Abstract!vars)
<1>1. ASSUME NEW c \in Contexts, NEW a \in Addrs, ReadReq(c, a)
      PROVE  Abstract!Load(c, a)
  <2>1. Abstract!Fewer
    BY <1>1, FewerRecords, Zenon DEF ReadReq
  <2> QED BY <1>1, <2>1, Zenon DEF ReadReq, Abstract!Load
<1>2. ASSUME NEW c \in Contexts, NEW a \in Addrs, LoadLockedReq(c, a)
      PROVE  Abstract!LoadLocked(c, a)
  <2>1. lockedAddrList' = {r \in lockedAddrList : r.contextId # c}
                             \cup {[addr |-> mask(a), contextId |-> c]}
    BY <1>2, TrackStep, Zenon DEF LoadLockedReq
  <2>2. ASSUME NEW d \in Contexts
        PROVE  links'[d] \subseteq links[d] \cup (IF d = c THEN {mask(a)} ELSE {})
    <3>1. SUFFICES ASSUME NEW g \in links'[d]
                   PROVE  g \in links[d] \/ (d = c /\ g = mask(a))
      OBVIOUS
    <3>2. PICK r \in lockedAddrList' : r.contextId = d /\ r.addr = g
      BY LinksFactNext, Zenon
    <3>3. CASE r \in lockedAddrList
      BY <3>2, <3>3, LinksFact, Zenon
    <3>4. CASE r = [addr |-> mask(a), contextId |-> c]
      BY <3>2, <3>4, Zenon
    <3> QED BY <2>1, <3>3, <3>4, Zenon
  <2> QED BY <1>2, <2>2, LinksTypeNext, Zenon DEF LoadLockedReq, Abstract!LoadLocked
<1>3. ASSUME NEW c \in Contexts, NEW a \in Addrs, NEW v \in Values, WriteReq(c, a, v)
      PROVE  Abstract!Store(c, a, v)
  BY <1>3, WriteOKStep, Zenon DEF WriteReq, Abstract!Store, Abstract!Write
<1>4. ASSUME NEW c \in Contexts, NEW a \in Addrs, NEW v \in Values, StoreCondReq(c, a, v)
      PROVE  Abstract!Succeed(c, a, v) \/ Abstract!Fail(c, a, v)
  <2>1. Abstract!Fewer /\ \A d \in Contexts : mask(a) \notin links'[d]
    BY <1>4, WriteOKStep, Zenon DEF StoreCondReq
  <2>2. CASE Success(c, a, TRUE)
    <3>1. mask(a) \in links[c]
      BY <2>2, LinksFact, Zenon DEF Success
    <3>2. pmem' = [pmem EXCEPT ![a] = v] /\ resp' = [context |-> c, val |-> v, ok |-> TRUE]
      BY <1>4, <2>2, Zenon DEF StoreCondReq
    <3> QED BY <2>1, <3>1, <3>2, Zenon DEF Abstract!Succeed, Abstract!Write
  <2>3. CASE ~Success(c, a, TRUE)
    BY <1>4, <2>1, <2>3, Zenon DEF StoreCondReq, Abstract!Fail
  <2> QED BY <2>2, <2>3, Zenon
<1>5. CASE Restore
  <2>1. Abstract!Fewer
    BY <1>5, FewerRecords, Zenon DEF Restore
  <2>2. Abstract!Lose
    BY <1>5, <2>1, Zenon DEF Restore, Abstract!Lose
  <2> QED BY <2>2, Zenon DEF Abstract!Next
<1>6. CASE UNCHANGED vars
  BY <1>6, Zenon DEF vars, Abstract!vars, links
<1>7. ASSUME NEW c \in Contexts, NEW a \in Addrs, NEW v \in Values,
             NEW cond \in BOOLEAN, NEW e \in Values, SwapReq(c, a, v, cond, e)
      PROVE  Abstract!Load(c, a) \/ Abstract!Unnoticed(a, v)
  <2>1. Abstract!Fewer
    BY <1>7, FewerRecords, Zenon DEF SwapReq
  <2>2. CASE cond => pmem[a] = e
    <3>1. pmem' = [pmem EXCEPT ![a] = v] /\ resp' = [context |-> c, val |-> pmem[a], ok |-> TRUE]
      BY <1>7, <2>2, Zenon DEF SwapReq
    <3> QED BY <2>1, <3>1, Zenon DEF Abstract!Unnoticed
  <2>3. CASE ~(cond => pmem[a] = e)
    <3>1. pmem' = pmem /\ resp' = [context |-> c, val |-> pmem[a], ok |-> TRUE]
      BY <1>7, <2>3, Zenon DEF SwapReq
    <3> QED BY <2>1, <3>1, Zenon DEF Abstract!Load
  <2> QED BY <2>2, <2>3, Zenon
<1>8. ASSUME NEW a \in Addrs, NEW v \in Values, FunctionalWrite(a, v)
      PROVE  Abstract!Unnoticed(a, v)
  <2>1. Abstract!Fewer
    BY <1>8, FewerRecords, Zenon DEF FunctionalWrite
  <2> QED BY <1>8, <2>1, Zenon DEF FunctionalWrite, Abstract!Unnoticed
<1>9. CASE BypassingWrite
  <2>1. \E c \in Contexts, a \in Addrs, v \in Values : Abstract!Load(c, a) \/ Abstract!Unnoticed(a, v)
    BY <1>7, <1>8, <1>9 DEF BypassingWrite, Inv, TypeOK, Answer
  <2> QED BY <2>1, Zenon DEF Abstract!Next
<1>10. ASSUME NEW c \in Contexts, NEW a \in Addrs,
              \/ Abstract!Load(c, a) \/ Abstract!LoadLocked(c, a)
              \/ \E v \in Values : \/ Abstract!Store(c, a, v) \/ Abstract!Succeed(c, a, v)
                                  \/ Abstract!Fail(c, a, v)
       PROVE  Abstract!Next
  BY <1>10, Zenon DEF Abstract!Next
<1> QED
  BY <1>1, <1>2, <1>3, <1>4, <1>5, <1>6, <1>9, <1>10, Zenon DEF Next

\* The memory implements load-locked and store-conditional, for any contexts,
\* addresses and granule: a conditional store succeeds only if no store has
\* written to its location since its context loaded it locked.
THEOREM MemoryImplementsLLSC == Spec => ImplementsLLSC
<1>1. Inv /\ Inv' /\ [Next]_vars => [Abstract!Next]_(Abstract!vars)
  BY NextRefines, Zenon
<1> QED BY <1>1, InitRefines, SpecInv, PTL DEF Spec, ImplementsLLSC, Abstract!Spec

-----------------------------------------------------------------------------
\* A set has frames, and None is no block
Geometry == assoc \in Nat \ {0} /\ None \notin Blocks

Frames == [tag : Blocks \cup {None}, valid : BOOLEAN, lockList : SUBSET Contexts]

\* OneFrame without cardinalities
Distinct(s) ==
  \A i, j \in 1..assoc : s[i].valid /\ s[j].valid /\ s[i].tag = s[j].tag => i = j

CacheIInv ==
  /\ set \in [1..assoc -> Frames]
  /\ loaded \in [Contexts -> SUBSET Blocks]
  /\ Distinct(set)
  /\ Cache!LocksAreOfBlock

\* A function on 1..assoc is a sequence of length assoc.
LEMMA LengthFact ==
  ASSUME Geometry, NEW S, NEW s \in [1..assoc -> S]
  PROVE  Len(s) = assoc
BY DEF Geometry

\* moveToHead permutes the frames and puts frame k first.
LEMMA MoveFact ==
  ASSUME Geometry, NEW s \in [1..assoc -> Frames], NEW k \in 1..assoc
  PROVE  /\ Cache!moveToHead(s, k) \in [1..assoc -> Frames]
         /\ Cache!moveToHead(s, k)[1] = s[k]
         /\ \A i \in 1..assoc : i # 1 =>
               \E j \in 1..assoc : j # k /\ Cache!moveToHead(s, k)[i] = s[j]
         /\ Distinct(s) => Distinct(Cache!moveToHead(s, k))
<1>1. Len(s) = assoc
  BY LengthFact, Zenon
<1> DEFINE from(i) == IF i = 1 THEN k ELSE IF i <= k THEN i - 1 ELSE i
           t == Cache!moveToHead(s, k)
<1>2. \A i \in 1..assoc : from(i) \in 1..assoc /\ (i # 1 => from(i) # k)
  BY DEF Geometry
<1>3. \A i, j \in 1..assoc : from(i) = from(j) => i = j
  BY DEF Geometry
<1>4. t = [i \in 1..assoc |-> s[from(i)]]
  BY <1>1, Zenon DEF Cache!moveToHead
<1>5. 1 \in 1..assoc /\ from(1) = k
  BY DEF Geometry
<1> HIDE DEF from, t
<1>6. t \in [1..assoc -> Frames] /\ \A i \in 1..assoc : t[i] = s[from(i)]
  BY <1>2, <1>4, Zenon
<1>7. Distinct(s) => Distinct(t)
  <2> SUFFICES ASSUME Distinct(s), NEW i \in 1..assoc, NEW j \in 1..assoc,
                      t[i].valid, t[j].valid, t[i].tag = t[j].tag
               PROVE  i = j
    BY Zenon DEF Distinct
  <2>1. from(i) = from(j)
    <3>1. /\ from(i) \in 1..assoc /\ t[i] = s[from(i)]
          /\ from(j) \in 1..assoc /\ t[j] = s[from(j)]
      BY <1>2, <1>6, Zenon
    <3>2. /\ s[from(i)].valid /\ s[from(j)].valid
          /\ s[from(i)].tag = s[from(j)].tag
      BY <3>1, Zenon
    <3> QED BY <3>1, <3>2, Zenon DEF Distinct
  <2> QED BY <1>3, <2>1, Zenon
<1>8. t[1] = s[k] /\ \A i \in 1..assoc : i # 1 => \E j \in 1..assoc : j # k /\ t[i] = s[j]
  BY <1>2, <1>5, <1>6, Zenon
<1> QED BY <1>6, <1>7, <1>8, Zenon DEF t

\* After an access the block is in the first frame.  The lockList is the one of
\* the block if it was present, otherwise the one of the victim; the other
\* frames are old ones, none of them the block's.
LEMMA AccessedFact ==
  ASSUME Geometry, CacheIInv, NEW b \in Blocks
  PROVE  LET s == Cache!Accessed(b)
         IN  /\ s \in [1..assoc -> Frames] /\ Distinct(s)
             /\ s[1].valid /\ s[1].tag = b
             /\ \A i \in 1..assoc : i # 1 => \E j \in 1..assoc : s[i] = set[j]
             /\ Cache!Holds(set, b) # {} =>
                   \E j \in 1..assoc : set[j].valid /\ set[j].tag = b /\ s[1] = set[j]
             /\ Cache!Holds(set, b) = {} => s[1].lockList = set[assoc].lockList
<1>1. set \in [1..assoc -> Frames] /\ Distinct(set) /\ Len(set) = assoc
  BY LengthFact, Zenon DEF CacheIInv
<1>2. Cache!Holds(set, b) = {i \in 1..assoc : set[i].valid /\ set[i].tag = b}
  BY <1>1, Zenon DEF Cache!Holds
<1>3. CASE Cache!Holds(set, b) # {}
  <2>1. Cache!findBlk(set, b) \in Cache!Holds(set, b)
    BY <1>3, Zenon DEF Cache!findBlk
  <2>2. PICK k \in 1..assoc : set[k].valid /\ set[k].tag = b /\ k = Cache!findBlk(set, b)
    BY <1>2, <2>1, Zenon
  <2>3. Cache!Accessed(b) = Cache!moveToHead(set, k)
    BY <1>3, <2>2, Zenon DEF Cache!Accessed, Cache!accessBlock
  <2>4. /\ Cache!moveToHead(set, k) \in [1..assoc -> Frames] /\ Distinct(Cache!moveToHead(set, k))
        /\ Cache!moveToHead(set, k)[1] = set[k]
        /\ \A i \in 1..assoc : i # 1 =>
              \E j \in 1..assoc : j # k /\ Cache!moveToHead(set, k)[i] = set[j]
    BY <1>1, MoveFact
  <2> QED BY <1>3, <2>2, <2>3, <2>4, Zenon
<1>4. CASE Cache!Holds(set, b) = {}
  <2> DEFINE v == Cache!Frame(b, TRUE, set[assoc].lockList)
             t == [set EXCEPT ![assoc] = v]
  <2>1. assoc \in 1..assoc
    BY DEF Geometry
  <2>2. v \in Frames /\ v.valid /\ v.tag = b /\ v.lockList = set[assoc].lockList
    BY <1>1, <2>1, Zenon DEF Cache!Frame, Frames
  <2>3. /\ t \in [1..assoc -> Frames] /\ t[assoc] = v
        /\ \A j \in 1..assoc : j # assoc => t[j] = set[j]
    BY <1>1, <2>1, <2>2, Zenon
  <2>4. Cache!Accessed(b) = Cache!moveToHead(t, assoc)
    BY <1>1, <1>4, Zenon DEF Cache!Accessed, Cache!insertBlock, Cache!findVictim
  <2> HIDE DEF v, t
  <2>5. \A j \in 1..assoc : ~(set[j].valid /\ set[j].tag = b)
    BY <1>2, <1>4, Zenon
  <2>6. Distinct(t)
    BY <1>1, <2>2, <2>3, <2>5 DEF Distinct
  <2>7. /\ Cache!moveToHead(t, assoc) \in [1..assoc -> Frames]
        /\ Distinct(Cache!moveToHead(t, assoc))
        /\ Cache!moveToHead(t, assoc)[1] = v
        /\ \A i \in 1..assoc : i # 1 =>
              \E j \in 1..assoc : j # assoc /\ Cache!moveToHead(t, assoc)[i] = t[j]
    BY <2>1, <2>3, <2>6, MoveFact, Zenon
  <2> DEFINE s == Cache!Accessed(b)
  <2>8. /\ s \in [1..assoc -> Frames] /\ Distinct(s) /\ s[1] = v
        /\ \A i \in 1..assoc : i # 1 => \E j \in 1..assoc : j # assoc /\ s[i] = t[j]
    BY <2>4, <2>7, Zenon
  <2> HIDE DEF s
  <2>9. \A i \in 1..assoc : i # 1 => \E j \in 1..assoc : s[i] = set[j]
    BY <2>3, <2>8, Zenon
  <2> QED BY <1>4, <2>2, <2>8, <2>9, Zenon DEF s
<1> QED BY <1>3, <1>4, Zenon

\* What an access leaves of LocksAreOfBlock, when it replaces no locked block:
\* the locks of the frames that follow the first are of their blocks, and so
\* are those of the first.
LEMMA AccessedLocks ==
  ASSUME Geometry, CacheIInv, NEW b \in Blocks, NEW swap \in BOOLEAN, Cache!Used(b, swap),
         happened' \subseteq {"taken"}
  PROVE  /\ happened \subseteq {"taken"}
         /\ \A i \in 1..assoc : Cache!Accessed(b)[i].valid =>
               \A c \in Cache!Accessed(b)[i].lockList : Cache!Accessed(b)[i].tag \in loaded[c]
         /\ swap => Cache!Accessed(b)[1].lockList = {}
<1>1. /\ happened \subseteq {"taken"}
      /\ ~(Cache!Holds(set, b) = {} /\ set[Cache!findVictim(set)].lockList # {})
      /\ ~(swap /\ Cache!Accessed(b)[1].lockList # {})
  <2> DEFINE r == Cache!Holds(set, b) = {} /\ set[Cache!findVictim(set)].lockList # {}
             w == swap /\ Cache!Accessed(b)[1].lockList # {}
  <2>1. happened' = happened \cup {e \in {"replaced"} : r} \cup {e \in {"swapped"} : w}
    BY Zenon DEF Cache!Used
  <2> HIDE DEF r, w
  <2>2. happened \subseteq {"taken"} /\ ~r /\ ~w
    BY <2>1
  <2> QED BY <2>2, Zenon DEF r, w
<1>2. Cache!findVictim(set) = assoc
  BY LengthFact, Zenon DEF CacheIInv, Cache!findVictim
<1>3. \A i \in 1..assoc : set[i].valid => \A c \in set[i].lockList : set[i].tag \in loaded[c]
  BY <1>1, Zenon DEF CacheIInv, Cache!LocksAreOfBlock
<1>4. ASSUME NEW i \in 1..assoc, Cache!Accessed(b)[i].valid, NEW c \in Cache!Accessed(b)[i].lockList
      PROVE  Cache!Accessed(b)[i].tag \in loaded[c]
  <2>1. CASE i # 1
    BY <1>3, <1>4, <2>1, AccessedFact
  <2>2. CASE i = 1 /\ Cache!Holds(set, b) # {}
    <3>1. \E j \in 1..assoc : set[j].valid /\ set[j].tag = b /\ Cache!Accessed(b)[1] = set[j]
      BY <2>2, AccessedFact, Zenon
    <3> QED BY <1>3, <1>4, <2>2, <3>1, Zenon
  <2>3. CASE i = 1 /\ Cache!Holds(set, b) = {}
    BY <1>1, <1>2, <1>4, <2>3, AccessedFact, Zenon
  <2> QED BY <2>1, <2>2, <2>3, Zenon
<1> QED BY <1>1, <1>4, Zenon

LEMMA InitCache == ASSUME Geometry PROVE Cache!Init => CacheIInv
<1> SUFFICES ASSUME Cache!Init PROVE CacheIInv
  OBVIOUS
<1>1. \A i \in 1..assoc : set[i] = Cache!Frame(None, FALSE, {}) /\ ~set[i].valid
  BY Zenon DEF Cache!Init, Cache!Frame
<1>2. set \in [1..assoc -> Frames]
  BY Zenon DEF Cache!Init, Cache!Frame, Frames
<1> QED BY <1>1, <1>2, Zenon DEF Cache!Init, CacheIInv, Distinct, Cache!LocksAreOfBlock

\* Clearing the lockList of the first frame, or adding to it, changes no tag.
LEMMA FirstFrame ==
  ASSUME Geometry, NEW s \in [1..assoc -> Frames], Distinct(s), NEW L \in SUBSET Contexts
  PROVE  LET t == [s EXCEPT ![1].lockList = L]
         IN  /\ t \in [1..assoc -> Frames] /\ Distinct(t)
             /\ t[1].lockList = L /\ t[1].tag = s[1].tag /\ t[1].valid = s[1].valid
             /\ \A i \in 1..assoc : i # 1 => t[i] = s[i]
<1> DEFINE t == [s EXCEPT ![1].lockList = L]
<1>1. 1 \in 1..assoc /\ s[1] \in Frames
  BY DEF Geometry
<1>2. t[1] = [s[1] EXCEPT !.lockList = L] /\ \A i \in 1..assoc : i # 1 => t[i] = s[i]
  BY <1>1, Zenon
<1>3. t[1] \in Frames /\ t[1].lockList = L /\ t[1].tag = s[1].tag /\ t[1].valid = s[1].valid
  BY <1>1, <1>2, Zenon DEF Frames
<1>4. t \in [1..assoc -> Frames]
  BY <1>1, <1>2, <1>3, Zenon
<1> HIDE DEF t
<1>5. \A i \in 1..assoc : t[i].tag = s[i].tag /\ t[i].valid = s[i].valid
  BY <1>2, <1>3, Zenon
<1>6. Distinct(t)
  BY <1>5, Zenon DEF Distinct
<1> QED BY <1>2, <1>3, <1>4, <1>6, Zenon DEF t

LEMMA NextCache == ASSUME Geometry PROVE CacheIInv /\ [Cache!Next]_(Cache!vars) => CacheIInv'
<1> SUFFICES ASSUME CacheIInv, [Cache!Next]_(Cache!vars) PROVE CacheIInv'
  OBVIOUS
<1>0. set \in [1..assoc -> Frames] /\ loaded \in [Contexts -> SUBSET Blocks] /\ 1 \in 1..assoc
  BY DEF CacheIInv, Geometry
<1>w. ASSUME NEW b \in Blocks, Cache!Written(b)
      PROVE  /\ loaded' \in [Contexts -> SUBSET Blocks]
             /\ \A c \in Contexts, x \in Blocks \cup {None} :
                   x \in loaded[c] /\ x # b => x \in loaded'[c]
  BY <1>0, <1>w, Zenon DEF Cache!Written
<1>1. ASSUME NEW b \in Blocks, Cache!Load(b)
      PROVE  CacheIInv'
  <2>1. set' = Cache!Accessed(b) /\ loaded' = loaded /\ Cache!Used(b, FALSE)
    BY <1>1, Zenon DEF Cache!Load
  <2>2. set' \in [1..assoc -> Frames] /\ Distinct(set')
    BY <2>1, AccessedFact, Zenon
  <2>3. Cache!LocksAreOfBlock'
    BY <2>1, AccessedLocks, Zenon DEF Cache!LocksAreOfBlock
  <2> QED BY <1>0, <2>1, <2>2, <2>3, Zenon DEF CacheIInv, Distinct
<1>2. ASSUME NEW b \in Blocks, set' = Cache!clearLoadLocks(Cache!Accessed(b)), Cache!Used(b, FALSE),
             Cache!Written(b) \/ UNCHANGED loaded
      PROVE  CacheIInv'
  <2> DEFINE s == Cache!Accessed(b)
  <2>1. /\ s \in [1..assoc -> Frames] /\ Distinct(s) /\ s[1].valid /\ s[1].tag = b
    BY AccessedFact, Zenon
  <2>2. /\ set' \in [1..assoc -> Frames] /\ Distinct(set')
        /\ set'[1].lockList = {} /\ \A i \in 1..assoc : i # 1 => set'[i] = s[i]
    <3>1. set' = [s EXCEPT ![1].lockList = {}]
      BY <1>2, Zenon DEF Cache!clearLoadLocks
    <3> HIDE DEF s
    <3> QED BY <2>1, <3>1, FirstFrame, Zenon
  <2>3. loaded' \in [Contexts -> SUBSET Blocks]
    BY <1>0, <1>2, <1>w, Zenon
  <2>4. ASSUME happened' \subseteq {"taken"}, NEW i \in 1..assoc, set'[i].valid,
               NEW c \in set'[i].lockList
        PROVE  set'[i].tag \in loaded'[c]
    <3>1. i # 1 /\ set'[i] = s[i]
      BY <2>2, <2>4, Zenon
    <3>2. s[i].tag \in loaded[c]
      BY <1>2, <2>4, <3>1, AccessedLocks, Zenon
    <3>3. s[i].tag # b
      BY <1>0, <2>1, <2>4, <3>1, Zenon DEF Distinct
    <3>4. c \in Contexts /\ s[i].tag \in Blocks \cup {None}
      BY <2>1, <2>4, <3>1, Zenon DEF Frames
    <3> QED BY <1>2, <1>w, <3>1, <3>2, <3>3, <3>4, Zenon
  <2>5. Cache!LocksAreOfBlock'
    BY <2>4, Zenon DEF Cache!LocksAreOfBlock
  <2> QED BY <2>2, <2>3, <2>5, Zenon DEF CacheIInv, Distinct
<1>3. ASSUME NEW b \in Blocks, NEW c \in Contexts, Cache!LoadLocked(c, b)
      PROVE  CacheIInv'
  <2> DEFINE s == Cache!Accessed(b)
             L == s[1].lockList \cup {c}
  <2>1. /\ s \in [1..assoc -> Frames] /\ Distinct(s) /\ s[1].valid /\ s[1].tag = b
    BY AccessedFact, Zenon
  <2>2. /\ set' \in [1..assoc -> Frames] /\ Distinct(set')
        /\ set'[1].lockList = L /\ set'[1].tag = b
        /\ \A i \in 1..assoc : i # 1 => set'[i] = s[i]
    <3>1. set' = [s EXCEPT ![1].lockList = L]
      BY <1>0, <1>3, <2>1, Zenon DEF Cache!LoadLocked, Cache!trackLoadLocked
    <3>2. L \in SUBSET Contexts
      BY <1>0, <2>1, Zenon DEF Frames
    <3> HIDE DEF s, L
    <3> QED BY <2>1, <3>1, <3>2, FirstFrame, Zenon
  <2>3. /\ loaded' \in [Contexts -> SUBSET Blocks]
        /\ b \in loaded'[c] /\ \A d \in Contexts : loaded[d] \subseteq loaded'[d]
    BY <1>0, <1>3, Zenon DEF Cache!LoadLocked
  <2>4. ASSUME happened' \subseteq {"taken"}, NEW i \in 1..assoc, set'[i].valid,
               NEW d \in set'[i].lockList
        PROVE  set'[i].tag \in loaded'[d]
    <3>1. Cache!Used(b, FALSE)
      BY <1>3, Zenon DEF Cache!LoadLocked
    <3>2. d \in Contexts
      BY <2>2, <2>4, Zenon DEF Frames
    <3>3. CASE i # 1
      BY <2>1, <2>2, <2>3, <2>4, <3>1, <3>2, <3>3, AccessedLocks, Zenon
    <3>4. CASE i = 1 /\ d # c
      <4>1. d \in s[1].lockList /\ s[1].valid
        BY <2>1, <2>2, <2>4, <3>4, Zenon
      <4>2. s[1].tag \in loaded[d]
        BY <1>0, <2>4, <3>1, <4>1, AccessedLocks, Zenon
      <4> QED BY <2>1, <2>2, <2>3, <3>2, <3>4, <4>2, Zenon
    <3>5. CASE i = 1 /\ d = c
      BY <2>2, <2>3, <3>5, Zenon
    <3> QED BY <3>3, <3>4, <3>5, Zenon
  <2>5. Cache!LocksAreOfBlock'
    BY <2>4, Zenon DEF Cache!LocksAreOfBlock
  <2> QED BY <2>2, <2>3, <2>5, Zenon DEF CacheIInv, Distinct
<1>4. ASSUME NEW b \in Blocks, NEW writes \in BOOLEAN, Cache!Swap(b, writes)
      PROVE  CacheIInv'
  <2>1. set' = Cache!Accessed(b) /\ Cache!Used(b, writes)
    BY <1>4, Zenon DEF Cache!Swap
  <2>2. /\ set' \in [1..assoc -> Frames] /\ Distinct(set') /\ set'[1].valid /\ set'[1].tag = b
    BY <2>1, AccessedFact, Zenon
  <2>3. CASE ~writes
    <3>1. loaded' = loaded
      BY <1>4, <2>3, Zenon DEF Cache!Swap
    <3>2. Cache!LocksAreOfBlock'
      BY <2>1, <3>1, AccessedLocks, Zenon DEF Cache!LocksAreOfBlock
    <3> QED BY <1>0, <2>2, <3>1, <3>2, Zenon DEF CacheIInv, Distinct
  <2>4. CASE writes
    <3>1. Cache!Written(b)
      BY <1>4, <2>4, Zenon DEF Cache!Swap
    <3>2. ASSUME happened' \subseteq {"taken"}, NEW i \in 1..assoc, set'[i].valid,
                 NEW c \in set'[i].lockList
          PROVE  set'[i].tag \in loaded'[c]
      <4>1. set'[1].lockList = {}
        BY <2>1, <2>4, <3>2, AccessedLocks, Zenon
      <4>2. i # 1 /\ set'[i].tag # b
        BY <1>0, <2>2, <3>2, <4>1, Zenon DEF Distinct
      <4>3. set'[i].tag \in loaded[c]
        BY <2>1, <3>2, AccessedLocks, Zenon
      <4>4. c \in Contexts /\ set'[i].tag \in Blocks \cup {None}
        BY <2>2, <3>2, Zenon DEF Frames
      <4> QED BY <1>w, <3>1, <4>2, <4>3, <4>4, Zenon
    <3>3. Cache!LocksAreOfBlock'
      BY <3>2, Zenon DEF Cache!LocksAreOfBlock
    <3> QED BY <1>w, <2>2, <3>1, <3>3, Zenon DEF CacheIInv, Distinct
  <2> QED BY <2>3, <2>4, Zenon
<1>5. ASSUME NEW b \in Blocks, Cache!ExternalStore(b)
      PROVE  CacheIInv'
  <2>1. Len(set) = assoc
    BY <1>0, LengthFact, Zenon
  <2>2. set' = [i \in 1..assoc |-> IF i \in Cache!Holds(set, b)
                                   THEN Cache!Frame(set[i].tag, FALSE, {}) ELSE set[i]]
    BY <1>5, <2>1, Zenon DEF Cache!ExternalStore, Cache!invalidateBlk
  <2>3. \A i \in 1..assoc : i \in Cache!Holds(set, b) <=> set[i].valid /\ set[i].tag = b
    BY <2>1, Zenon DEF Cache!Holds
  <2>4. /\ set' \in [1..assoc -> Frames]
        /\ \A i \in 1..assoc : set'[i].valid =>
              set'[i] = set[i] /\ set[i].valid /\ set[i].tag # b
    <3>1. ASSUME NEW i \in 1..assoc
          PROVE  /\ set'[i] \in Frames
                 /\ set'[i].valid => set'[i] = set[i] /\ set[i].valid /\ set[i].tag # b
      <4>1. CASE i \in Cache!Holds(set, b)
        <5>1. set'[i] = Cache!Frame(set[i].tag, FALSE, {})
          BY <2>2, <4>1, Zenon
        <5> QED BY <1>0, <5>1 DEF Cache!Frame, Frames
      <4>2. CASE i \notin Cache!Holds(set, b)
        BY <1>0, <2>2, <2>3, <4>2, Zenon
      <4> QED BY <4>1, <4>2, Zenon
    <3> QED BY <2>2, <3>1, Zenon
  <2>5. Distinct(set')
    BY <2>4, Zenon DEF CacheIInv, Distinct
  <2>6. Cache!Written(b) /\ (happened' \subseteq {"taken"} => happened \subseteq {"taken"})
    BY <1>5, Zenon DEF Cache!ExternalStore
  <2>7. ASSUME happened' \subseteq {"taken"}, NEW i \in 1..assoc, set'[i].valid,
               NEW c \in set'[i].lockList
        PROVE  set'[i].tag \in loaded'[c]
    <3>1. set'[i] = set[i] /\ set[i].valid /\ set[i].tag # b
      BY <2>4, <2>7, Zenon
    <3>2. set[i].tag \in loaded[c]
      BY <2>6, <2>7, <3>1, Zenon DEF CacheIInv, Cache!LocksAreOfBlock
    <3>3. c \in Contexts /\ set[i].tag \in Blocks \cup {None}
      BY <1>0, <2>7, <3>1, Zenon DEF Frames
    <3> QED BY <1>w, <2>6, <3>1, <3>2, <3>3, Zenon
  <2>8. Cache!LocksAreOfBlock'
    BY <2>7, Zenon DEF Cache!LocksAreOfBlock
  <2> QED BY <1>w, <2>4, <2>5, <2>6, <2>8, Zenon DEF CacheIInv, Distinct
<1>6. ASSUME UNCHANGED <<set, loaded, happened>>
      PROVE  CacheIInv'
  BY <1>6, Zenon DEF CacheIInv, Distinct, Cache!LocksAreOfBlock
<1>7. ASSUME NEW b \in Blocks, NEW c \in Contexts, Cache!StoreCond(c, b)
      PROVE  CacheIInv'
  BY <1>2, <1>7, Zenon DEF Cache!StoreCond
<1>8. ASSUME NEW b \in Blocks, Cache!Store(b)
      PROVE  CacheIInv'
  BY <1>2, <1>8, Zenon DEF Cache!Store
<1>9. ASSUME NEW b \in Blocks, NEW c \in Contexts, Cache!StoreCondUnsent(c, b) \/ Cache!StoreCondMiss(c, b)
      PROVE  CacheIInv'
  BY <1>6, <1>9, Zenon DEF Cache!StoreCondUnsent, Cache!StoreCondMiss
<1> QED BY <1>1, <1>3, <1>4, <1>5, <1>6, <1>7, <1>8, <1>9, Zenon DEF Cache!Next, Cache!vars

LEMMA SpecCache == ASSUME Geometry PROVE Cache!Spec => []CacheIInv
BY InitCache, NextCache, PTL DEF Cache!Spec

(***************************************************************************)
(* The lockLists hold the contexts that have loaded the block locked since *)
(* the last write to it, as blk.hh says of the list, until a locked block  *)
(* is swapped or loses its frame: cmpAndSwap and insertBlock leave the     *)
(* list alone, and from then on it is not what blk.hh says.                *)
(***************************************************************************)
THEOREM CacheLocksOfBlock == ASSUME Geometry PROVE Cache!Spec => []Cache!LocksAreOfBlock
<1>1. CacheIInv => Cache!LocksAreOfBlock
  BY Zenon DEF CacheIInv
<1> QED BY <1>1, SpecCache, PTL

(***************************************************************************)
(* checkWrite lets a conditional store succeed only if the context has     *)
(* loaded the block locked and nobody has written to it since, as long as  *)
(* no locked block has been swapped or has lost its frame.                 *)
(***************************************************************************)
THEOREM CacheSuccessAtomic == ASSUME Geometry PROVE Cache!Spec => CacheSuccessIsAtomic
<1> DEFINE Atomic(c, b) ==
       happened \subseteq {"taken"} /\ Cache!StoreCond(c, b) /\ success' => b \in loaded[c]
<1>1. ASSUME CacheIInv, NEW c \in Contexts, NEW b \in Blocks,
             happened \subseteq {"taken"}, Cache!StoreCond(c, b), success'
      PROVE  b \in loaded[c]
  <2>1. Cache!Holds(set, b) # {} /\ c \in Cache!Accessed(b)[1].lockList
    BY <1>1, Zenon DEF Cache!StoreCond, Cache!HasLock
  <2>2. PICK j \in 1..assoc : set[j].valid /\ set[j].tag = b /\ Cache!Accessed(b)[1] = set[j]
    BY <1>1, <2>1, AccessedFact, Zenon
  <2> QED BY <1>1, <2>1, <2>2, Zenon DEF CacheIInv, Cache!LocksAreOfBlock
<1>2. CacheIInv => [\A c \in Contexts, b \in Blocks : Atomic(c, b)]_(Cache!vars)
  BY <1>1, Zenon
<1> QED BY <1>2, SpecCache, PTL DEF Cache!Spec, CacheSuccessIsAtomic, Cache!SuccessIsAtomic
=============================================================================

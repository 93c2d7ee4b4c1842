--------------------------- MODULE PhysicalMemory ---------------------------
(***************************************************************************)
(* The memory of m5/src/mem/physical.cc: what doAtomicAccess and           *)
(* doFunctionalAccess do to the contents and to the list of locked         *)
(* addresses.  A context has at most one record in the list and the list   *)
(* is searched to its end, so it is a set of records here.  Sizes and      *)
(* latencies are left out: an access is to one cell, and LockedAddr::mask  *)
(* takes GranuleSize neighbouring cells to one address.                    *)
(***************************************************************************)
EXTENDS Naturals, FiniteSets

CONSTANTS
  Contexts, Addrs, Values,
  GranuleSize    \* cells per locked address (16 bytes in the code)

ASSUME MemoryAssumption == Addrs \subseteq Nat /\ GranuleSize \in Nat \ {0}

VARIABLES pmem, lockedAddrList, resp

vars == <<pmem, lockedAddrList, resp>>

mask(a) == (a \div GranuleSize) * GranuleSize

LockedAddr == [addr : {mask(a) : a \in Addrs}, contextId : Contexts]

Answer == [context : Contexts, val : Values, ok : BOOLEAN]

TypeOK == /\ pmem \in [Addrs -> Values]
          /\ lockedAddrList \subseteq LockedAddr
          /\ resp \in Answer

Init == /\ pmem \in [Addrs -> Values]
        /\ lockedAddrList = {}
        /\ resp \in Answer

-----------------------------------------------------------------------------
\* "Since each xc only gets one, we just update the existing record": the
\* first one found, or a new one
trackLoadLocked(c, a) ==
  LET old == {r \in lockedAddrList : r.contextId = c}
      new == [addr |-> mask(a), contextId |-> c]
  IN  lockedAddrList' = IF old = {} THEN lockedAddrList \cup {new}
                        ELSE (lockedAddrList \ {CHOOSE r \in old : TRUE}) \cup {new}

\* writeOK and checkLockedAddrList: every record of the address goes
writeOK(c, a, isLLSC) ==
  lockedAddrList' = {r \in lockedAddrList : r.addr # mask(a)}

\* What the two return: a conditional store needs a record of its context
Success(c, a, isLLSC) ==
  isLLSC => \E r \in lockedAddrList : r.addr = mask(a) /\ r.contextId = c

-----------------------------------------------------------------------------
\* doAtomicAccess, by command

ReadReq(c, a) ==
  /\ resp' = [context |-> c, val |-> pmem[a], ok |-> TRUE]
  /\ UNCHANGED <<pmem, lockedAddrList>>

LoadLockedReq(c, a) ==
  /\ trackLoadLocked(c, a)
  /\ resp' = [context |-> c, val |-> pmem[a], ok |-> TRUE]
  /\ UNCHANGED pmem

WriteReq(c, a, v) ==
  /\ writeOK(c, a, FALSE)
  /\ pmem' = [pmem EXCEPT ![a] = v]
  /\ resp' = [context |-> c, val |-> v, ok |-> TRUE]

\* A bug it might have: the flag says failure, the data is written all the same
StoreCondAlways(c, a, v) ==
  /\ writeOK(c, a, TRUE)
  /\ pmem' = [pmem EXCEPT ![a] = v]
  /\ resp' = [context |-> c, val |-> v, ok |-> Success(c, a, TRUE)]

StoreCondReq(c, a, v) ==
  /\ writeOK(c, a, TRUE)
  /\ IF Success(c, a, TRUE)
     THEN /\ pmem' = [pmem EXCEPT ![a] = v]
          /\ resp' = [context |-> c, val |-> v, ok |-> TRUE]
     ELSE /\ resp' = [context |-> c, val |-> v, ok |-> FALSE]
          /\ UNCHANGED pmem

\* A swap, conditional on the old value if cond holds; it answers the old value
SwapReq(c, a, v, cond, expected) ==
  /\ pmem' = IF cond => pmem[a] = expected THEN [pmem EXCEPT ![a] = v] ELSE pmem
  /\ resp' = [context |-> c, val |-> pmem[a], ok |-> TRUE]
  /\ UNCHANGED lockedAddrList

\* doFunctionalAccess of a write: the loader, an emulated system call
FunctionalWrite(a, v) ==
  /\ pmem' = [pmem EXCEPT ![a] = v]
  /\ UNCHANGED <<lockedAddrList, resp>>

\* The writes that do not call writeOK
BypassingWrite ==
  \/ \E c \in Contexts, a \in Addrs, v \in Values, cond \in BOOLEAN, e \in Values :
        SwapReq(c, a, v, cond, e)
  \/ \E a \in Addrs, v \in Values : FunctionalWrite(a, v)

\* serialize and unserialize keep the contents and no locks
Restore == lockedAddrList' = {} /\ UNCHANGED <<pmem, resp>>

Next ==
  \/ \E c \in Contexts, a \in Addrs :
        \/ ReadReq(c, a) \/ LoadLockedReq(c, a)
        \/ \E v \in Values : WriteReq(c, a, v) \/ StoreCondReq(c, a, v)
  \/ BypassingWrite
  \/ Restore

Spec == Init /\ [][Next]_vars

-----------------------------------------------------------------------------
\* A context has one record at most, whatever it loads locked
\* (trackLoadLocked: "Since each xc only gets one").
OneRecord == \A r, s \in lockedAddrList : r.contextId = s.contextId => r = s

\* No store changes a location and leaves a lock on it (physical.hh on writeOK:
\* "this method must be called on *all* stores since even non-conditional
\* stores must clear any matching lock addresses"); swaps and functional writes
\* do not call it and are excepted.
StoresClearLocks ==
  [][\A a \in Addrs : pmem'[a] # pmem[a] =>
        BypassingWrite \/ \A r \in lockedAddrList' : r.addr # mask(a)]_vars

links == [c \in Contexts |-> {r.addr : r \in {s \in lockedAddrList : s.contextId = c}}]

Abstract == INSTANCE LLSC WITH mem <- pmem, linked <- links, Granule <- mask

\* The memory keeps the promise of load-locked and store-conditional: a
\* conditional store succeeds only when no store has written to the location
\* since its context loaded it locked, swaps and functional writes excepted.
ImplementsLLSC == Abstract!Spec
=============================================================================

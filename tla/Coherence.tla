------------------------------ MODULE Coherence ------------------------------
(***************************************************************************)
(* First-level caches that snoop on one bus in front of physical memory    *)
(* (mem/cache/cache_impl.hh and mshr.cc, mem/bus.cc, mem/tport.cc), as one *)
(* block sees them.  The bus takes one request at a time and shows it to   *)
(* every other cache and to memory in the same step; answers come later.   *)
(* A cache whose own request is in service puts a snooped one behind it,   *)
(* among its targets.  Data is the number of writes that it contains.      *)
(* Other blocks show as evictions, and as fills that find no frame.        *)
(***************************************************************************)
EXTENDS Naturals, FiniteSets, Sequences

CONSTANTS
  Caches,       \* the caches, each with its processor
  Requests,     \* bound on the accesses of the processors together
  numTarget,    \* targets of an MSHR before the cache turns its cpu away
  LateWrites,   \* whether a write may join an MSHR behind a snooped read
  None          \* no MSHR, no writeback

VARIABLES
  blk,       \* per cache: the status bits and the data of its copy
  mshr,      \* per cache: the MSHR of the block, or None
  wb,        \* per cache: the data in its write buffer, or None
  blocked,   \* per cache: the reason NoTargets
  resp,      \* the responses on their way
  mem,       \* the block in physical memory
  left,      \* accesses the processors have still to make
  latest,    \* history: the number of writes so far
  seen       \* history, per cache: what its processor has read or written

vars == <<blk, mshr, wb, blocked, resp, mem, left, latest, seen>>

Invalid == [bits |-> {}, data |-> 0]
isValid(b) == "Valid" \in b.bits
isReadable(b) == {"Valid", "Readable"} \subseteq b.bits
isWritable(b) == {"Valid", "Writable"} \subseteq b.bits
isDirty(b) == "Dirty" \in b.bits

(* Requests of processors and on the bus; the ones that need exclusivity.  *)
Cmd == {"ReadReq", "WriteReq", "ReadExReq", "UpgradeReq"}
needsExclusive(cmd) == cmd # "ReadReq"

Target(c, cmd, snoop) == [from |-> c, cmd |-> cmd, snoop |-> snoop]

(* TargetList::needsExclusive, which snoops do not set.                    *)
Exclusive(targets) ==
  \E i \in DOMAIN targets : ~targets[i].snoop /\ needsExclusive(targets[i].cmd)

OneTarget == [from : Caches, cmd : Cmd, snoop : BOOLEAN]
Targets == Seq(OneTarget)

MSHRs == [targets : Targets \ {<< >>}, deferred : Targets, inService : BOOLEAN,
          pendingInvalidate : BOOLEAN, pendingShared : BOOLEAN]

ASSUME CoherenceAssumption ==
  Requests \in Nat /\ None \notin Nat /\ None \notin MSHRs

NewMSHR(targets) ==
  [targets |-> targets, deferred |-> << >>, inService |-> FALSE,
   pendingInvalidate |-> FALSE, pendingShared |-> FALSE]

inService(c) == mshr[c] # None /\ mshr[c].inService

Init ==
  /\ blk = [c \in Caches |-> Invalid]
  /\ mshr = [c \in Caches |-> None]
  /\ wb = [c \in Caches |-> None]
  /\ blocked = [c \in Caches |-> FALSE]
  /\ resp = {}
  /\ mem = 0
  /\ left = Requests
  /\ latest = 0
  /\ seen = [c \in Caches |-> 0]

-----------------------------------------------------------------------------
(* satisfyCpuSideRequest on a state of the copy, the history and the       *)
(* responses sent: a write adds itself to the data.                        *)
Satisfy(s, cmd) ==
  IF cmd = "WriteReq"
  THEN [s EXCEPT !.blk = [bits |-> @.bits \cup {"Dirty"}, data |-> @.data + 1],
                 !.latest = @ + 1, !.seen = s.blk.data + 1]
  ELSE [s EXCEPT !.seen = s.blk.data]

(* A mutant: a read also takes away the ownership (haveOwnershipState      *)
(* false), with a memory that does not take the data.                      *)
MutOwnershipLost(s, c, t, inval) ==
  IF ~isValid(s.blk) THEN s
  ELSE [s EXCEPT
    !.out = IF isDirty(s.blk)
            THEN @ \cup {[to |-> t.from, by |-> c, cmd |-> t.cmd, data |-> s.blk.data,
                          shared |-> t.cmd = "ReadReq", inhibit |-> TRUE,
                          inval |-> inval /\ t.cmd = "ReadReq"]}
            ELSE @,
    !.blk = IF t.cmd = "ReadReq" THEN [s.blk EXCEPT !.bits = @ \ {"Writable", "Dirty"}]
            ELSE Invalid]

(* handleSnoop on a state: the owner answers; a read leaves a shared copy, *)
(* any other request none.  `inval' turns the answer to a read into one    *)
(* with invalidation.                                                      *)
handleSnoop(s, c, t, inval) ==
  IF ~isValid(s.blk) THEN s
  ELSE [s EXCEPT
    !.out = IF isDirty(s.blk)
            THEN @ \cup {[to |-> t.from, by |-> c, cmd |-> t.cmd, data |-> s.blk.data,
                          shared |-> t.cmd = "ReadReq", inhibit |-> TRUE,
                          inval |-> inval /\ t.cmd = "ReadReq"]}
            ELSE @,
    !.blk = IF t.cmd = "ReadReq" THEN [s.blk EXCEPT !.bits = @ \ {"Writable"}] ELSE Invalid]

State(c) == [blk |-> blk[c], latest |-> latest, seen |-> seen[c], out |-> {}]

-----------------------------------------------------------------------------
(* MSHR::allocateTarget of a processor's request.                          *)
allocateTarget(m, t) ==
  IF m.inService /\ (\/ m.deferred # << >>
                     \/ m.pendingInvalidate
                     \/ ~Exclusive(m.targets) /\ needsExclusive(t.cmd))
  THEN [m EXCEPT !.deferred = Append(@, t)]
  ELSE [m EXCEPT !.targets = Append(@, t)]

getNumTargets(m) == Len(m.targets) + Len(m.deferred)

(* A write that joins the targets behind a snooped read.  No processor     *)
(* makes one that has a single access outstanding per address, as the      *)
(* testers of cpu/memtest have.                                            *)
IsLate(m, t) ==
  /\ needsExclusive(t.cmd)
  /\ allocateTarget(m, t).targets # m.targets
  /\ \E i \in DOMAIN m.targets : m.targets[i].snoop

(* timingAccess of a processor's request: hit, MSHR hit or miss.           *)
CpuRequest(c, cmd) ==
  LET hit == IF needsExclusive(cmd) THEN isWritable(blk[c]) ELSE isReadable(blk[c])
      t   == Target(c, cmd, FALSE)
  IN
  /\ left > 0 /\ ~blocked[c]
  /\ left' = left - 1
  /\ \/ /\ hit
        /\ LET s == Satisfy(State(c), cmd)
           IN  /\ blk' = [blk EXCEPT ![c] = s.blk]
               /\ latest' = s.latest
               /\ seen' = [seen EXCEPT ![c] = s.seen]
        /\ UNCHANGED <<mshr, blocked>>
     \/ /\ ~hit /\ mshr[c] # None
        /\ LateWrites \/ ~IsLate(mshr[c], t)
        /\ mshr' = [mshr EXCEPT ![c] = allocateTarget(@, t)]
        /\ blocked' = [blocked EXCEPT ![c] = getNumTargets(mshr'[c]) = numTarget]
        /\ UNCHANGED <<blk, latest, seen>>
     \/ /\ ~hit /\ mshr[c] = None
        /\ mshr' = [mshr EXCEPT ![c] = NewMSHR(<<t>>)]
        /\ blk' = [blk EXCEPT ![c].bits = @ \ {"Readable"}]
        /\ UNCHANGED <<blocked, latest, seen>>
  /\ UNCHANGED <<wb, resp, mem>>

-----------------------------------------------------------------------------
(* A mutant: snoops are kept after the pending copy has been taken away.   *)
MutKeepsSnooping(m, t) ==
  IF Exclusive(m.targets) \/ needsExclusive(t.cmd)
  THEN [m EXCEPT !.targets = Append(@, t), !.pendingInvalidate = @ \/ needsExclusive(t.cmd)]
  ELSE [m EXCEPT !.pendingShared = TRUE]

(* MSHR::handleSnoop of a request by an MSHR in service, which precedes    *)
(* it: the snoop becomes a target, or the two reads share.                 *)
Deferred(m, t) ==
  IF m.pendingInvalidate THEN m
  ELSE IF Exclusive(m.targets) \/ needsExclusive(t.cmd)
  THEN [m EXCEPT !.targets = Append(@, t), !.pendingInvalidate = needsExclusive(t.cmd)]
  ELSE [m EXCEPT !.pendingShared = TRUE]

(* A mutant: whoever keeps the snoop also keeps memory from answering.     *)
MutAlwaysInhibits(c, cmd) ==
  IF inService(c)
  THEN ~mshr[c].pendingInvalidate /\ (Exclusive(mshr[c].targets) \/ needsExclusive(cmd))
  ELSE wb[c] # None \/ isDirty(blk[c])

(* The cache answers a snooped request, now or once it has the block.      *)
AssertsInhibit(c, cmd) ==
  IF inService(c) THEN ~mshr[c].pendingInvalidate /\ Exclusive(mshr[c].targets)
  ELSE wb[c] # None \/ isDirty(blk[c])

AssertsShared(c, cmd) ==
  /\ cmd = "ReadReq"
  /\ IF inService(c) THEN ~mshr[c].pendingInvalidate /\ ~Exclusive(mshr[c].targets)
     ELSE wb[c] # None \/ isValid(blk[c])

(* snoopTiming of request t by a cache without an MSHR in service.         *)
Snooped(c, t) ==
  LET fromWB == IF wb[c] = None THEN {}
                ELSE {[to |-> t.from, by |-> c, cmd |-> t.cmd, data |-> wb[c],
                       shared |-> t.cmd = "ReadReq", inhibit |-> TRUE, inval |-> FALSE]}
  IN  handleSnoop([State(c) EXCEPT !.out = fromWB], c, t, FALSE)

(* getBusPacket, for the targets of an MSHR.                               *)
getBusPacket(c) ==
  IF isValid(blk[c]) THEN "UpgradeReq"
  ELSE IF Exclusive(mshr[c].targets) THEN "ReadExReq" ELSE "ReadReq"

(* The cache gets the bus for its MSHR.  A writeback of the block is       *)
(* older than the MSHR, and goes first (getNextMSHR).  All others snoop;   *)
(* unless one of them answers, memory does.                                *)
SendRequest(c) ==
  LET cmd    == getBusPacket(c)
      t      == Target(c, cmd, TRUE)
      others == Caches \ {c}
      Defers(d) == d # c /\ inService(d)
      Snoops(d) == d # c /\ ~inService(d)
      answer == [to |-> c, by |-> None, cmd |-> cmd, data |-> mem,
                 shared |-> \E d \in others : AssertsShared(d, cmd),
                 inhibit |-> FALSE, inval |-> FALSE]
  IN
  /\ mshr[c] # None /\ ~mshr[c].inService /\ wb[c] = None
  /\ mshr' = [d \in Caches |-> IF d = c THEN [mshr[c] EXCEPT !.inService = TRUE]
                               ELSE IF Defers(d) THEN Deferred(mshr[d], t) ELSE mshr[d]]
  /\ blk' = [d \in Caches |-> IF Snoops(d) THEN Snooped(d, t).blk ELSE blk[d]]
  /\ wb' = [d \in Caches |-> IF Snoops(d) /\ needsExclusive(cmd) THEN None ELSE wb[d]]
  /\ resp' = resp \cup (UNION {Snooped(d, t).out : d \in {e \in others : Snoops(e)}})
                  \cup (IF \E d \in others : AssertsInhibit(d, cmd) THEN {} ELSE {answer})
  /\ UNCHANGED <<blocked, mem, left, latest, seen>>

(* A writeback reaches memory.  No cache looks at it.                      *)
SendWriteback(c) ==
  /\ wb[c] # None
  /\ mem' = wb[c]
  /\ wb' = [wb EXCEPT ![c] = None]
  /\ UNCHANGED <<blk, mshr, blocked, resp, left, latest, seen>>

-----------------------------------------------------------------------------
(* MSHR::handleFill: with an exclusive copy nothing need be deferred.      *)
FilledMSHR(m, shared) ==
  IF ~shared /\ ~m.pendingInvalidate /\ Exclusive(m.deferred)
  THEN [m EXCEPT !.targets = @ \o m.deferred, !.deferred = << >>]
  ELSE m

(* A mutant: the shared line is not looked at.                             *)
MutSharedIgnored(c, r, shared) ==
  [bits |-> {"Valid", "Readable", "Writable"} \cup (IF r.inhibit THEN {"Dirty"} ELSE {}),
   data |-> IF r.cmd = "UpgradeReq" THEN blk[c].data ELSE r.data]

(* Cache::handleFill: the copy before any target is served.                *)
handleFill(c, r, shared) ==
  [bits |-> {"Valid", "Readable"}
              \cup (IF shared THEN {} ELSE {"Writable"})
              \cup (IF ~shared /\ r.inhibit THEN {"Dirty"} ELSE {}),
   data |-> IF r.cmd = "UpgradeReq" THEN blk[c].data ELSE r.data]

(* One turn of the loop over the targets, and the loop.                    *)
ServeTarget(s, c, t, inval) ==
  IF t.snoop THEN handleSnoop(s, c, t, inval) ELSE Satisfy(s, t.cmd)

Served(c, r, m, filled) ==
  LET after[i \in 0 .. Len(m.targets)] ==
        IF i = 0 THEN [State(c) EXCEPT !.blk = filled]
        ELSE ServeTarget(after[i - 1], c, m.targets[i], m.pendingInvalidate \/ r.inval)
  IN  after[Len(m.targets)]

(* handleResponse.  A fill that finds no frame uses the temporary block,   *)
(* which is written back at once.  Deferred targets are requested next.    *)
handleResponse(c, r, temp) ==
  LET shared == r.shared \/ mshr[c].pendingShared
      m      == FilledMSHR(mshr[c], shared)
      s      == Served(c, r, m, handleFill(c, r, shared))
      again  == m.deferred # << >>
      kept   == IF r.inval \/ temp \/ ~isValid(s.blk) THEN Invalid
                ELSE [s.blk EXCEPT !.bits = IF again THEN @ \ {"Readable"} ELSE @]
  IN
  /\ r.to = c /\ inService(c)
  /\ temp => ~isValid(blk[c])
  /\ blk' = [blk EXCEPT ![c] = kept]
  /\ mshr' = [mshr EXCEPT ![c] = IF again THEN NewMSHR(m.deferred) ELSE None]
  /\ wb' = [wb EXCEPT ![c] = IF temp /\ isDirty(s.blk) /\ ~r.inval THEN s.blk.data ELSE @]
  /\ blocked' = [blocked EXCEPT ![c] = FALSE]
  /\ resp' = (resp \ {r}) \cup s.out
  /\ latest' = s.latest
  /\ seen' = [seen EXCEPT ![c] = s.seen]
  /\ UNCHANGED <<mem, left>>

(* allocateBlock for another block takes the frame, unless the block has   *)
(* an MSHR; a dirty copy goes to the write buffer.                         *)
allocateBlock(c) ==
  /\ isValid(blk[c]) /\ mshr[c] = None
  /\ blk' = [blk EXCEPT ![c] = Invalid]
  /\ wb' = [wb EXCEPT ![c] = IF isDirty(blk[c]) THEN blk[c].data ELSE @]
  /\ UNCHANGED <<mshr, blocked, resp, mem, left, latest, seen>>

(* What the bus, the write buffers and memory have to do.                  *)
Progress ==
  \E c \in Caches :
    \/ SendRequest(c)
    \/ SendWriteback(c)
    \/ \E r \in resp, temp \in BOOLEAN : handleResponse(c, r, temp)

Next ==
  \/ Progress
  \/ \E c \in Caches : \/ \E cmd \in {"ReadReq", "WriteReq"} : CpuRequest(c, cmd)
                       \/ allocateBlock(c)

Spec == Init /\ [][Next]_vars

(* While a port waits for the bus or a packet for its tick, one of them is *)
(* served in the end (EveryPortServed of Bus, EverySent of TimingPort).    *)
Fairness == WF_vars(Progress)

FairSpec == Spec /\ Fairness

-----------------------------------------------------------------------------
Copies == [bits : SUBSET {"Valid", "Readable", "Writable", "Dirty"}, data : Nat]

Responses ==
  [to : Caches, by : Caches \cup {None}, cmd : Cmd, data : Nat,
   shared : BOOLEAN, inhibit : BOOLEAN, inval : BOOLEAN]

TypeOK ==
  /\ blk \in [Caches -> Copies]
  /\ mshr \in [Caches -> MSHRs \cup {None}]
  /\ wb \in [Caches -> Nat \cup {None}]
  /\ blocked \in [Caches -> BOOLEAN]
  /\ resp \in SUBSET Responses
  /\ mem \in Nat /\ latest \in Nat
  /\ left \in 0 .. Requests
  /\ seen \in [Caches -> Nat]

(* The snooped requests of c that another cache has put behind its own and *)
(* has promised to answer (MSHR::handleSnoop: "It's up to us to respond    *)
(* once the data arrives").                                                *)
Promises(c) ==
  UNION {{<<d, i>> : i \in {j \in DOMAIN mshr[d].targets :
                              mshr[d].targets[j].snoop /\ mshr[d].targets[j].from = c}} :
         d \in {e \in Caches \ {c} : inService(e) /\ Exclusive(mshr[e].targets)}}

(* A request on the bus has exactly one answer, on its way or promised,    *)
(* and nobody else has one: handleSnoop and snoopTiming assert             *)
(* "!pkt->memInhibitAsserted()", and a request that is inhibited by a      *)
(* cache which then does not own the block would never be answered.        *)
OneSupplier ==
  \A c \in Caches :
    Cardinality({r \in resp : r.to = c}) + Cardinality(Promises(c))
      = IF inService(c) THEN 1 ELSE 0

(* The assertions of timingAccess and getBusPacket (a valid copy with an   *)
(* MSHR is shared and to be written), of handleFill (an upgrade's answer   *)
(* finds the copy) and of allocateBlock's caller (one writeback).          *)
AssertionsHold ==
  \A c \in Caches :
    /\ isValid(blk[c]) /\ mshr[c] = None => isReadable(blk[c])
    /\ isValid(blk[c]) /\ mshr[c] # None => ~isWritable(blk[c]) /\ Exclusive(mshr[c].targets)
    /\ \A r \in resp : r.to = c /\ r.cmd = "UpgradeReq" => isValid(blk[c])
    /\ wb[c] # None => ~isValid(blk[c]) /\ ~inService(c)

(* The requests, the copies and the queues belong together.                *)
CoherenceInv == TypeOK /\ OneSupplier /\ AssertionsHold

(* Who has to write the block back: a dirty copy, a writeback, or an       *)
(* answer that hands the dirty copy over.                                  *)
Owners ==
  {<<"copy", c>> : c \in {d \in Caches : isDirty(blk[d])}}
    \cup {<<"writeback", c>> : c \in {d \in Caches : wb[d] # None}}
    \cup {<<"answer", r.to>> : r \in {q \in resp : q.inhibit /\ ~q.shared}}

(* The coherence that handleSnoop, handleFill and the MSHRs work for:      *)
(* every copy, and memory when no cache owns the block, holds all writes   *)
(* so far; there is one owner; and a copy with write permission is the     *)
(* only one.                                                               *)
CopiesCurrent ==
  /\ \A c \in Caches : isValid(blk[c]) => blk[c].data = latest
  /\ \A c \in Caches : wb[c] # None => wb[c] = latest
  /\ Owners = {} => mem = latest
  /\ Cardinality(Owners) <= 1
  /\ \A c, d \in Caches : c # d /\ isWritable(blk[c]) => ~isValid(blk[d]) /\ wb[d] = None

(* A processor never sees the block go back to an earlier state, whether   *)
(* hits, fills or answers with a pending invalidation serve it.            *)
ReadsForward == [][\A c \in Caches : seen'[c] >= seen[c]]_vars

(* What satisfyCpuSideRequest relies on when it serves an exclusive target *)
(* without write permission, its assertion commented out: "we can rely on  *)
(* the Read requester(s) to have buffered the ReadEx snoop and to          *)
(* invalidate their blocks after receiving them".  A copy that has not     *)
(* been invalidated is then as new as any other.                           *)
ReadersInvalidate ==
  \A c, d \in Caches : isValid(blk[c]) /\ isValid(blk[d]) => blk[c].data = blk[d].data

(* Every miss is answered, with its deferred targets and the snoops put    *)
(* behind it, whatever the order of the requests on the bus: no caches     *)
(* wait for each other's block.  The processors make finitely many         *)
(* accesses, so it is enough that time and again no miss is left.          *)
EveryRequestAnswered == []<>(\A c \in Caches : mshr[c] = None)
=============================================================================

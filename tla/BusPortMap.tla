------------------------------ MODULE BusPortMap ------------------------------
(***************************************************************************)
(* How the bus finds the port for an address, mem/bus.cc, bus.hh and       *)
(* base/range_map.hh: a map from address ranges to ports that is rebuilt   *)
(* when a device changes its ranges, and a cache of the last three ranges  *)
(* that were looked up.                                                    *)
(***************************************************************************)
EXTENDS Integers, Sequences, FiniteSetsExt, SequencesExt

CONSTANTS
  Interfaces,  \* the ports of the bus
  MaxAddr,     \* addresses are 0 .. MaxAddr
  Offers       \* for a port, the lists of ranges its device may have

ASSUME PortMapAssumption ==
  \A p \in Interfaces : \A o \in Offers[p] : \A i \in 1 .. Len(o) :
    0 <= o[i].start /\ o[i].start <= o[i].end /\ o[i].end <= MaxAddr

VARIABLES
  portMap,     \* the ranges, both ends included, and their ports
  portCache,   \* the valid entries, the latest first
  snoopPorts,
  offered,     \* what the devices said last: their ranges and whether they snoop
  fatal        \* the simulation ended with "has two ports with same range"

mapVars == <<portMap, portCache, snoopPorts, offered, fatal>>

Addr == 0 .. MaxAddr

NoOffer == [ranges |-> <<>>, snoops |-> FALSE]

overlap(a, b) == a.start <= b.end /\ a.end >= b.start

(* range_map::find: the last range that does not start behind r or, if     *)
(* there is none, the first of all, provided that it overlaps r.  A range  *)
(* that starts behind r.start is not looked at unless it is the first.  On *)
(* an empty map the code looks at the end of the tree; no range is there.  *)
find(m, r) ==
  LET upTo == {x \in m : x.start <= r.start}
      i    == IF upTo # {} THEN {x \in upTo : \A y \in upTo : y.start <= x.start}
              ELSE {x \in m : \A y \in m : x.start <= y.start}
  IN {x \in i : overlap(x, r)}

(* find for one address; without a result the default port is used.        *)
Lookup(m, addr) == find(m, [start |-> addr, end |-> addr])

checkPortCache(addr) ==
  LET hits == {i \in 1 .. Len(portCache) :
                 addr >= portCache[i].start /\ addr < portCache[i].end}
  IN IF hits = {} THEN {} ELSE {portCache[Min(hits)]}

updatePortCache(x) == portCache' = SubSeq(<<x>> \o portCache, 1, Min({3, Len(portCache) + 1}))

MapTypeOK ==
  /\ portMap \subseteq [start : Addr, end : Addr, id : Interfaces]
  /\ \A i \in 1 .. Len(portCache) : portCache[i] \in [start : Addr, end : Addr, id : Interfaces]
  /\ Len(portCache) <= 3
  /\ snoopPorts \in Seq(Interfaces)
  /\ fatal \in BOOLEAN

MapInit ==
  /\ portMap = {}
  /\ portCache = <<>>
  /\ snoopPorts = <<>>
  /\ offered = [p \in Interfaces |-> NoOffer]
  /\ fatal = FALSE

(* findPort, of an address that is not in the cache: the default port is   *)
(* not cached.                                                             *)
findPort(addr) ==
  /\ ~fatal
  /\ checkPortCache(addr) = {}
  /\ \E x \in Lookup(portMap, addr) : updatePortCache(x)
  /\ UNCHANGED <<portMap, snoopPorts, offered, fatal>>

(* Mutant: the cache is not cleared.                                       *)
KeepPortCache == UNCHANGED portCache

clearPortCache == portCache' = <<>>

(* The snoop list without the port.                                        *)
StopSnooping(p) == SelectSeq(snoopPorts, LAMBDA q : q # p)

(* recvStatusChange: the ranges of the port are replaced, one after the    *)
(* other, until one is found to conflict.  What the other devices do when  *)
(* they are told are later steps.                                          *)
recvStatusChange(p) ==
  \E o \in Offers[p], snoops \in BOOLEAN :
    LET insert(s, r) == IF s.fatal \/ find(s.map, r) # {}
                        THEN [s EXCEPT !.fatal = TRUE]
                        ELSE [s EXCEPT !.map = @ \cup {[start |-> r.start, end |-> r.end, id |-> p]}]
        others == {x \in portMap : x.id # p}
        after  == FoldLeft(insert, [map |-> others, fatal |-> FALSE], o)
    IN /\ ~fatal
       /\ clearPortCache
       /\ offered' = [offered EXCEPT ![p] = [ranges |-> o, snoops |-> snoops]]
       /\ snoopPorts' = IF snoops THEN Append(StopSnooping(p), p) ELSE StopSnooping(p)
       /\ portMap' = after.map
       /\ fatal' = after.fatal

MapNext ==
  \/ \E addr \in Addr : findPort(addr)
  \/ \E p \in Interfaces : recvStatusChange(p)

MapSpec == MapInit /\ [][MapNext]_mapVars

Disjoint == \A x, y \in portMap : x # y => ~overlap(x, y)

(***************************************************************************)
(* bus.cc:528-533: a range that overlaps one in the map is not inserted    *)
(* but ends the simulation, "has two ports with same range".               *)
(***************************************************************************)
ConflictsAreFatal == fatal \/ Disjoint

(***************************************************************************)
(* A hit in the port cache gives the port that the map gives: no entry     *)
(* outlives a change of the ranges.  Where ranges overlap, which of them   *)
(* is in the cache makes a difference.                                     *)
(***************************************************************************)
CacheAgrees ==
  Disjoint => \A addr \in Addr : \A x \in checkPortCache(addr) :
    {y.id : y \in Lookup(portMap, addr)} = {x.id}

(***************************************************************************)
(* The search finds the port for an address exactly if the device of some  *)
(* port has said that the address is in one of its ranges.  In a map with  *)
(* ranges that overlap the search may miss one.                            *)
(***************************************************************************)
FoundWhatWasOffered ==
  ~fatal /\ Disjoint => \A addr \in Addr :
    {x.id : x \in Lookup(portMap, addr)} =
      {p \in Interfaces : \E i \in DOMAIN offered[p].ranges :
         overlap(offered[p].ranges[i], [start |-> addr, end |-> addr])}

(***************************************************************************)
(* A port that snoops is told of a request once, the others never.         *)
(***************************************************************************)
SnoopedOnce ==
  \A p \in Interfaces : Cardinality({i \in 1 .. Len(snoopPorts) : snoopPorts[i] = p})
                     = IF offered[p].snoops THEN 1 ELSE 0

(***************************************************************************)
(* A packet goes where it belongs.  While the ranges in the map do not     *)
(* overlap, the map has what the devices last said and the port cache      *)
(* agrees with the map; the snoop list agrees with the ports in any case.  *)
(***************************************************************************)
RoutingInv == MapTypeOK /\ CacheAgrees /\ FoundWhatWasOffered /\ SnoopedOnce
=============================================================================

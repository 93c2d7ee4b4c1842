--------------------------- MODULE MCLocksEvents ---------------------------
(***************************************************************************)
(* The load-locks of memory and of the cache, and the event queue, for     *)
(* TLC.  They share no state; each is explored while the other is unused.  *)
(***************************************************************************)
EXTENDS MCLocks, EventOrder, TLC

CONSTANTS e1, e2, e3, e4, NULL, AutoSerialize

VARIABLES queue, when, scheduled, squashed, curTick

lockVars == <<vars, cacheVars>>

eventVars == <<queue, when, scheduled, squashed, curTick>>

EQ == INSTANCE EventQueue

(* Three events of the default priority, and one that is served last in    *)
(* its tick, as CPU ticks and exit events are.                             *)
TwoPriorities == (e1 :> 0 @@ e2 :> 0 @@ e3 :> 0 @@ e4 :> 1)

LocksEventsInit == MCInit /\ EQ!Init

LocksEventsNext ==
  \/ EQ!Init /\ MCNext /\ UNCHANGED eventVars
  \/ CacheUnused /\ MemoryUnused /\ EQ!Next /\ UNCHANGED lockVars

LocksEventsSpec == LocksEventsInit /\ [][LocksEventsNext]_<<lockVars, eventVars>>

(* The blocks of the cache set are alike.                                  *)
BlockSymmetry == Permutations(Blocks)

(***************************************************************************)
(* The pointers of the event queue are in order, as stated in module       *)
(* EventQueue.                                                             *)
(***************************************************************************)
QueueInv == EQ!QueueInv

(***************************************************************************)
(* The queue of eventq.cc implements the sorted list of module EventList.  *)
(* This is EQ!List!Spec; the steps that leave the queue alone come first,  *)
(* where TLC is done with them.                                            *)
(***************************************************************************)
ImplementsEventList ==
  EQ!List!Init /\ [][UNCHANGED eventVars \/ EQ!List!Next]_(EQ!List!vars)
=============================================================================

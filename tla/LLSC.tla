-------------------------------- MODULE LLSC --------------------------------
(***************************************************************************)
(* What a memory with load-locked and store-conditional promises.  A       *)
(* store-conditional may fail for no reason; it may succeed only if its    *)
(* context has loaded the location locked and no store has written to it   *)
(* since.  Writes that are not stores, such as swaps, may go unnoticed     *)
(* (Unnoticed); without them the promise is that nobody has written.       *)
(* Locations are locked in granules, Granule(a).                           *)
(***************************************************************************)
EXTENDS Naturals

CONSTANTS Contexts, Addrs, Values, Granule(_)

VARIABLES
  mem,      \* the memory the contexts share
  linked,   \* per context: the locations it may still store to conditionally
  resp      \* the answer to the last access: its context, the value, success

vars == <<mem, linked, resp>>

Answer == [context : Contexts, val : Values, ok : BOOLEAN]

Granules == {Granule(a) : a \in Addrs}

Init == /\ mem \in [Addrs -> Values]
        /\ linked = [c \in Contexts |-> {}]
        /\ resp \in Answer

\* Links may be lost at any time, and none appear.
Fewer == /\ linked' \in [Contexts -> SUBSET Granules]
         /\ \A c \in Contexts : linked'[c] \subseteq linked[c]

Load(c, a) == /\ resp' = [context |-> c, val |-> mem[a], ok |-> TRUE]
              /\ UNCHANGED mem /\ Fewer

LoadLocked(c, a) ==
  /\ resp' = [context |-> c, val |-> mem[a], ok |-> TRUE]
  /\ UNCHANGED mem
  /\ linked' \in [Contexts -> SUBSET Granules]
  /\ \A d \in Contexts :
        linked'[d] \subseteq linked[d] \cup (IF d = c THEN {Granule(a)} ELSE {})

\* A write leaves no link to the location.
Write(a, v) == /\ mem' = [mem EXCEPT ![a] = v]
               /\ Fewer
               /\ \A c \in Contexts : Granule(a) \notin linked'[c]

Store(c, a, v) == /\ Write(a, v)
                  /\ resp' = [context |-> c, val |-> v, ok |-> TRUE]

Succeed(c, a, v) == /\ Granule(a) \in linked[c]
                    /\ Write(a, v)
                    /\ resp' = [context |-> c, val |-> v, ok |-> TRUE]

Fail(c, a, v) == /\ resp' = [context |-> c, val |-> v, ok |-> FALSE]
                 /\ UNCHANGED mem /\ Fewer

\* A restored checkpoint
Lose == UNCHANGED <<mem, resp>> /\ Fewer

\* A swap, which answers the old value, or a write of the simulator itself
Unnoticed(a, v) == /\ mem' = [mem EXCEPT ![a] = v]
                   /\ \/ UNCHANGED resp
                      \/ \E c \in Contexts : resp' = [context |-> c, val |-> mem[a], ok |-> TRUE]
                   /\ Fewer

Next == \/ \E c \in Contexts, a \in Addrs :
              \/ Load(c, a) \/ LoadLocked(c, a)
              \/ \E v \in Values : Store(c, a, v) \/ Succeed(c, a, v) \/ Fail(c, a, v)
        \/ \E a \in Addrs, v \in Values : Unnoticed(a, v)
        \/ Lose

Spec == Init /\ [][Next]_vars
=============================================================================

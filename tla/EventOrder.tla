----------------------------- MODULE EventOrder -----------------------------
(***************************************************************************)
(* The events of the simulator and their order, sim/eventq.hh.  The        *)
(* abstract queue (EventList) and its implementation (EventQueue) share    *)
(* them.                                                                   *)
(***************************************************************************)
EXTENDS Integers

CONSTANTS
  Events,     \* the event objects
  Priority,   \* Event::priority(), smaller is served first
  LastTick    \* bound on the ticks that are explored

ASSUME EventOrderAssumption ==
  /\ Priority \in [Events -> Int]
  /\ LastTick \in Nat

Ticks == 0 .. LastTick

(* operator< and operator== on events, for the times w.                    *)
Before(w, l, r) == w[l] < w[r] \/ (w[l] = w[r] /\ Priority[l] < Priority[r])

SameBin(w, l, r) == w[l] = w[r] /\ Priority[l] = Priority[r]
=============================================================================

------------------------------ MODULE EventList ------------------------------
(***************************************************************************)
(* What the simulator's event queue promises: events in order of time and  *)
(* priority, those of equal rank last in first out, and a clock that never *)
(* runs backwards.  EventQueue is shown to implement this specification.   *)
(***************************************************************************)
EXTENDS EventOrder, Sequences

VARIABLES
  list,       \* the scheduled events, in the order of service
  when,       \* Event::when()
  squashed,   \* Event::squashed()
  curTick     \* the simulated time

vars == <<list, when, squashed, curTick>>

InList(s) == {s[i] : i \in 1 .. Len(s)}

InOrder(s, w) == \A i, j \in 1 .. Len(s) : i < j => ~Before(w, s[j], s[i])

Distinct(s) == \A i, j \in 1 .. Len(s) : i # j => s[i] # s[j]

(* t is s with e put in front of the events that it need not follow.       *)
Inserted(s, w, e, t) ==
  \E k \in 0 .. Len(s) :
    /\ \A i \in 1 .. k : Before(w, s[i], e)
    /\ \A i \in k + 1 .. Len(s) : ~Before(w, s[i], e)
    /\ t = [i \in 1 .. Len(s) + 1 |-> IF i <= k THEN s[i]
                                      ELSE IF i = k + 1 THEN e ELSE s[i - 1]]

(* s without its element k.                                                *)
Without(s, k) == [i \in 1 .. Len(s) - 1 |-> IF i < k THEN s[i] ELSE s[i + 1]]

TypeOK ==
  /\ list \in Seq(Events)
  /\ when \in [Events -> Ticks]
  /\ squashed \in [Events -> BOOLEAN]
  /\ curTick \in Ticks

Init ==
  /\ list = <<>>
  /\ when = [e \in Events |-> 0]
  /\ squashed = [e \in Events |-> FALSE]
  /\ curTick = 0

Schedule(e, t) ==
  /\ e \notin InList(list)
  /\ t >= curTick
  /\ when' = [when EXCEPT ![e] = t]
  /\ Inserted(list, when', e, list')
  /\ UNCHANGED <<squashed, curTick>>

Deschedule(e) ==
  /\ \E k \in 1 .. Len(list) : list[k] = e /\ list' = Without(list, k)
  /\ squashed' = [squashed EXCEPT ![e] = FALSE]
  /\ UNCHANGED <<when, curTick>>

Reschedule(e, t) ==
  /\ t >= curTick
  /\ when' = [when EXCEPT ![e] = t]
  /\ \/ e \notin InList(list) /\ Inserted(list, when', e, list')
     \/ \E k \in 1 .. Len(list) :
          list[k] = e /\ Inserted(Without(list, k), when', e, list')
  /\ squashed' = [squashed EXCEPT ![e] = FALSE]
  /\ UNCHANGED curTick

Squash(e) ==
  /\ e \in InList(list)
  /\ squashed' = [squashed EXCEPT ![e] = TRUE]
  /\ UNCHANGED <<list, when, curTick>>

Service ==
  /\ list # <<>>
  /\ curTick' = when[list[1]]
  /\ list' = Tail(list)
  /\ squashed' = [squashed EXCEPT ![list[1]] = FALSE]
  /\ UNCHANGED when

(* A restart from a checkpoint loses the squashed events and may exchange  *)
(* events of equal rank.                                                   *)
Restore ==
  /\ \E n \in 0 .. Len(list) : \E s \in [1 .. n -> Events] :
       /\ InList(s) = {e \in InList(list) : ~squashed[e]}
       /\ Distinct(s)
       /\ InOrder(s, when)
       /\ list' = s
  /\ squashed' = [e \in Events |-> FALSE]
  /\ UNCHANGED <<when, curTick>>

Next ==
  \/ \E e \in Events, t \in Ticks : Schedule(e, t) \/ Reschedule(e, t)
  \/ \E e \in Events : Deschedule(e) \/ Squash(e)
  \/ Service
  \/ Restore

Spec == Init /\ [][Next]_vars

(***************************************************************************)
(* The queue is sorted, holds no event twice, and nothing in it is due     *)
(* before the present time: the assertion "event scheduled in the past" of *)
(* simulate() holds.                                                       *)
(***************************************************************************)
Sorted ==
  /\ InOrder(list, when)
  /\ Distinct(list)
  /\ \A i \in 1 .. Len(list) : when[list[i]] >= curTick
=============================================================================

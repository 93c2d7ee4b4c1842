------------------------------ MODULE EventQueue ------------------------------
(***************************************************************************)
(* The simulator's event queue, sim/eventq.cc and eventq.hh: a linked list *)
(* of bins, one for every time and priority in use, each bin a stack.      *)
(* Only the top event of a bin has a nextBin pointer that is kept up to    *)
(* date; those below may be stale.                                         *)
(***************************************************************************)
EXTENDS EventOrder, FiniteSets, SequencesExt

CONSTANTS
  NULL,
  AutoSerialize \* the events with flag AutoSerialize

VARIABLES
  queue,      \* head of the queue and the two pointers of every event
  when,       \* Event::when()
  scheduled,  \* flag Scheduled
  squashed,   \* flag Squashed
  curTick     \* the simulated time

vars == <<queue, when, scheduled, squashed, curTick>>

Pointer == Events \cup {NULL}

Queue == [head : Pointer, nextBin : [Events -> Pointer],
          nextInBin : [Events -> Pointer]]

EmptyQueue == [head |-> NULL, nextBin |-> [e \in Events |-> NULL],
               nextInBin |-> [e \in Events |-> NULL]]

(* insertBefore: e becomes the top of a bin in front of curr, or of the    *)
(* bin of curr.                                                            *)
insertBefore(q, w, e, curr) ==
  IF curr = NULL \/ Before(w, e, curr)
  THEN [q EXCEPT !.nextBin[e] = curr, !.nextInBin[e] = NULL]
  ELSE [q EXCEPT !.nextBin[e] = q.nextBin[curr], !.nextInBin[e] = curr]

(* Mutant: the loop compares times and forgets priorities.                 *)
PrevBinByTime(q, w, e) ==
  LET walk[p \in Events] ==
        LET curr == q.nextBin[p]
        IN IF curr # NULL /\ w[curr] < w[e] THEN walk[curr] ELSE p
  IN walk[q.head]

(* The search loop of insert and remove: prev when the loop ends.          *)
PrevBin(q, w, e) ==
  LET walk[p \in Events] ==
        LET curr == q.nextBin[p]
        IN IF curr # NULL /\ Before(w, curr, e) THEN walk[curr] ELSE p
  IN walk[q.head]

insert(q, w, e) ==
  IF q.head = NULL \/ ~Before(w, q.head, e)
  THEN [insertBefore(q, w, e, q.head) EXCEPT !.head = e]
  ELSE LET prev == PrevBin(q, w, e)
       IN [insertBefore(q, w, e, q.nextBin[prev]) EXCEPT !.nextBin[prev] = e]

(* The search loop of removeItem: the event of the bin under top whose     *)
(* nextInBin is e, or the last one.                                        *)
AboveInBin(q, e, top) ==
  LET walk[p \in Events] ==
        IF q.nextInBin[p] \in {e, NULL} THEN p ELSE walk[q.nextInBin[p]]
  IN walk[top]

(* removeItem: the pointers after e has left the bin under top, and the    *)
(* new top.                                                                *)
removeItem(q, e, top) ==
  LET next == q.nextInBin[top]
      curr == AboveInBin(q, e, top)
  IN IF e = top
     THEN IF next = NULL
          THEN [q |-> q, top |-> q.nextBin[top]]
          ELSE [q |-> [q EXCEPT !.nextBin[next] = q.nextBin[top]], top |-> next]
     ELSE [q |-> [q EXCEPT !.nextInBin[curr] = q.nextInBin[e]], top |-> top]

remove(q, w, e) ==
  IF SameBin(w, q.head, e)
  THEN LET r == removeItem(q, e, q.head) IN [r.q EXCEPT !.head = r.top]
  ELSE LET prev == PrevBin(q, w, e)
           r    == removeItem(q, e, q.nextBin[prev])
       IN [r.q EXCEPT !.nextBin[prev] = r.top]

(* remove does not end in panic("event not found!").                       *)
Found(q, w, e) ==
  /\ q.head # NULL
  /\ LET top == IF SameBin(w, q.head, e) THEN q.head
                ELSE q.nextBin[PrevBin(q, w, e)]
     IN /\ top # NULL
        /\ SameBin(w, top, e)
        /\ e = top \/ q.nextInBin[AboveInBin(q, e, top)] = e

(* The order in which serialize and debugVerify visit the events: each bin *)
(* from its top down, then the next bin.  n bounds the visits, so that a   *)
(* cycle would show as a repetition.                                       *)
RECURSIVE VisitFrom(_, _, _, _)
VisitFrom(q, top, cur, n) ==
  IF cur = NULL \/ n = 0 THEN <<>>
  ELSE LET below == q.nextInBin[cur]
           bin   == q.nextBin[top]
       IN <<cur>> \o IF below # NULL THEN VisitFrom(q, top, below, n - 1)
                     ELSE VisitFrom(q, bin, bin, n - 1)

Visit(q) == VisitFrom(q, q.head, q.head, Cardinality(Events) + 1)

TypeOK ==
  /\ queue \in Queue
  /\ when \in [Events -> Ticks]
  /\ scheduled \in [Events -> BOOLEAN]
  /\ squashed \in [Events -> BOOLEAN]
  /\ curTick \in Ticks

Init ==
  /\ queue = EmptyQueue
  /\ when = [e \in Events |-> 0]
  /\ scheduled = [e \in Events |-> FALSE]
  /\ squashed = [e \in Events |-> FALSE]
  /\ curTick = 0

schedule(e, t) ==
  /\ ~scheduled[e]
  /\ t >= curTick
  /\ when' = [when EXCEPT ![e] = t]
  /\ queue' = insert(queue, when', e)
  /\ scheduled' = [scheduled EXCEPT ![e] = TRUE]
  /\ UNCHANGED <<squashed, curTick>>

deschedule(e) ==
  /\ scheduled[e]
  /\ queue' = remove(queue, when, e)
  /\ squashed' = [squashed EXCEPT ![e] = FALSE]
  /\ scheduled' = [scheduled EXCEPT ![e] = FALSE]
  /\ UNCHANGED <<when, curTick>>

(* reschedule, of a scheduled event or, with always, of any.               *)
reschedule(e, t) ==
  /\ t >= curTick
  /\ when' = [when EXCEPT ![e] = t]
  /\ LET q == IF scheduled[e] THEN remove(queue, when, e) ELSE queue
     IN queue' = insert(q, when', e)
  /\ squashed' = [squashed EXCEPT ![e] = FALSE]
  /\ scheduled' = [scheduled EXCEPT ![e] = TRUE]
  /\ UNCHANGED curTick

squash(e) ==
  /\ scheduled[e]
  /\ squashed' = [squashed EXCEPT ![e] = TRUE]
  /\ UNCHANGED <<queue, when, scheduled, curTick>>

(* Mutant: the next event of the bin does not take over nextBin.           *)
ServiceOneStale ==
  LET event == queue.head
      next  == queue.nextInBin[event]
  IN /\ event # NULL
     /\ curTick' = when[event]
     /\ scheduled' = [scheduled EXCEPT ![event] = FALSE]
     /\ squashed' = [squashed EXCEPT ![event] = FALSE]
     /\ queue' = [queue EXCEPT !.head = IF next # NULL THEN next
                                        ELSE queue.nextBin[event]]
     /\ UNCHANGED when

(* One turn of the loop in simulate(): the time advances to the head,      *)
(* which leaves the queue and is processed unless squashed.  What process  *)
(* does to the queue are the steps that follow.                            *)
serviceOne ==
  LET event == queue.head
      next  == queue.nextInBin[event]
  IN /\ event # NULL
     /\ curTick' = when[event]
     /\ scheduled' = [scheduled EXCEPT ![event] = FALSE]
     /\ squashed' = [squashed EXCEPT ![event] = FALSE]
     /\ queue' = IF next # NULL
                 THEN [queue EXCEPT !.nextBin[next] = queue.nextBin[event],
                                    !.head = next]
                 ELSE [queue EXCEPT !.head = queue.nextBin[event]]
     /\ UNCHANGED when

(* A checkpoint and a restart from it.  serialize writes the events with   *)
(* flag AutoSerialize in the order of Visit, and they are scheduled again  *)
(* in that order; the owners of the others schedule them again in between. *)
(* Event::unserialize leaves out what was squashed.                        *)
restore ==
  LET saved == SelectSeq(Visit(queue), LAMBDA e : e \in AutoSerialize /\ ~squashed[e])
  IN /\ \E order \in SetToSeqs({e \in Events : scheduled[e] /\ ~squashed[e]}) :
          /\ SelectSeq(order, LAMBDA e : e \in AutoSerialize) = saved
          /\ queue' = FoldLeft(LAMBDA q, e : insert(q, when, e), EmptyQueue, order)
     /\ scheduled' = [e \in Events |-> scheduled[e] /\ ~squashed[e]]
     /\ squashed' = [e \in Events |-> FALSE]
     /\ UNCHANGED <<when, curTick>>

Next ==
  \/ \E e \in Events, t \in Ticks : schedule(e, t) \/ reschedule(e, t)
  \/ \E e \in Events : deschedule(e) \/ squash(e)
  \/ serviceOne
  \/ restore

Spec == Init /\ [][Next]_vars

(***************************************************************************)
(* No reachable queue makes remove panic with "event not found!": every    *)
(* scheduled event is found by the search along bins and within its bin,   *)
(* whatever stale pointers there are.                                      *)
(***************************************************************************)
EventFound == \A e \in Events : scheduled[e] => Found(queue, when, e)

(***************************************************************************)
(* debugVerify() returns true: a walk over the queue meets no event twice, *)
(* and times and priorities never decrease along it.                       *)
(***************************************************************************)
debugVerify ==
  LET v == Visit(queue)
  IN /\ IsInjective(v)
     /\ \A i \in 1 .. Len(v) - 1 : ~Before(when, v[i + 1], v[i])

(***************************************************************************)
(* The pointers implement a sorted list of exactly the scheduled events.   *)
(***************************************************************************)
List == INSTANCE EventList WITH list <- Visit(queue)

(***************************************************************************)
(* The walk over the pointers meets the events whose Scheduled flag is     *)
(* set, and no other.                                                      *)
(***************************************************************************)
FlagsAgree == \A e \in Events : scheduled[e] <=> Contains(Visit(queue), e)

(***************************************************************************)
(* The pointers are in order: remove never panics, debugVerify() is true,  *)
(* and the flags and the walk tell the same events.                        *)
(***************************************************************************)
QueueInv == TypeOK /\ EventFound /\ debugVerify /\ FlagsAgree
=============================================================================

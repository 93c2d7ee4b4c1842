-------------------------------- MODULE LRU --------------------------------
(***************************************************************************)
(* One set of a cache with the LRU tags (mem/cache/tags/lru.cc and         *)
(* cacheset.cc), as operators on the list of its frames, the most recently *)
(* used first.  A frame holds what the block of the frame is, whether it   *)
(* is valid, and the contexts that have loaded it locked.                  *)
(***************************************************************************)
EXTENDS Naturals, Sequences

Frame(tag, valid, locks) == [tag |-> tag, valid |-> valid, lockList |-> locks]

\* The positions that hold tag, at most one
Holds(set, tag) == {i \in 1..Len(set) : set[i].valid /\ set[i].tag = tag}

findBlk(set, tag) == CHOOSE i \in Holds(set, tag) : TRUE

\* CacheSet::moveToHead of the frame at i: the ones before it move up by one
moveToHead(set, i) ==
    [j \in 1..Len(set) |-> IF j = 1 THEN set[i] ELSE IF j <= i THEN set[j - 1] ELSE set[j]]

\* accessBlock
accessBlock(set, tag) ==
    IF Holds(set, tag) = {} THEN set ELSE moveToHead(set, findBlk(set, tag))

\* findVictim: the last frame, even when another one is free
findVictim(set) == Len(set)

\* insertBlock into the frame at i, whose status the caller sets: the tag is
\* new, the frame's lockList is the one it had
insertBlock(set, i, tag) ==
    moveToHead([set EXCEPT ![i] = Frame(tag, TRUE, set[i].lockList)], i)

\* invalidateBlk of the block tag, if it is there
invalidateBlk(set, tag) ==
    [i \in 1..Len(set) |-> IF i \in Holds(set, tag)
                           THEN Frame(set[i].tag, FALSE, {}) ELSE set[i]]
=============================================================================

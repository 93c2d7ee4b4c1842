--------------------------- MODULE BasePrefetcher ---------------------------
(***************************************************************************)
(* The simulator's queue of prefetch requests, the list pf of              *)
(* prefetch/base.cc, as operators on a sequence of block addresses.        *)
(***************************************************************************)
EXTENDS Integers, Sequences

CONSTANT prefetcher_size   \* capacity of pf

ASSUME PrefetcherSizeAssumption == prefetcher_size \in Nat \ {0}

(* The elements of a list, and erasure at a position.  (SequencesExt has   *)
(* both, but its libraries would be in scope of every proof on the L2.)    *)
InSeq(s) == {s[i] : i \in 1 .. Len(s)}

NoRepeats(s) == \A i, j \in 1 .. Len(s) : i # j => s[i] # s[j]

erase(s, i) == SubSeq(s, 1, i - 1) \o SubSeq(s, i + 1, Len(s))

inPrefetch(pf, b) == \E i \in 1 .. Len(pf) : pf[i] = b

\* Mutant: the queued prefetch of a requested block stays.
DropNothing(pf, b) == pf

(* notify: a request for block b takes the queued prefetch of b out, the   *)
(* first that inPrefetch finds.                                            *)
DropQueued(pf, b) ==
  IF inPrefetch(pf, b)
  THEN erase(pf, CHOOSE i \in 1 .. Len(pf) :
                   pf[i] = b /\ \A j \in 1 .. i - 1 : pf[j] # b)
  ELSE pf

(* notify, one turn of the insertion loop: a block that is queued already  *)
(* is skipped, and a full queue loses its oldest entry.                    *)
EnqueueStep(pf, b) ==
  IF inPrefetch(pf, b) THEN pf
  ELSE Append(IF Len(pf) = prefetcher_size THEN Tail(pf) ELSE pf, b)

Enqueue(pf, addresses) ==
  LET run[i \in 0 .. Len(addresses)] ==
        IF i = 0 THEN pf ELSE EnqueueStep(run[i - 1], addresses[i])
  IN  run[Len(addresses)]
=============================================================================

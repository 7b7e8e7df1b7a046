---------------------------- MODULE MCResidency ----------------------------
(***************************************************************************)
(* Residency.tla with a history of the acquire order, for TLC.             *)
(***************************************************************************)
EXTENDS Residency, Sequences, SequencesExt

VARIABLE recency   \* history: the fds acquired so far, the latest last

MCAllocSize == <<2, 1, 2, 4, 0>>   \* 4 exceeds the budget alone, 0 is refused

\* The order of the last successful acquires, kept apart from the code's stamps.
RecencyAfter ==
  IF held' # held /\ ret'.op = "acquire"
  THEN Append(SelectSeq(recency, LAMBDA f : f # ret'.fd), ret'.fd)
  ELSE recency

MCInit == Init /\ recency = <<>>
MCNext == Next /\ recency' = RecencyAfter
MCSpec == MCInit /\ [][MCNext]_<<vars, recency>>
            /\ WF_<<vars, recency>>(AcquireStep /\ recency' = RecencyAfter)
            /\ WF_<<vars, recency>>((EvictForDestroy \/ EndDestroy) /\ recency' = RecencyAfter)

Position(fd) == CHOOSE i \in DOMAIN recency : recency[i] = fd

\* An eviction takes the idle allocation whose last acquire is the oldest: no
\* idle allocation that stays mapped was acquired before it.
EvictsLeastRecent ==
  [][call # NoCall =>
       \A gone \in mapped \ mapped' : \A kept \in Idle \cap mapped' :
         Position(gone) < Position(kept)]_<<vars, recency>>
============================================================================

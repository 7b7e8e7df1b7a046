----------------------------- MODULE PinBudget -----------------------------
(***************************************************************************)
(* What the residency cache promises the commands of a session, with the   *)
(* cache itself left out: allocations are pinned and unpinned, and a pin   *)
(* is granted exactly when the pinned allocations would fit the budget.    *)
(* Which idle allocations happen to be mapped is invisible here.           *)
(* Residency.tla is the implementation.                                    *)
(***************************************************************************)
EXTENDS Naturals

CONSTANTS
  Fd,         \* file descriptors of the host's allocations
  AllocSize,  \* AllocSize[fd]: the allocation size the host passes with fd
  Bytes(_),   \* Bytes(S): the sizes of the allocations in S, summed
  Holder,     \* command buffer executions of the session
  Budgets     \* budgets the host may ask for

VARIABLES
  alive,      \* the cache exists (session open)
  reliable,   \* the platform's realloc and HAP_mmap2 never fail in this run
  budget,     \* bytes that may be mapped at once, 0 until the host sets it
  held,       \* held[h][fd]: acquires of fd by h that h did not release yet
  ret         \* outcome of the last call

pinVars == <<alive, reliable, budget, held, ret>>

Pinned == {fd \in Fd : \E h \in Holder : held[h][fd] > 0}

Answer(op, fd, code) == [op |-> op, fd |-> fd, code |-> code]

PinInit ==
  /\ alive = TRUE
  /\ reliable \in BOOLEAN
  /\ budget = 0
  /\ held = [h \in Holder |-> [fd \in Fd |-> 0]]
  /\ ret = [op |-> "none"]

PinSetBudget(b) ==
  /\ alive
  /\ budget' = IF b = 0 THEN budget ELSE b
  /\ ret' = [op |-> "set_budget", code |-> IF b = 0 THEN "EBADPARM" ELSE "SUCCESS"]
  /\ UNCHANGED <<alive, reliable, held>>

\* A pin is granted only if all pinned allocations fit the budget together.
PinGrant(h, fd) ==
  /\ alive
  /\ AllocSize[fd] > 0
  /\ Bytes(Pinned \cup {fd}) <= budget
  /\ held' = [held EXCEPT ![h][fd] = @ + 1]
  /\ ret' = Answer("acquire", fd, "SUCCESS")
  /\ UNCHANGED <<alive, reliable, budget>>

\* A pin is refused for now: somebody holds a pin whose release may make room.
PinWouldBlock(h, fd) ==
  /\ alive
  /\ fd \notin Pinned
  /\ Pinned # {}
  /\ reliable => Bytes(Pinned \cup {fd}) > budget
  /\ ret' = Answer("acquire", fd, "EWOULDBLOCK")
  /\ UNCHANGED <<alive, reliable, budget, held>>

\* A pin is refused for good: nothing is pinned and the allocation alone
\* exceeds the budget, or the platform failed.
PinNoMemory(h, fd) ==
  /\ alive
  /\ fd \notin Pinned
  /\ reliable => Pinned = {} /\ AllocSize[fd] > budget
  /\ ret' = Answer("acquire", fd, "ENOMEMORY")
  /\ UNCHANGED <<alive, reliable, budget, held>>

PinBadParm(h, fd) ==
  /\ alive
  /\ AllocSize[fd] = 0
  /\ ret' = Answer("acquire", fd, "EBADPARM")
  /\ UNCHANGED <<alive, reliable, budget, held>>

PinRelease(h, fd) ==
  /\ alive
  /\ held[h][fd] > 0
  /\ held' = [held EXCEPT ![h][fd] = @ - 1]
  /\ ret' = Answer("release", fd, "SUCCESS")
  /\ UNCHANGED <<alive, reliable, budget>>

\* The host asks to forget fd; it is told whether fd is pinned.
PinForget(fd) ==
  /\ alive
  /\ ret' = Answer("forget", fd, IF fd \in Pinned THEN "IN_USE" ELSE "SUCCESS")
  /\ UNCHANGED <<alive, reliable, budget, held>>

PinDestroy ==
  /\ alive
  /\ alive' = FALSE
  /\ ret' = [op |-> "destroy"]
  /\ UNCHANGED <<reliable, budget, held>>

PinNext ==
  \/ \E b \in Budgets : PinSetBudget(b)
  \/ \E h \in Holder, fd \in Fd :
       \/ PinGrant(h, fd)
       \/ PinWouldBlock(h, fd)
       \/ PinNoMemory(h, fd)
       \/ PinBadParm(h, fd)
       \/ PinRelease(h, fd)
  \/ \E fd \in Fd : PinForget(fd)
  \/ PinDestroy

PinSpec == PinInit /\ [][PinNext]_pinVars
============================================================================

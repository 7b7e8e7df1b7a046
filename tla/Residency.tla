----------------------------- MODULE Residency -----------------------------
(***************************************************************************)
(* The DSP's residency cache (dsp/residency.c): the host's allocations     *)
(* stay mapped between commands, within a budget, and are unmapped in LRU  *)
(* order when room is needed.                                              *)
(*                                                                         *)
(* Every entry point holds the cache's mutex from start to end. A call     *)
(* that loops over evictions is cut into its iterations: `call` is the     *)
(* state of the call that holds the mutex, NoCall when the mutex is free.  *)
(* The other entry points run in one step.                                 *)
(*                                                                         *)
(* HAP_mmap2 and realloc are external: each may fail, unless `reliable`.   *)
(* HAP_munmap2's failure is only logged by the code and leaves no trace in *)
(* the cache's state. Cache maintenance is the subject of Coherence.tla.   *)
(***************************************************************************)
EXTENDS WeightedSum

CONSTANTS
  Fd,               \* file descriptors of the host's allocations
  AllocSize,        \* AllocSize[fd]: the allocation size the host passes with fd
  Holder,           \* command buffer executions of the session
  Budgets,          \* budgets the host may ask for
  InitialCapacity,  \* entries allocated first (64 in the code)
  MaxUse,           \* model bound: successful acquires in a behaviour
  NoCall            \* the mutex is free

ASSUME FdAssumption == IsFiniteSet(Fd)
ASSUME AllocSizeAssumption == AllocSize \in [Fd -> Nat]
ASSUME HolderAssumption == IsFiniteSet(Holder)
ASSUME BudgetsAssumption == Budgets \subseteq Nat
ASSUME CapacityAssumption == InitialCapacity \in Nat \ {0}
ASSUME MaxUseAssumption == MaxUse \in Nat

VARIABLES
  alive,        \* the cache exists (session open)
  reliable,     \* realloc and HAP_mmap2 never fail in this behaviour
  budget,       \* bytes that may be mapped at once, 0 until the host sets it
  mappedBytes,  \* counter: sizes of all entries
  inUseBytes,   \* counter: sizes of the entries with refCount > 0
  useCounter,   \* counter: successful acquires
  mapped,       \* the fds that have an entry
  refCount,     \* per entry: acquires not released yet
  lastUse,      \* per entry: useCounter at its last acquire
  capacity,     \* entries the table has room for
  call,         \* the call that holds the mutex, or NoCall
  held,         \* the callers' side: acquires each holder must still release
  ret           \* what the last call returned

cacheVars == <<mappedBytes, inUseBytes, useCounter, mapped, refCount, lastUse>>
vars == <<alive, reliable, budget, mappedBytes, inUseBytes, useCounter, mapped,
          refCount, lastUse, capacity, call, held, ret>>

Answer(op, fd, code) == [op |-> op, fd |-> fd, code |-> code]

Calls ==
  [op : {"acquire"}, holder : Holder, fd : Fd, phase : {"room", "grow", "map"}]
    \cup [op : {"destroy"}]

Bytes(S) == SumOver(AllocSize, S)

Idle == {fd \in mapped : refCount[fd] = 0}
InUse == {fd \in mapped : refCount[fd] > 0}

TypeOK ==
  /\ alive \in BOOLEAN
  /\ reliable \in BOOLEAN
  /\ budget \in Nat
  /\ mappedBytes \in Nat
  /\ inUseBytes \in Nat
  /\ useCounter \in Nat
  /\ mapped \subseteq Fd
  /\ refCount \in [Fd -> Nat]
  /\ lastUse \in [Fd -> Nat]
  /\ capacity \in Nat
  /\ call \in Calls \cup {NoCall}
  /\ held \in [Holder -> [Fd -> Nat]]

(* hexagon_dsp_residency_create *)
Init ==
  /\ alive = TRUE
  /\ reliable \in BOOLEAN
  /\ budget = 0
  /\ mappedBytes = 0
  /\ inUseBytes = 0
  /\ useCounter = 0
  /\ mapped = {}
  /\ refCount = [fd \in Fd |-> 0]
  /\ lastUse = [fd \in Fd |-> 0]
  /\ capacity = 0
  /\ call = NoCall
  /\ held = [h \in Holder |-> [fd \in Fd |-> 0]]
  /\ ret = [op |-> "none"]

----------------------------------------------------------------------------
(* Helpers that run inside a call *)

\* hexa_residency_unmap_entry
UnmapEntry(fd) ==
  /\ mappedBytes' = mappedBytes - AllocSize[fd]
  /\ mapped' = mapped \ {fd}

\* A mistake the runs must catch: in-use entries are evicted too.
EvictOneAny ==
  \E fd \in mapped :
    /\ \A other \in mapped : lastUse[fd] <= lastUse[other]
    /\ UnmapEntry(fd)
    /\ UNCHANGED <<inUseBytes, useCounter, refCount, lastUse>>

\* hexa_residency_evict_one, when there is something to evict
EvictOne ==
  \E fd \in Idle :
    /\ \A other \in Idle : lastUse[fd] <= lastUse[other]
    /\ UnmapEntry(fd)
    /\ UNCHANGED <<inUseBytes, useCounter, refCount, lastUse>>

\* A mistake the runs must catch: an entry that is mapped already keeps its old stamp.
TouchOnce(h, fd) ==
  /\ useCounter' = useCounter + 1
  /\ lastUse' = IF fd \in mapped THEN lastUse ELSE [lastUse EXCEPT ![fd] = useCounter + 1]
  /\ held' = [held EXCEPT ![h][fd] = @ + 1]
  /\ ret' = Answer("acquire", fd, "SUCCESS")

\* A successful acquire stamps the entry and hands a reference to the caller.
Touch(h, fd) ==
  /\ useCounter' = useCounter + 1
  /\ lastUse' = [lastUse EXCEPT ![fd] = useCounter + 1]
  /\ held' = [held EXCEPT ![h][fd] = @ + 1]
  /\ ret' = Answer("acquire", fd, "SUCCESS")

Refuse(code) ==
  /\ ret' = Answer("acquire", call.fd, code)
  /\ call' = NoCall
  /\ UNCHANGED <<alive, reliable, budget, capacity, held>>
  /\ UNCHANGED cacheVars

\* A mistake the runs must catch: the caller is never told to wait.
FullCodeFinal == "ENOMEMORY"

\* Nothing is left to evict: waiting may help only while somebody holds something.
FullCode == IF inUseBytes > 0 THEN "EWOULDBLOCK" ELSE "ENOMEMORY"

----------------------------------------------------------------------------
(* Entry points *)

\* The host sets the budget once, when it opens the session (device_set_up).
SetBudget(b) ==
  /\ alive /\ call = NoCall
  /\ budget = 0
  /\ budget' = IF b = 0 THEN budget ELSE b
  /\ ret' = [op |-> "set_budget", code |-> IF b = 0 THEN "EBADPARM" ELSE "SUCCESS"]
  /\ UNCHANGED <<alive, reliable, capacity, call, held>>
  /\ UNCHANGED cacheVars

\* A mistake the runs must catch: an idle entry is reused without counting it in use.
AcquireHitUncounted(h, fd) ==
  /\ alive /\ call = NoCall /\ useCounter < MaxUse
  /\ fd \in mapped
  /\ refCount' = [refCount EXCEPT ![fd] = @ + 1]
  /\ Touch(h, fd)
  /\ UNCHANGED <<alive, reliable, budget, mappedBytes, inUseBytes, mapped, capacity, call>>

AcquireHit(h, fd) ==
  /\ alive /\ call = NoCall /\ useCounter < MaxUse
  /\ fd \in mapped
  /\ inUseBytes' = IF refCount[fd] = 0 THEN inUseBytes + AllocSize[fd] ELSE inUseBytes
  /\ refCount' = [refCount EXCEPT ![fd] = @ + 1]
  /\ Touch(h, fd)
  /\ UNCHANGED <<alive, reliable, budget, mappedBytes, mapped, capacity, call>>

AcquireBadParm(h, fd) ==
  /\ alive /\ call = NoCall
  /\ fd \notin mapped
  /\ AllocSize[fd] = 0
  /\ ret' = Answer("acquire", fd, "EBADPARM")
  /\ UNCHANGED <<alive, reliable, budget, capacity, call, held>>
  /\ UNCHANGED cacheVars

AcquireMiss(h, fd) ==
  /\ alive /\ call = NoCall /\ useCounter < MaxUse
  /\ fd \notin mapped
  /\ AllocSize[fd] > 0
  /\ call' = [op |-> "acquire", holder |-> h, fd |-> fd, phase |-> "room"]
  /\ UNCHANGED <<alive, reliable, budget, capacity, held, ret>>
  /\ UNCHANGED cacheVars

Acquiring(phase) == call # NoCall /\ call.op = "acquire" /\ call.phase = phase

\* A mistake the runs must catch: room is made only once the budget is exceeded.
OverBudgetLate == mappedBytes > budget

\* while (mapped_bytes + alloc_size > budget): evict, or give up.
OverBudget == mappedBytes + AllocSize[call.fd] > budget

EvictForRoom ==
  /\ Acquiring("room")
  /\ OverBudget
  /\ EvictOne
  /\ UNCHANGED <<alive, reliable, budget, capacity, call, held, ret>>

\* A mistake the runs must catch: with entries in use the call waits for them, holding the mutex.
RoomFailsWhenIdle ==
  /\ Acquiring("room")
  /\ OverBudget
  /\ Idle = {} /\ inUseBytes = 0
  /\ Refuse(FullCode)

RoomFails ==
  /\ Acquiring("room")
  /\ OverBudget
  /\ Idle = {}
  /\ Refuse(FullCode)

RoomFound ==
  /\ Acquiring("room")
  /\ ~ OverBudget
  /\ call' = [call EXCEPT !.phase = "grow"]
  /\ UNCHANGED <<alive, reliable, budget, capacity, held, ret>>
  /\ UNCHANGED cacheVars

\* Room for another entry in the table: realloc when it is full.
TableFull == Cardinality(mapped) = capacity

GrowTable ==
  /\ Acquiring("grow")
  /\ capacity' = IF ~ TableFull THEN capacity
                 ELSE IF capacity > 0 THEN 2 * capacity ELSE InitialCapacity
  /\ call' = [call EXCEPT !.phase = "map"]
  /\ UNCHANGED <<alive, reliable, budget, held, ret>>
  /\ UNCHANGED cacheVars

GrowFails ==
  /\ Acquiring("grow")
  /\ TableFull
  /\ ~ reliable
  /\ Refuse("ENOMEMORY")

\* HAP_mmap2 succeeds: add the entry, in use once.
Map ==
  /\ Acquiring("map")
  /\ LET fd == call.fd IN
       /\ mapped' = mapped \cup {fd}
       /\ refCount' = [refCount EXCEPT ![fd] = 1]
       /\ mappedBytes' = mappedBytes + AllocSize[fd]
       /\ inUseBytes' = inUseBytes + AllocSize[fd]
       /\ Touch(call.holder, fd)
  /\ call' = NoCall
  /\ UNCHANGED <<alive, reliable, budget, capacity>>

\* HAP_mmap2 fails: evict one more and retry, or give up.
EvictForMap ==
  /\ Acquiring("map")
  /\ ~ reliable
  /\ EvictOne
  /\ UNCHANGED <<alive, reliable, budget, capacity, call, held, ret>>

MapFails ==
  /\ Acquiring("map")
  /\ ~ reliable
  /\ Idle = {}
  /\ Refuse(FullCode)

\* Callers release what they acquired; the code ignores any other release.
Release(h, fd) ==
  /\ alive /\ call = NoCall
  /\ held[h][fd] > 0
  /\ IF fd \in mapped /\ refCount[fd] > 0
     THEN /\ refCount' = [refCount EXCEPT ![fd] = @ - 1]
          /\ inUseBytes' = IF refCount[fd] = 1 THEN inUseBytes - AllocSize[fd]
                                               ELSE inUseBytes
     ELSE UNCHANGED <<refCount, inUseBytes>>
  /\ held' = [held EXCEPT ![h][fd] = @ - 1]
  /\ ret' = Answer("release", fd, "SUCCESS")
  /\ UNCHANGED <<alive, reliable, budget, mappedBytes, useCounter, mapped, lastUse,
                 capacity, call>>

Forget(fd) ==
  /\ alive /\ call = NoCall
  /\ IF fd \in Idle THEN UnmapEntry(fd) ELSE UNCHANGED <<mappedBytes, mapped>>
  /\ ret' = Answer("forget", fd, IF fd \in InUse THEN "IN_USE" ELSE "SUCCESS")
  /\ UNCHANGED <<alive, reliable, budget, inUseBytes, useCounter, refCount, lastUse,
                 capacity, call, held>>

BeginDestroy ==
  /\ alive /\ call = NoCall
  /\ call' = [op |-> "destroy"]
  /\ UNCHANGED <<alive, reliable, budget, capacity, held, ret>>
  /\ UNCHANGED cacheVars

Destroying == call # NoCall /\ call.op = "destroy"

EvictForDestroy ==
  /\ Destroying
  /\ EvictOne
  /\ UNCHANGED <<alive, reliable, budget, capacity, call, held, ret>>

\* Entries in use are left mapped, a command may still be using them.
EndDestroy ==
  /\ Destroying
  /\ Idle = {}
  /\ alive' = FALSE
  /\ call' = NoCall
  /\ ret' = [op |-> "destroy"]
  /\ UNCHANGED <<reliable, budget, capacity, held>>
  /\ UNCHANGED cacheVars

AcquireStep ==
  \/ EvictForRoom \/ RoomFails \/ RoomFound
  \/ GrowTable \/ GrowFails
  \/ Map \/ EvictForMap \/ MapFails

Next ==
  \/ \E b \in Budgets : SetBudget(b)
  \/ \E h \in Holder, fd \in Fd :
       AcquireHit(h, fd) \/ AcquireBadParm(h, fd) \/ AcquireMiss(h, fd)
  \/ AcquireStep
  \/ \E h \in Holder, fd \in Fd : Release(h, fd)
  \/ \E fd \in Fd : Forget(fd)
  \/ BeginDestroy \/ EvictForDestroy \/ EndDestroy

Spec == Init /\ [][Next]_vars

\* A thread inside a call keeps running: the code between lock and unlock never waits.
FairSpec == Spec /\ WF_vars(AcquireStep) /\ WF_vars(EvictForDestroy \/ EndDestroy)

----------------------------------------------------------------------------
(* Properties *)

\* The two byte counters say what their comments say, after every step of
\* every call: "sum of the sizes of all entries", "... with ref_count > 0".
Accounting ==
  /\ mappedBytes = Bytes(mapped)
  /\ inUseBytes = Bytes(InUse)

\* The reference counts are the holders' outstanding acquires, so no release
\* is lost, none is counted twice, and what somebody holds stays mapped.
RefsAreHeld ==
  \A fd \in Fd :
    IF fd \in mapped
    THEN refCount[fd] = SumOver([h \in Holder |-> held[h][fd]], Holder)
    ELSE \A h \in Holder : held[h][fd] = 0

\* The mapped allocations never exceed the budget, whatever was evicted,
\* forgotten or mapped in between.
WithinBudget == mappedBytes <= budget

\* What a call may rely on while it holds the mutex: the fd it adds is not
\* mapped yet, and once room was made nothing takes the room away.
CallConsistent ==
  /\ \A fd \in mapped : AllocSize[fd] > 0
  /\ call # NoCall => alive
  /\ (call # NoCall /\ call.op = "acquire") =>
       /\ call.fd \notin mapped
       /\ AllocSize[call.fd] > 0
       /\ call.phase # "room" => mappedBytes + AllocSize[call.fd] <= budget

\* The inductive invariant.
Inv == TypeOK /\ Accounting /\ RefsAreHeld /\ WithinBudget /\ CallConsistent

\* A refused acquire returns: no call keeps the mutex forever.
CallsReturn == []<>(call = NoCall)

\* The cache is invisible: acquire and release behave as pins against the
\* budget, however the entries are mapped, evicted and remapped.
Pins == INSTANCE PinBudget
PinsImplemented == Pins!PinSpec
============================================================================

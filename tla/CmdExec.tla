------------------------------ MODULE CmdExec ------------------------------
(***************************************************************************)
(* Execution of one command buffer on the DSP (dsp/command_buffer.c): the  *)
(* master walks the recorded commands, hands dispatches to worker threads, *)
(* runs HMX dispatches, copies and fills itself, and waits for completions *)
(* when it runs out of task slots, residency budget or VTCM.               *)
(*                                                                         *)
(* One action is one stretch of code between two points where the master   *)
(* can be overtaken by a worker. hexa_cmd_buf_sched_wait_one is a          *)
(* subroutine: `back` is the label it returns to. The residency cache is   *)
(* used by its contract (PinBudget.tla), the only execution of its session *)
(* being this one. VTCM is counted in granules of 2 KiB; the global pool   *)
(* (VtcmPool of hexagon-mlir) is external and may place a partition in any *)
(* free block that is large enough.                                        *)
(***************************************************************************)
EXTENDS WeightedSum, Sequences

CONSTANTS
  Programs,       \* command buffers to execute
  Fd, AllocSize,  \* the host's allocations and their sizes
  Budget,         \* residency budget of the session
  MaxConcurrent,  \* task slots
  VtcmPool,       \* granules in the VTCM pool
  All,            \* a dispatch that declared nothing and gets the whole pool
  BadRef          \* a buffer reference that does not resolve

Slots == 1 .. MaxConcurrent
Granules == 1 .. VtcmPool

ASSUME FdAssumption == IsFiniteSet(Fd)
ASSUME AllocSizeAssumption == AllocSize \in [Fd -> Nat \ {0}]
ASSUME SizesAssumption ==
  Budget \in Nat /\ MaxConcurrent \in Nat \ {0} /\ VtcmPool \in Nat \ {0}
ASSUME NamesAssumption == All \notin Nat /\ BadRef \notin Fd
ASSUME ProgramsAssumption ==
  Programs \subseteq Seq([kind : {"dispatch", "barrier", "copy", "fill", "invalid"},
                          refs : Seq(Fd \cup {BadRef}),
                          vtcm : Nat \cup {All}, hmx : BOOLEAN])
ASSUME OperandsAssumption == \* a copy has a source and a target, a fill a target
  \A p \in Programs : \A i \in DOMAIN p :
    /\ p[i].kind = "copy" => Len(p[i].refs) = 2
    /\ p[i].kind = "fill" => Len(p[i].refs) = 1

VARIABLES
  program,      \* the command buffer
  reliable,     \* HAP_mmap2 and the residency cache's realloc never fail
  idx,          \* index of the next command to start
  pc,           \* where the master is
  back,         \* where wait_one returns to
  asleep,       \* the master sleeps in qurt_cond_wait
  slot,         \* task slot the current dispatch is prepared in
  operand,      \* operand of the current copy or fill being acquired
  tasks,        \* the task slots
  numInFlight,  \* counter: tasks submitted and not finished, master only
  numCompleted, \* counter: completions not yet taken, guarded by the mutex
  vtcmInUse,    \* counter: granules of all acquired partitions
  refs,         \* refs[fd]: acquires of fd not released yet
  status,       \* sched->status
  err,          \* what walk_cmds returned
  failed        \* history: commands that ran and failed

input == <<program, reliable>>
vars == <<input, idx, pc, back, asleep, slot, operand, tasks, numInFlight,
          numCompleted, vtcmInUse, refs, status, err, failed>>

EmptyTask == [cmd |-> 0, inFlight |-> FALSE, state |-> "RUNNING", part |-> {}]

Labels == {"start", "walk", "slot", "prepare", "vtcm", "launch", "kernel", "barrier", "acquire",
           "drain", "retry", "inline", "finalDrain", "wait", "end", "abort"}

TypeOK ==
  /\ program \in Programs
  /\ reliable \in BOOLEAN
  /\ idx \in 1 .. Len(program) + 1
  /\ pc \in Labels /\ back \in Labels
  /\ asleep \in BOOLEAN
  /\ slot \in Slots
  /\ operand \in 1 .. 2
  /\ tasks \in [Slots -> [cmd : 0 .. Len(program), inFlight : BOOLEAN,
                          state : {"RUNNING", "SUCCEEDED", "FAILED"},
                          part : SUBSET Granules]]
  /\ numInFlight \in 0 .. MaxConcurrent
  /\ numCompleted \in 0 .. MaxConcurrent
  /\ vtcmInUse \in 0 .. VtcmPool
  /\ refs \in [Fd -> Nat]
  /\ status \in {"SUCCESS", "EFAILED"}
  /\ err \in {"SUCCESS", "EFAILED", "EBADITEM", "ENOMEMORY", "ENOHEAP"}
  /\ failed \subseteq 1 .. Len(program)

\* hexa_cmd_buf_exec_cmds up to the allocation of the task slots.
Init ==
  /\ program \in Programs
  /\ reliable \in BOOLEAN
  /\ idx = 1
  /\ pc = "start" /\ back = "start"
  /\ asleep = FALSE
  /\ slot = 1 /\ operand = 1
  /\ tasks = [t \in Slots |-> EmptyTask]
  /\ numInFlight = 0 /\ numCompleted = 0
  /\ vtcmInUse = 0
  /\ refs = [fd \in Fd |-> 0]
  /\ status = "SUCCESS" /\ err = "SUCCESS"
  /\ failed = {}

cmd == program[idx]

Goto(from, to) == pc = from /\ pc' = to /\ UNCHANGED <<back, asleep>>

----------------------------------------------------------------------------
(* Residency, by its contract *)

Pinned == {fd \in Fd : refs[fd] > 0}
Occurrences(s, fd) == Cardinality({i \in DOMAIN s : s[i] = fd})
Prefix(s, n) == {s[i] : i \in 1 .. n}

Resolves(s, i, pinned) ==
  s[i] # BadRef /\ SumOver(AllocSize, pinned \cup Prefix(s, i)) <= Budget

\* What acquiring the references of s one after the other may return, with everything
\* in `pinned` held already. A mapping that is not there yet may fail to be made.
AcquireCodes(s, pinned) ==
  LET bad == {i \in DOMAIN s : ~ Resolves(s, i, pinned)}
      first == CHOOSE i \in bad : \A j \in bad : i <= j
      heldAt(i) == pinned \cup Prefix(s, i - 1)
      full(i) == IF heldAt(i) # {} THEN "EWOULDBLOCK" ELSE "ENOMEMORY"
      new == {i \in DOMAIN s \ bad : (\A j \in bad : i < j) /\ s[i] \notin heldAt(i)}
  IN {IF bad = {} THEN "SUCCESS" ELSE IF s[first] = BadRef THEN "EBADITEM" ELSE full(first)}
       \cup (IF reliable THEN {} ELSE UNION {{full(i), "ENOMEMORY"} : i \in new})

Acquire(s) == refs' = [fd \in Fd |-> refs[fd] + Occurrences(s, fd)]
Released(r, s) == [fd \in Fd |-> r[fd] - Occurrences(s, fd)]

----------------------------------------------------------------------------
(* VTCM partitions of the pool *)

PartitionSize(c) == IF c.vtcm = All THEN VtcmPool ELSE c.vtcm

\* A mistake the runs must catch: a dispatch that is done gives its partition back itself.
FreeGranulesEarly ==
  Granules \ UNION {tasks[t].part : t \in {u \in Slots : tasks[u].state = "RUNNING"}}

FreeGranules == Granules \ UNION {tasks[t].part : t \in Slots}
FreeBlocks(n) ==
  {part \in {lo .. (lo + n - 1) : lo \in Granules} :
     part \subseteq FreeGranules /\ Cardinality(part) = n}

----------------------------------------------------------------------------
(* Waiting for a worker *)

\* hexa_cmd_buf_finish_dispatch: give back what task t holds, free its slot.
FinishDispatch(t, state) ==
  /\ status' = IF state = "FAILED" THEN "EFAILED" ELSE status
  /\ vtcmInUse' = vtcmInUse - Cardinality(tasks[t].part)
  /\ refs' = Released(refs, program[tasks[t].cmd].refs)
  /\ tasks' = [tasks EXCEPT ![t].inFlight = FALSE, ![t].part = {}, ![t].state = state]

Completed(t) == tasks[t].inFlight /\ tasks[t].state # "RUNNING"

\* Call wait_one from label `from`; it comes back there.
CallWait(from) ==
  /\ pc = from /\ pc' = "wait"
  /\ back' = from
  /\ UNCHANGED asleep

\* The lock is taken; with nothing completed the master sleeps on the condition.
WaitSleep ==
  /\ pc = "wait" /\ ~ asleep
  /\ numCompleted = 0
  /\ asleep' = TRUE
  /\ UNCHANGED <<input, idx, pc, back, slot, operand, tasks, numInFlight, numCompleted,
                 vtcmInUse, refs, status, err, failed>>

\* A mistake the runs must catch: the completion counter is treated as a flag.
WaitTakeAll ==
  /\ pc = "wait" /\ ~ asleep
  /\ numCompleted > 0
  /\ numCompleted' = 0
  /\ numInFlight' = numInFlight - 1
  /\ \E t \in Slots :
       /\ Completed(t)
       /\ \A u \in 1 .. t - 1 : ~ Completed(u)
       /\ FinishDispatch(t, tasks[t].state)
  /\ pc' = back
  /\ UNCHANGED <<input, idx, back, asleep, slot, operand, err, failed>>

\* Otherwise it takes one completion and finishes the first completed task.
WaitTake ==
  /\ pc = "wait" /\ ~ asleep
  /\ numCompleted > 0
  /\ numCompleted' = numCompleted - 1
  /\ numInFlight' = numInFlight - 1
  /\ \E t \in Slots :
       /\ Completed(t)
       /\ \A u \in 1 .. t - 1 : ~ Completed(u)
       /\ FinishDispatch(t, tasks[t].state)
  /\ pc' = back
  /\ UNCHANGED <<input, idx, back, asleep, slot, operand, err, failed>>

\* A mistake the runs must catch: the worker does not signal the condition.
WorkerSilent(t) ==
  /\ pc # "abort"
  /\ tasks[t].inFlight /\ tasks[t].state = "RUNNING"
  /\ \E state \in {"SUCCEEDED", "FAILED"} :
       /\ tasks' = [tasks EXCEPT ![t].state = state]
       /\ failed' = IF state = "FAILED" THEN failed \cup {tasks[t].cmd} ELSE failed
  /\ numCompleted' = numCompleted + 1
  /\ UNCHANGED <<input, idx, pc, back, asleep, slot, operand, numInFlight, vtcmInUse,
                 refs, status, err>>

\* hexa_cmd_buf_task_worker: run the dispatch, then publish under the lock. abort()
\* ends the DSP process and its workers.
Worker(t) ==
  /\ pc # "abort"
  /\ tasks[t].inFlight /\ tasks[t].state = "RUNNING"
  /\ \E state \in {"SUCCEEDED", "FAILED"} :
       /\ tasks' = [tasks EXCEPT ![t].state = state]
       /\ failed' = IF state = "FAILED" THEN failed \cup {tasks[t].cmd} ELSE failed
  /\ numCompleted' = numCompleted + 1
  /\ asleep' = FALSE
  /\ UNCHANGED <<input, idx, pc, back, slot, operand, numInFlight, vtcmInUse, refs,
                 status, err>>

----------------------------------------------------------------------------
(* Walking the command buffer *)

\* walk_cmds returns code; everything that is left to do is the final drain.
Return(code) ==
  /\ err' = code
  /\ pc' = "finalDrain"
  /\ UNCHANGED <<back, asleep>>

\* exec_cmds allocates the task slots, or fails before the first command.
Start ==
  /\ \/ Goto("start", "walk") /\ UNCHANGED err
     \/ pc = "start" /\ Return("ENOHEAP")
  /\ UNCHANGED <<input, idx, slot, operand, tasks, numInFlight, numCompleted, vtcmInUse,
                 refs, status, failed>>

Entry(kind) ==
  CASE kind = "dispatch" -> "slot"
    [] kind = "barrier" -> "barrier"
    [] kind \in {"copy", "fill"} -> "acquire"

\* The top of the loop over the entries.
Walk ==
  /\ pc = "walk"
  /\ operand' = 1
  /\ IF idx > Len(program) THEN Return("SUCCESS")
     ELSE IF status # "SUCCESS" THEN Return(status)
     ELSE IF cmd.kind = "invalid" THEN Return("EBADITEM")
     ELSE Goto("walk", Entry(cmd.kind)) /\ UNCHANGED err
  /\ UNCHANGED <<input, idx, slot, tasks, numInFlight, numCompleted, vtcmInUse, refs,
                 status, failed>>

\* exec_dispatch: wait for a slot and pick the first free one.
PickSlot ==
  /\ pc = "slot"
  /\ IF numInFlight >= MaxConcurrent
     THEN CallWait("slot") /\ UNCHANGED slot
     ELSE /\ Goto("slot", "prepare")
          /\ slot' = CHOOSE t \in Slots :
                       ~ tasks[t].inFlight /\ \A u \in 1 .. t - 1 : tasks[u].inFlight
  /\ UNCHANGED <<input, idx, operand, tasks, numInFlight, numCompleted, vtcmInUse, refs,
                 status, err, failed>>

\* A mistake the runs must catch: off by one.
CanWaitForTwo == numInFlight > 1

\* Something in flight will give back what it holds.
CanWait == numInFlight > 0

\* prepare_dispatch allocates its arrays and acquires every binding, or gives back
\* what it acquired. Short of budget, wait for a dispatch in flight and prepare again.
\* The state of the slot's previous task stays until Launch or Kernel replaces it.
Prepare ==
  /\ pc = "prepare"
  /\ \E code \in AcquireCodes(cmd.refs, Pinned) :
     \/ /\ code = "SUCCESS"
        /\ Goto("prepare", "vtcm")
        /\ Acquire(cmd.refs)
        /\ tasks' = [tasks EXCEPT ![slot].cmd = idx, ![slot].part = {}]
        /\ UNCHANGED err
     \/ /\ code = "EWOULDBLOCK" /\ CanWait
        /\ CallWait("prepare")
        /\ UNCHANGED <<refs, tasks, err>>
     \/ /\ code # "SUCCESS" /\ ~ (code = "EWOULDBLOCK" /\ CanWait)
        /\ Return(IF code = "EWOULDBLOCK" THEN "ENOMEMORY" ELSE code)
        /\ UNCHANGED <<refs, tasks>>
     \/ Return("ENOHEAP") /\ UNCHANGED <<refs, tasks>>
  /\ UNCHANGED <<input, idx, slot, operand, numInFlight, numCompleted, vtcmInUse,
                 status, failed>>

\* Carve the partition out of the pool, or wait for a dispatch to give one back.
\* A dispatch that never fits, or that does not fit an idle pool, aborts.
AcquireVtcm ==
  LET size == PartitionSize(cmd)
      blocks == FreeBlocks(size)
  IN
  /\ pc = "vtcm"
  /\ \/ /\ cmd.vtcm # All /\ size > VtcmPool
        /\ Goto("vtcm", "abort")
        /\ UNCHANGED <<tasks, vtcmInUse>>
     \/ /\ size = 0
        /\ Goto("vtcm", "launch")
        /\ UNCHANGED <<tasks, vtcmInUse>>
     \/ /\ size > 0
        /\ \E part \in blocks : tasks' = [tasks EXCEPT ![slot].part = part]
        /\ vtcmInUse' = vtcmInUse + size
        /\ Goto("vtcm", "launch")
     \/ /\ 0 < size /\ size <= VtcmPool
        /\ blocks = {}
        /\ IF CanWait THEN CallWait("vtcm") ELSE Goto("vtcm", "abort")
        /\ UNCHANGED <<tasks, vtcmInUse>>
  /\ UNCHANGED <<input, idx, slot, operand, numInFlight, numCompleted, refs, status,
                 err, failed>>

\* HMX dispatches, and all of them without concurrency, run on the master.
OnMaster(c) == c.hmx \/ MaxConcurrent = 1

Launch ==
  /\ pc = "launch"
  /\ idx' = idx + 1
  /\ IF OnMaster(cmd)
     THEN /\ Goto("launch", "kernel")
          /\ UNCHANGED <<tasks, numInFlight>>
     ELSE /\ Goto("launch", "walk")
          /\ tasks' = [tasks EXCEPT ![slot].inFlight = TRUE, ![slot].state = "RUNNING"]
          /\ numInFlight' = numInFlight + 1
  /\ UNCHANGED <<input, slot, operand, numCompleted, vtcmInUse, refs, status, err, failed>>

\* The kernel ran on the master: finish it and report any failure seen so far.
Kernel ==
  /\ pc = "kernel"
  /\ \E state \in {"SUCCEEDED", "FAILED"} :
       /\ FinishDispatch(slot, state)
       /\ failed' = IF state = "FAILED" THEN failed \cup {idx - 1} ELSE failed
  /\ IF status' = "SUCCESS" THEN Goto("kernel", "walk") /\ UNCHANGED err
                            ELSE Return(status')
  /\ UNCHANGED <<input, idx, slot, operand, numInFlight, numCompleted>>

\* A mistake the runs must catch: one dispatch may still be in flight.
BarrierButOne ==
  /\ IF numInFlight > 1
     THEN CallWait("barrier") /\ UNCHANGED idx
     ELSE Goto("barrier", "walk") /\ idx' = idx + 1
  /\ UNCHANGED <<input, slot, operand, tasks, numInFlight, numCompleted, vtcmInUse, refs,
                 status, err, failed>>

Barrier ==
  /\ IF numInFlight > 0
     THEN CallWait("barrier") /\ UNCHANGED idx
     ELSE Goto("barrier", "walk") /\ idx' = idx + 1
  /\ UNCHANGED <<input, slot, operand, tasks, numInFlight, numCompleted, vtcmInUse, refs,
                 status, err, failed>>

\* A mistake the runs must catch: the source stays acquired.
KeepOperands == refs

\* What is left after a copy gives up on its target: the source is released.
ReleaseOperands == Released(refs, SubSeq(cmd.refs, 1, operand - 1))

\* exec_copy and exec_fill acquire their operands in order (source, target).
\* Short of budget, drain and retry once; on an error release what was acquired.
AcquireOperand(from) ==
  LET ref == <<cmd.refs[operand]>>
      last == operand = Len(cmd.refs)
  IN
  /\ pc = from
  /\ \E code \in AcquireCodes(ref, Pinned) :
     \/ /\ code = "SUCCESS"
        /\ Acquire(ref)
        /\ Goto(from, IF last THEN "inline" ELSE "acquire")
        /\ operand' = IF last THEN operand ELSE operand + 1
        /\ idx' = IF last THEN idx + 1 ELSE idx
        /\ UNCHANGED err
     \/ /\ code = "EWOULDBLOCK" /\ from = "acquire"
        /\ Goto(from, "drain")
        /\ UNCHANGED <<refs, operand, idx, err>>
     \/ /\ code # "SUCCESS" /\ ~ (code = "EWOULDBLOCK" /\ from = "acquire")
        /\ refs' = ReleaseOperands
        /\ Return(IF code = "EWOULDBLOCK" THEN "ENOMEMORY" ELSE code)
        /\ UNCHANGED <<operand, idx>>
  /\ UNCHANGED <<input, slot, tasks, numInFlight, numCompleted, vtcmInUse, status, failed>>

Drain ==
  /\ IF numInFlight > 0 THEN CallWait("drain") ELSE Goto("drain", "retry")
  /\ UNCHANGED <<input, idx, slot, operand, tasks, numInFlight, numCompleted, vtcmInUse,
                 refs, status, err, failed>>

\* The copy or fill itself, on the master, and the release of its operands.
Inline ==
  /\ Goto("inline", "walk")
  /\ refs' = Released(refs, program[idx - 1].refs)
  /\ UNCHANGED <<input, idx, slot, operand, tasks, numInFlight, numCompleted, vtcmInUse,
                 status, err, failed>>

\* A mistake the runs must catch: dispatches that fail after the walk are not reported.
FinalDrainOnly ==
  /\ IF numInFlight > 0 THEN CallWait("finalDrain") ELSE Goto("finalDrain", "end")
  /\ UNCHANGED <<input, idx, slot, operand, tasks, numInFlight, numCompleted, vtcmInUse,
                 refs, status, err, failed>>

\* exec_cmds after the walk: wait for everything in flight, then report.
FinalDrain ==
  /\ IF numInFlight > 0
     THEN CallWait("finalDrain") /\ UNCHANGED err
     ELSE Goto("finalDrain", "end") /\ err' = IF err = "SUCCESS" THEN status ELSE err
  /\ UNCHANGED <<input, idx, slot, operand, tasks, numInFlight, numCompleted, vtcmInUse,
                 refs, status, failed>>

Master ==
  \/ Start \/ Walk
  \/ PickSlot \/ Prepare \/ AcquireVtcm \/ Launch \/ Kernel
  \/ Barrier
  \/ AcquireOperand("acquire") \/ Drain \/ AcquireOperand("retry") \/ Inline
  \/ FinalDrain
  \/ WaitSleep \/ WaitTake

Next == Master \/ \E t \in Slots : Worker(t)

\* The RPC thread keeps running, and so does a worker thread: the thread pool has
\* at least as many workers as MaxConcurrent, and kernels terminate.
Spec == Init /\ [][Next]_vars /\ WF_vars(Master) /\ \A t \in Slots : WF_vars(Worker(t))
----------------------------------------------------------------------------
(* Properties *)

InFlight == {t \in Slots : tasks[t].inFlight}

\* The dispatch in `slot` is prepared and neither submitted nor finished.
Preparing == pc \in {"vtcm", "launch", "kernel", "abort"} \/ (pc = "wait" /\ back = "vtcm")

Executing ==
  {tasks[t].cmd : t \in {u \in InFlight : tasks[u].state = "RUNNING"}}
    \cup (IF pc \in {"kernel", "inline"} THEN {idx - 1} ELSE {})

(* Both counters agree with the task slots at every interleaving of the master and the
   workers: a completion the master takes always belongs to a task that is done and not
   finished (the comment of wait_one), a slot is free whenever the count says so (the
   assert of exec_dispatch), and the master never sleeps on a completion it missed. *)
CompletionsMatch ==
  /\ numCompleted = Cardinality({t \in Slots : Completed(t)})
  /\ numInFlight = Cardinality(InFlight)
  /\ asleep => numCompleted = 0
  /\ pc = "wait" => numInFlight > 0

(* Tasks holding VTCM at the same time hold disjoint partitions, and vtcm_in_use is what
   they hold: finishing in any order gives back exactly what was carved out. *)
PartitionsSound ==
  /\ \A t, u \in Slots : t # u => tasks[t].part \cap tasks[u].part = {}
  /\ vtcmInUse = SumOver([t \in Slots |-> Cardinality(tasks[t].part)], Slots)
  /\ \A t \in Slots : tasks[t].part # {} => tasks[t].inFlight \/ (t = slot /\ Preparing)

\* How many times the work that has not been finished uses fd.
UsesOf(fd) ==
  SumOver([t \in Slots |->
             IF tasks[t].inFlight \/ (t = slot /\ Preparing)
             THEN Occurrences(program[tasks[t].cmd].refs, fd) ELSE 0], Slots)
  + (CASE pc \in {"acquire", "drain", "retry"} \/ (pc = "wait" /\ back = "drain") ->
            Occurrences(SubSeq(program[idx].refs, 1, operand - 1), fd)
       [] pc = "inline" -> Occurrences(program[idx - 1].refs, fd)
       [] OTHER -> 0)

(* A buffer is pinned exactly as often as unfinished work uses it: never unpinned under
   a running kernel, and nothing stays pinned on any error path, so an execution that
   returned, successfully or not, holds no buffer. *)
PinnedByWork == \A fd \in Fd : refs[fd] = UsesOf(fd)

(* exec_barrier: two commands that execute at the same time have no barrier between. *)
NoBarrierCrossed ==
  \A i, j \in Executing : \A k \in i .. j : program[k].kind # "barrier"

(* exec_dispatch never gives up while waiting could help. EWOULDBLOCK is not final: unless
   the platform fails, an execution fails for want of residency only if the command it
   stopped at exceeds the budget all by itself. The DSP process aborts only for a dispatch
   that declared more VTCM than the pool has: waiting always resolves fragmentation. *)
GivesUpOnlyOversized ==
  /\ reliable /\ err = "ENOMEMORY" =>
       SumOver(AllocSize, {cmd.refs[i] : i \in DOMAIN cmd.refs} \ {BadRef}) > Budget
  /\ pc = "abort" => cmd.vtcm # All /\ cmd.vtcm > VtcmPool

(* Every execution ends: no wait for a slot, for budget, for VTCM or for a barrier is
   forever. *)
Terminates == <>(pc \in {"end", "abort"})

Stream == INSTANCE CmdStream WITH
  Limit <- MaxConcurrent,
  next <- idx,
  running <- Executing,
  refused <- err \notin {"SUCCESS", "EFAILED"},
  result <- IF pc # "end" THEN "none" ELSE IF err = "SUCCESS" THEN "SUCCESS" ELSE "ERROR"

(* The scheduler implements the command stream: recorded order, barriers, the limit on
   concurrent dispatches, and success reported exactly when everything ran and nothing
   failed. *)
StreamImplemented == Stream!StreamSpec

(* The comments of hexa_cmd_buf_walk_cmds: it "Stops once a dispatch has failed", "skip
   the rest of the command buffer once a dispatch has failed". No command is started
   once the scheduler has recorded a failure. *)
NoStartAfterFailure ==
  [][idx' > idx /\ cmd.kind # "barrier" => status = "SUCCESS"]_vars
============================================================================

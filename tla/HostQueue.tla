----------------------------- MODULE HostQueue -----------------------------
(***************************************************************************)
(* The host's queue operations (device.c), timeline semaphores             *)
(* (semaphore.c) and the life of command buffers and buffers around them.  *)
(*                                                                         *)
(* There is no queue: every operation runs to its end on the thread of its *)
(* caller, waits for its semaphores without a timeout, works, and signals  *)
(* only if all of that succeeded. The callers are programs, sequences of   *)
(* operations; a caller whose operation fails starts no further operation  *)
(* and only releases what it holds.                                        *)
(***************************************************************************)
EXTENDS HostMemory, Sequences

CONSTANTS
  Thread,
  CmdBuf,      \* command buffers, each recorded at most once
  Semaphore,
  Programs     \* the programs to choose from: [Thread -> Seq(Operations)]

Points == [s : Semaphore, v : Nat]

\* The calls of the HAL, each with what it waits for and what it signals.
Operations ==
  [kind : {"alloca", "dealloca", "release"}, buf : Buffer,
   wait : SUBSET Points, signal : Seq(Points)]
  \cup [kind : {"record"}, cmdBuf : CmdBuf, cmds : Seq(SUBSET Buffer), retained : BOOLEAN,
        wait : SUBSET Points, signal : Seq(Points)]
  \cup [kind : {"execute"}, cmdBuf : CmdBuf \cup {None}, bindings : SUBSET Buffer,
        wait : SUBSET Points, signal : Seq(Points)]
  \cup [kind : {"releaseCmdBuf"}, cmdBuf : CmdBuf,
        wait : SUBSET Points, signal : Seq(Points)]

ASSUME CallersAssumption ==
  IsFiniteSet(Thread) /\ IsFiniteSet(CmdBuf) /\ None \notin CmdBuf
ASSUME ProgramsAssumption == Programs \subseteq [Thread -> Seq(Operations)]

VARIABLES
  prog,      \* the program of this behaviour
  pc,        \* index of each thread's current operation
  step,      \* how far that operation has come
  rest,      \* what the step still has to go through: commands, descriptors or signals
  inUse,     \* the descriptor that a thread's command uses on the DSP, or None
  outcome,   \* outcome[t][i]: "todo", "ok", "error" or "skipped"
  sem,       \* timeline values
  cmdBuf     \* [made: the object exists, dsp: it was created on the DSP,
             \*  fds: the descriptors it recorded, held: the buffers it retains,
             \*  lent: the ones it recorded and does not retain]

qVars == <<prog, pc, step, rest, inUse, outcome, sem, cmdBuf>>
vars == <<memVars, qVars>>

NoCmdBuf == [made |-> FALSE, dsp |-> FALSE, fds |-> {}, held |-> {}, lent |-> {}]

Init ==
  /\ MemInit
  /\ prog \in Programs
  /\ pc = [t \in Thread |-> 1]
  /\ step = [t \in Thread |-> "wait"]
  /\ rest = [t \in Thread |-> <<>>]
  /\ inUse = [t \in Thread |-> None]
  /\ outcome = [t \in Thread |-> [i \in DOMAIN prog[t] |-> "todo"]]
  /\ sem = [s \in Semaphore |-> 0]
  /\ cmdBuf = [c \in CmdBuf |-> NoCmdBuf]

Running(t) == pc[t] <= Len(prog[t])
Op(t) == prog[t][pc[t]]
Failed(t) == \E i \in DOMAIN prog[t] : outcome[t][i] = "error"
At(t, kind, s) == Running(t) /\ Op(t).kind = kind /\ step[t] = s

Goto(t, s, r) ==
  /\ step' = [step EXCEPT ![t] = s]
  /\ rest' = [rest EXCEPT ![t] = r]
  /\ UNCHANGED <<prog, pc, outcome>>

Return(t, result) ==
  /\ outcome' = [outcome EXCEPT ![t][pc[t]] = result]
  /\ pc' = [pc EXCEPT ![t] = @ + 1]
  /\ step' = [step EXCEPT ![t] = "wait"]
  /\ rest' = [rest EXCEPT ![t] = <<>>]
  /\ UNCHANGED prog

\* An error is returned to the caller at once: nothing is signalled.
ReturnError(t) == Return(t, "error")

(******************************** semaphores ********************************)

\* A mistake the runs must catch: a semaphore counts as signalled at any value.
SatisfiedAtAnyValue(t) == \A w \in Op(t).wait : sem[w.s] > 0

\* Every semaphore of the list has reached the value that is waited for.
Satisfied(t) == \A w \in Op(t).wait : sem[w.s] >= w.v

Releases == {"release", "releaseCmdBuf"}

\* A mistake the runs must catch: an execution without a command buffer returns
\* without signalling.
WaitNothingToDo(t) ==
  /\ Running(t) /\ step[t] = "wait"
  /\ ~Failed(t) \/ Op(t).kind \in Releases
  /\ Satisfied(t)
  /\ LET op == Op(t) IN
       CASE op.kind = "record"  -> Goto(t, "create", op.cmds)
         [] op.kind = "execute" -> IF op.cmdBuf = None THEN Return(t, "ok")
                                                       ELSE Goto(t, "serialize", <<>>)
         [] OTHER               -> Goto(t, "work", <<>>)
  /\ UNCHANGED <<memVars, inUse, sem, cmdBuf>>

\* iree_hal_semaphore_list_wait with an infinite timeout. The next step by operation.
Wait(t) ==
  /\ Running(t) /\ step[t] = "wait"
  /\ ~Failed(t) \/ Op(t).kind \in Releases
  /\ Satisfied(t)
  /\ LET op == Op(t) IN
       CASE op.kind = "record"  -> Goto(t, "create", op.cmds)
         [] op.kind = "execute" -> IF op.cmdBuf = None THEN Goto(t, "signal", op.signal)
                                                       ELSE Goto(t, "serialize", <<>>)
         [] OTHER               -> Goto(t, "work", <<>>)
  /\ UNCHANGED <<memVars, inUse, sem, cmdBuf>>

\* A caller that failed does not start the operation.
Skip(t) ==
  /\ Running(t) /\ step[t] = "wait"
  /\ Failed(t) /\ Op(t).kind \notin Releases
  /\ Return(t, "skipped")
  /\ UNCHANGED <<memVars, inUse, sem, cmdBuf>>

\* The timeline only moves forward; a signal that would not is an error.
Signal(t) ==
  /\ Running(t) /\ step[t] = "signal" /\ rest[t] # <<>>
  /\ LET g == Head(rest[t]) IN
       IF sem[g.s] < g.v
       THEN /\ sem' = [sem EXCEPT ![g.s] = g.v]
            /\ Goto(t, "signal", Tail(rest[t]))
       ELSE ReturnError(t) /\ UNCHANGED sem
  /\ UNCHANGED <<memVars, inUse, cmdBuf>>

Finish(t) ==
  /\ Running(t) /\ step[t] = "signal" /\ rest[t] = <<>>
  /\ Return(t, "ok")
  /\ UNCHANGED <<memVars, inUse, sem, cmdBuf>>

(****************************** queue operations ****************************)

\* queue_alloca. The allocation may fail at any of its steps, each of which undoes
\* the ones before it.
Alloca(t) ==
  /\ At(t, "alloca", "work")
  /\ \/ AllocateBuffer(Op(t).buf) /\ Goto(t, "signal", Op(t).signal)
     \/ ReturnError(t) /\ UNCHANGED memVars
  /\ UNCHANGED <<inUse, sem, cmdBuf>>

\* queue_dealloca: destroys the buffer, and signals when its memory is freed.
Dealloca(t) ==
  /\ At(t, "dealloca", "work")
  /\ Destroy(Op(t).buf)
  /\ Goto(t, "free", <<>>)
  /\ UNCHANGED <<fdOf, dspUsed, registered, resident, pinned, sessionUp, inUse, sem, cmdBuf>>

\* iree_hal_buffer_release by the caller.
ReleaseBuffer(t) ==
  /\ At(t, "release", "work")
  /\ IF Usable(Op(t).buf)
     THEN Drop({Op(t).buf}) /\ Goto(t, "free", <<>>)
     ELSE Goto(t, "signal", Op(t).signal) /\ UNCHANGED <<refs, stage>>
  /\ UNCHANGED <<fdOf, dspUsed, registered, resident, pinned, sessionUp, inUse, sem, cmdBuf>>

\* What the operation destroyed and has to free, one buffer after the other.
Dying(t) ==
  LET op == Op(t)
      mine == IF op.kind = "releaseCmdBuf" THEN cmdBuf[op.cmdBuf].held ELSE {op.buf}
  IN {b \in mine : ~Freed(b) /\ ~Usable(b)}

FreeBuffer(t) ==
  /\ Running(t) /\ step[t] = "free"
  /\ \E b \in Dying(t) :
       /\ \A other \in Dying(t) \ {b} : stage[other] = "dying"
       /\ FreeStep(b)
  /\ UNCHANGED qVars

FreeDone(t) ==
  /\ Running(t) /\ step[t] = "free" /\ Dying(t) = {}
  /\ Goto(t, "signal", Op(t).signal)
  /\ cmdBuf' = IF Op(t).kind = "releaseCmdBuf" THEN [cmdBuf EXCEPT ![Op(t).cmdBuf] = NoCmdBuf] ELSE cmdBuf
  /\ UNCHANGED <<memVars, inUse, sem>>

(******************************* command buffers ****************************)

\* command_buffer_create: the object and its resource set, both or none. One that is
\* not to retain its buffers (IREE_HAL_COMMAND_BUFFER_MODE_UNRETAINED) gets no set.
CreateCmdBuf(t) ==
  /\ At(t, "record", "create")
  /\ \/ /\ cmdBuf' = [cmdBuf EXCEPT ![Op(t).cmdBuf].made = TRUE]
        /\ Goto(t, "record", rest[t])
     \/ ReturnError(t) /\ UNCHANGED cmdBuf
  /\ UNCHANGED <<memVars, inUse, sem>>

\* A mistake the runs must catch: the command keeps descriptors without references.
RecordedUnretained(cb, bufs, retained) ==
  [cb EXCEPT !.fds = @ \cup {fdOf[b] : b \in bufs},
             !.lent = IF retained THEN @ ELSE @ \cup bufs]

\* What one recorded command keeps of its direct buffers: their descriptors, and a
\* reference each if the command buffer has a set for them.
Recorded(cb, bufs, retained) ==
  [cb EXCEPT !.fds = @ \cup {fdOf[b] : b \in bufs},
             !.held = IF retained THEN @ \cup bufs ELSE @,
             !.lent = IF retained THEN @ ELSE @ \cup bufs]

\* fill, copy or dispatch: serializes (which takes the descriptors), inserts the
\* direct buffers into the set, appends. A failing malloc or insert drops the command
\* and leaves the note that the DSP was given the descriptors.
RecordCommand(t) ==
  /\ At(t, "record", "record") /\ rest[t] # <<>>
  /\ LET c == Op(t).cmdBuf
         bufs == Head(rest[t])
         cb == Recorded(cmdBuf[c], bufs, Op(t).retained)
     IN /\ GetFdForDsp(bufs)
        /\ \/ /\ cmdBuf' = [cmdBuf EXCEPT ![c] = cb]
              /\ refs' = Retain(cb.held \ cmdBuf[c].held)
              /\ Goto(t, "record", Tail(rest[t]))
           \/ ReturnError(t) /\ UNCHANGED <<cmdBuf, refs>>
  /\ UNCHANGED <<stage, fdOf, registered, resident, pinned, sessionUp, inUse, sem>>

\* command_buffer_end: serializes all entries and creates the DSP's copy by RPC.
EndCmdBuf(t) ==
  /\ At(t, "record", "record") /\ rest[t] = <<>>
  /\ \/ /\ sessionUp
        /\ cmdBuf' = [cmdBuf EXCEPT ![Op(t).cmdBuf].dsp = TRUE]
        /\ Goto(t, "signal", Op(t).signal)
     \/ ReturnError(t) /\ UNCHANGED cmdBuf
  /\ UNCHANGED <<memVars, inUse, sem>>

\* The last release of a command buffer: destroys the DSP's copy, then gives back
\* the retained buffers.
ReleaseCmdBuf(t) ==
  /\ At(t, "releaseCmdBuf", "work")
  /\ LET c == Op(t).cmdBuf IN
       /\ Drop(cmdBuf[c].held)
       /\ cmdBuf' = [cmdBuf EXCEPT ![c].dsp = FALSE]
       /\ Goto(t, "free", <<>>)
  /\ UNCHANGED <<fdOf, dspUsed, registered, resident, pinned, sessionUp, inUse, sem>>

(********************************* execution ********************************)

\* The binding table is serialized, which takes the descriptors of its buffers, into
\* RPC memory; then the DSP is called with it.
SerializeBindings(t) ==
  /\ At(t, "execute", "serialize")
  /\ \/ /\ GetFdForDsp(Op(t).bindings)
        /\ LET fds == cmdBuf[Op(t).cmdBuf].fds \cup {fdOf[b] : b \in Op(t).bindings}
               order == CHOOSE q \in [1 .. Cardinality(fds) -> fds] :
                          \A i, j \in DOMAIN q : i # j => q[i] # q[j]
           IN Goto(t, "rpc", order)
     \/ ReturnError(t) /\ UNCHANGED dspUsed
  /\ UNCHANGED <<refs, stage, fdOf, registered, resident, pinned, sessionUp, inUse, sem, cmdBuf>>

\* On the DSP, the commands acquire what they use and release it again.
CommandAcquires(t) ==
  /\ At(t, "execute", "rpc") /\ sessionUp /\ rest[t] # <<>> /\ inUse[t] = None
  /\ DspAcquire(Head(rest[t]))
  /\ inUse' = [inUse EXCEPT ![t] = Head(rest[t])]
  /\ Goto(t, "rpc", Tail(rest[t]))
  /\ UNCHANGED <<sem, cmdBuf>>

CommandReleases(t) ==
  /\ At(t, "execute", "rpc") /\ sessionUp /\ inUse[t] # None
  /\ DspRelease(inUse[t])
  /\ inUse' = [inUse EXCEPT ![t] = None]
  /\ UNCHANGED <<prog, pc, step, rest, outcome, sem, cmdBuf>>

\* A mistake the runs must catch: an execution that failed signals all the same.
ExecuteReturnsSignalling(t) ==
  /\ At(t, "execute", "rpc") /\ inUse[t] = None
  /\ sem' = [s \in Semaphore |->
              IF \E k \in DOMAIN Op(t).signal : Op(t).signal[k].s = s
              THEN Op(t).signal[CHOOSE k \in DOMAIN Op(t).signal : Op(t).signal[k].s = s].v
              ELSE sem[s]]
  /\ Return(t, IF sessionUp /\ rest[t] = <<>> THEN "ok" ELSE "error")
  /\ UNCHANGED <<memVars, inUse, cmdBuf>>

\* The RPC returns: all commands done, or an error of the DSP or of a lost session.
ExecuteReturns(t) ==
  /\ At(t, "execute", "rpc") /\ inUse[t] = None
  /\ \/ sessionUp /\ rest[t] = <<>> /\ Goto(t, "signal", Op(t).signal)
     \/ ReturnError(t)
  /\ UNCHANGED <<memVars, inUse, sem, cmdBuf>>

Evict(f) == sessionUp /\ DspEvict(f) /\ UNCHANGED qVars

\* The DSP process aborts (a command does not fit, or a kernel crashes): its mappings
\* are gone and every RPC from now on returns an error.
DspCrash ==
  /\ sessionUp /\ \E t \in Thread : inUse[t] # None
  /\ sessionUp' = FALSE
  /\ resident' = [f \in Fd |-> None]
  /\ pinned' = [f \in Fd |-> 0]
  /\ inUse' = [t \in Thread |-> None]
  /\ UNCHANGED <<refs, stage, fdOf, dspUsed, registered, prog, pc, step, rest, outcome, sem, cmdBuf>>

ThreadStep(t) ==
  \/ Wait(t) \/ Skip(t) \/ Signal(t) \/ Finish(t)
  \/ Alloca(t) \/ Dealloca(t) \/ ReleaseBuffer(t) \/ FreeBuffer(t) \/ FreeDone(t)
  \/ CreateCmdBuf(t) \/ RecordCommand(t) \/ EndCmdBuf(t) \/ ReleaseCmdBuf(t)
  \/ SerializeBindings(t) \/ CommandAcquires(t) \/ CommandReleases(t) \/ ExecuteReturns(t)

Next == (\E t \in Thread : ThreadStep(t)) \/ (\E f \in Fd : Evict(f)) \/ DspCrash

\* Every host thread that can take a step takes it: the operating system's scheduler.
\* The DSP answers every call.
Spec == Init /\ [][Next]_vars /\ \A t \in Thread : WF_vars(ThreadStep(t))

(******************************** properties ********************************)

Done(t) == ~Running(t)

\* A thread is giving back the buffers that the command buffer retained.
Releasing(c) == \E t \in Thread : At(t, "releaseCmdBuf", "free") /\ Op(t).cmdBuf = c

\* The command buffers that have a reference of the buffer.
Holders(b) == {c \in CmdBuf : b \in cmdBuf[c].held /\ ~Releasing(c)}

\* What the callers owe the HAL, which counts references but checks no use, and keep by
\* waiting for each other: they release only references that they own, deallocate only
\* what no command buffer retains, record and bind live buffers, keep bound buffers and
\* those that were recorded without a reference until the execution returns, and do not
\* release a command buffer under it.
CallersKeepBuffers ==
  \A t \in Thread :
    /\ At(t, "release", "work") /\ Usable(Op(t).buf) =>
         refs[Op(t).buf] > Cardinality(Holders(Op(t).buf))
    /\ At(t, "dealloca", "work") => Usable(Op(t).buf) /\ Holders(Op(t).buf) = {}
    /\ At(t, "record", "record") /\ rest[t] # <<>> => \A b \in Head(rest[t]) : Usable(b)
    /\ At(t, "releaseCmdBuf", "work") => ~Releasing(Op(t).cmdBuf)
    /\ At(t, "execute", "serialize") \/ At(t, "execute", "rpc") =>
         /\ ~Releasing(Op(t).cmdBuf)
         /\ \A b \in Op(t).bindings \cup cmdBuf[Op(t).cmdBuf].lent : Usable(b)

\* What the DSP has mapped under a descriptor is the memory that is registered under
\* it: an allocation is deregistered only after the DSP gave up its mapping
\* (mem_alloc_release), and no recorded descriptor outlives its buffer. Otherwise a
\* reused descriptor would make a command work on memory of somebody else.
MapsRegisteredMemory ==
  \A f \in Fd : resident[f] # None => registered[f] = resident[f]

\* The direct buffers of the commands that the program records into c.
RecordedBuffers(c) ==
  {b \in Buffer : \E t \in Thread : \E i \in DOMAIN prog[t] :
     /\ prog[t][i].kind = "record" /\ prog[t][i].cmdBuf = c
     /\ \E k \in DOMAIN prog[t][i].cmds : b \in prog[t][i].cmds[k]}

\* A command works on the buffers that were recorded or bound, which are still live:
\* the assertion "RPC memory released while the DSP uses it" (mem_alloc_release)
\* does not fail.
CommandsUseLiveBuffers ==
  \A t \in Thread : inUse[t] # None =>
    /\ Usable(resident[inUse[t]])
    /\ resident[inUse[t]] \in Op(t).bindings \cup RecordedBuffers(Op(t).cmdBuf)

Signals(t, i, w) == \E k \in DOMAIN prog[t][i].signal : prog[t][i].signal[k] = w

\* An operation that is past its wait finds the work of every operation it waited for
\* done without an error: semaphores are signalled after the work, and never by an
\* operation that fails.
WaitedForWorkIsDone ==
  \A t \in Thread : Running(t) /\ step[t] # "wait" =>
    \A w \in Op(t).wait :
      \E u \in Thread : \E i \in DOMAIN prog[u] :
        /\ Signals(u, i, w)
        /\ outcome[u][i] = "ok" \/ (pc[u] = i /\ step[u] = "signal")

\* When every caller is through its program, all memory is freed: no descriptor is
\* registered, nothing is mapped on the DSP, nothing was leaked.
NothingLeftBehind ==
  (\A t \in Thread : Done(t)) =>
    /\ \A f \in Fd : registered[f] = None /\ resident[f] = None
    /\ \A b \in Buffer : stage[b] \in {"none", "freed"}

\* Every caller comes to the end of its program, unless an operation fails: then the
\* semaphores it would have signalled keep their value and those who wait for them
\* without a timeout wait forever.
CallersFinish == <>((\A t \in Thread : Done(t)) \/ (\E t \in Thread : Failed(t)))
=============================================================================

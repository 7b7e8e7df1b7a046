-------------------------- MODULE HostQueueProofs --------------------------
(***************************************************************************)
(* HostQueue: any number of callers, buffers, command buffers, descriptors *)
(* and semaphores, and any programs of the callers.                        *)
(***************************************************************************)
EXTENDS HostQueue, FiniteSetTheorems, FunctionTheorems, SequenceTheorems, TLAPS

USE HostMemoryAssumption, CallersAssumption

Stages == {"none", "live", "dying", "forgotten", "unmapped", "freed", "leaked"}

CmdBufs ==
  [made : BOOLEAN, dsp : BOOLEAN, fds : SUBSET (Fd \cup {None}),
   held : SUBSET Buffer, lent : SUBSET Buffer]

Steps == {"wait", "create", "record", "serialize", "rpc", "work", "free", "signal"}

Types ==
  /\ refs \in [Buffer -> Nat]
  /\ stage \in [Buffer -> Stages]
  /\ fdOf \in [Buffer -> Fd \cup {None}]
  /\ dspUsed \subseteq Buffer
  /\ registered \in [Fd -> Buffer \cup {None}]
  /\ resident \in [Fd -> Buffer \cup {None}]
  /\ pinned \in [Fd -> Nat]
  /\ sessionUp \in BOOLEAN
  /\ prog \in Programs
  /\ pc \in [Thread -> Nat \ {0}]
  /\ step \in [Thread -> Steps]
  /\ rest = [t \in Thread |-> rest[t]]
  /\ inUse \in [Thread -> Fd \cup {None}]
  /\ cmdBuf \in [CmdBuf -> CmdBufs]

\* What a thread still has to go through fits the step that it is in.
RestOf(t) == Running(t) =>
  /\ step[t] \in {"create", "record"} =>
       /\ Op(t).kind = "record" /\ rest[t] \in Seq(SUBSET Buffer)
       /\ \A k \in DOMAIN rest[t] : \E j \in DOMAIN Op(t).cmds : rest[t][k] = Op(t).cmds[j]
  /\ step[t] \in {"serialize", "rpc"} => Op(t).kind = "execute" /\ Op(t).cmdBuf # None
  /\ step[t] = "rpc" => rest[t] \in Seq(Fd \cup {None})
  /\ step[t] = "free" => Op(t).kind \in {"dealloca", "release", "releaseCmdBuf"}
RestMatches == \A t \in Thread : RestOf(t)

\* The memory that is registered under a descriptor is the one that has it.
Registration ==
  /\ \A b \in Buffer : stage[b] \in {"live", "dying", "forgotten", "leaked"} =>
       fdOf[b] \in Fd /\ registered[fdOf[b]] = b
  /\ \A f \in Fd : registered[f] # None =>
       /\ fdOf[registered[f]] = f
       /\ stage[registered[f]] \in {"live", "dying", "forgotten", "leaked"}

\* The DSP maps memory that the host knows the DSP to have, and has not forgotten.
Mapping ==
  /\ \A f \in Fd : resident[f] # None =>
       /\ registered[f] = resident[f]
       /\ stage[resident[f]] \in {"live", "dying", "leaked"}
       /\ resident[f] \in dspUsed
  /\ ~sessionUp => \A f \in Fd : resident[f] = None

\* The buffers that a command buffer recorded.
Named(c) == cmdBuf[c].held \cup cmdBuf[c].lent

\* What a command buffer recorded are the descriptors of its buffers, as long as these are
\* live.
RecordingOf(c) ==
  /\ Named(c) \subseteq dspUsed
  /\ Named(c) \subseteq RecordedBuffers(c)
  /\ \A b \in cmdBuf[c].lent : stage[b] # "none"
  /\ ~Releasing(c) =>
       \A f \in cmdBuf[c].fds : \E b \in Named(c) : stage[b] = "live" => fdOf[b] = f

\* References are counted, and a buffer is live while there are any.
References ==
  /\ \A b \in Buffer : refs[b] > 0 <=> stage[b] = "live"
  /\ \A b \in Buffer : Cardinality(Holders(b)) <= refs[b]
  /\ \A c \in CmdBuf : RecordingOf(c)

\* The buffers that an execution works on.
Given(t) == Op(t).bindings \cup Named(Op(t).cmdBuf)

\* The descriptors that an execution has gone through or has ahead are those of its buffers,
\* and what a command uses is mapped.
Executions ==
  /\ \A t \in Thread : At(t, "execute", "rpc") =>
       /\ Op(t).bindings \subseteq dspUsed
       /\ \A k \in DOMAIN rest[t] : \E b \in Given(t) : fdOf[b] = rest[t][k]
  /\ \A t \in Thread : inUse[t] # None =>
       /\ At(t, "execute", "rpc")
       /\ \E b \in Given(t) : fdOf[b] = inUse[t]
       /\ resident[inUse[t]] # None
  /\ \A f \in Fd : pinned[f] = Cardinality({t \in Thread : inUse[t] = f})

\* The inductive invariant, for callers that keep what they use.
Inv == Types /\ RestMatches /\ Registration /\ Mapping /\ References /\ Executions

----------------------------------------------------------------------------
(* The callers' threads *)

\* What a command buffer recorded stays.
SameBuffers(c) ==
  /\ cmdBuf'[c].held = cmdBuf[c].held
  /\ cmdBuf'[c].lent = cmdBuf[c].lent
  /\ cmdBuf'[c].fds = cmdBuf[c].fds

\* A step of thread t leaves the others where they are.
Moves(t) ==
  /\ prog' = prog
  /\ pc' \in [Thread -> Nat \ {0}]
  /\ step' \in [Thread -> Steps]
  /\ rest' = [u \in Thread |-> rest'[u]]
  /\ \A u \in Thread \ {t} : pc'[u] = pc[u] /\ step'[u] = step[u] /\ rest'[u] = rest[u]

(* A running thread is in one of its operations. *)
LEMMA OpType ==
  ASSUME Types, NEW t \in Thread, Running(t)
  PROVE  /\ Op(t) \in Operations
         /\ Op(t).kind \in {"alloca", "dealloca", "release"} => Op(t).buf \in Buffer
         /\ Op(t).kind = "record" => Op(t).cmdBuf \in CmdBuf /\ Op(t).cmds \in Seq(SUBSET Buffer)
         /\ Op(t).kind = "execute" => Op(t).cmdBuf \in CmdBuf \cup {None} /\ Op(t).bindings \in SUBSET Buffer
         /\ Op(t).kind = "releaseCmdBuf" => Op(t).cmdBuf \in CmdBuf
<1>1. prog[t] \in Seq(Operations) BY ProgramsAssumption DEF Types
<1>2. pc[t] \in Nat \ {0} BY DEF Types
<1>3. pc[t] \in 1 .. Len(prog[t]) BY <1>1, <1>2 DEF Running
<1>4. Op(t) \in Operations BY <1>1, <1>3 DEF Op
<1> QED BY <1>4 DEF Operations

(* Going on with the same operation. *)
LEMMA GotoMoves ==
  ASSUME Types, NEW t \in Thread, NEW s \in Steps, NEW r, Goto(t, s, r)
  PROVE  Moves(t) /\ step'[t] = s /\ rest'[t] = r /\ pc' = pc
BY DEF Types, Goto, Moves

(* Returning to the caller. *)
LEMMA ReturnMoves ==
  ASSUME Types, NEW t \in Thread, NEW result, Return(t, result)
  PROVE  Moves(t) /\ step'[t] = "wait" /\ rest'[t] = <<>>
<1>1. pc[t] \in Nat \ {0} /\ pc[t] + 1 \in Nat \ {0} BY DEF Types
<1>2. pc' \in [Thread -> Nat \ {0}] /\ \A u \in Thread \ {t} : pc'[u] = pc[u]
  BY <1>1 DEF Types, Return
<1>3. /\ step' \in [Thread -> Steps] /\ step'[t] = "wait"
      /\ \A u \in Thread \ {t} : step'[u] = step[u]
  BY DEF Types, Return, Steps
<1>4. /\ rest' = [u \in Thread |-> rest'[u]] /\ rest'[t] = <<>>
      /\ \A u \in Thread \ {t} : rest'[u] = rest[u]
  BY DEF Types, Return
<1> QED BY <1>2, <1>3, <1>4 DEF Return, Moves

(* What such a step leaves alone: the other threads, and which command buffers are being
   released if it is not about one. *)
LEMMA MovesFrame ==
  ASSUME NEW t \in Thread, Moves(t)
  PROVE  /\ \A u \in Thread \ {t} :
              /\ Op(u)' = Op(u) /\ (Running(u)' <=> Running(u))
              /\ \A k, s : At(u, k, s)' <=> At(u, k, s)
         /\ pc' = pc => Op(t)' = Op(t) /\ (Running(t)' <=> Running(t))
         /\ \A c : RecordedBuffers(c)' = RecordedBuffers(c)
         /\ ~At(t, "releaseCmdBuf", "free") /\ ~At(t, "releaseCmdBuf", "free")' =>
              /\ \A c : Releasing(c)' <=> Releasing(c)
              /\ cmdBuf' = cmdBuf => \A b : Holders(b)' = Holders(b)
<1>1. \A u \in Thread \ {t} :
        /\ Op(u)' = Op(u) /\ (Running(u)' <=> Running(u))
        /\ \A k, s : At(u, k, s)' <=> At(u, k, s)
  BY DEF Moves, Op, Running, At
<1>2. pc' = pc => Op(t)' = Op(t) /\ (Running(t)' <=> Running(t))
  BY DEF Moves, Op, Running
<1>3. \A c : RecordedBuffers(c)' = RecordedBuffers(c) BY DEF Moves, RecordedBuffers
<1>4. ASSUME ~At(t, "releaseCmdBuf", "free"), ~At(t, "releaseCmdBuf", "free")', NEW c
      PROVE  Releasing(c)' <=> Releasing(c)
  BY <1>1, <1>4 DEF Releasing
<1>5. ASSUME ~At(t, "releaseCmdBuf", "free"), ~At(t, "releaseCmdBuf", "free")',
             cmdBuf' = cmdBuf, NEW b
      PROVE  Holders(b)' = Holders(b)
  BY <1>4, <1>5 DEF Holders
<1> QED BY <1>1, <1>2, <1>3, <1>4, <1>5

(* The other threads keep what they have to go through. *)
LEMMA RestFrame ==
  ASSUME RestMatches, NEW t \in Thread, Moves(t), RestOf(t)'
  PROVE  RestMatches'
<1>1. ASSUME NEW u \in Thread \ {t} PROVE RestOf(u)'
  <2>1. RestOf(u) BY DEF RestMatches
  <2>2. step'[u] = step[u] /\ rest'[u] = rest[u] BY DEF Moves
  <2>3. Op(u)' = Op(u) /\ (Running(u)' <=> Running(u)) BY MovesFrame
  <2> QED BY <2>1, <2>2, <2>3 DEF RestOf
<1> QED BY <1>1 DEF RestMatches

(* A buffer that a command buffer retains is live until the command buffer is released. *)
LEMMA HeldIsLive ==
  ASSUME Types, References, NEW c \in CmdBuf, ~Releasing(c), NEW b \in cmdBuf[c].held
  PROVE  b \in Buffer /\ stage[b] = "live" /\ refs[b] > 0
<1>1. b \in Buffer BY DEF Types, CmdBufs
<1>2. c \in Holders(b) BY DEF Holders
<1>3. Holders(b) \in SUBSET CmdBuf BY DEF Holders
<1>4. IsFiniteSet(Holders(b)) BY <1>3, FS_Subset
<1>5. Cardinality(Holders(b)) \in Nat /\ Cardinality(Holders(b)) # 0
  BY <1>2, <1>4, FS_CardinalityType, FS_EmptySet
<1>6. refs[b] \in Nat /\ Cardinality(Holders(b)) <= refs[b] BY <1>1 DEF Types, References
<1>7. refs[b] > 0 BY <1>5, <1>6
<1> QED BY <1>1, <1>7 DEF References

(* What an execution works on is live while it runs. *)
LEMMA GivenIsLive ==
  ASSUME Inv, CallersKeepBuffers, NEW t \in Thread, At(t, "execute", "rpc"), NEW b \in Given(t)
  PROVE  b \in Buffer /\ stage[b] = "live" /\ b \in dspUsed
<1>1. Running(t) /\ Op(t).kind = "execute" BY DEF At
<1>2. RestOf(t) BY DEF Inv, RestMatches
<1>3. Op(t).cmdBuf # None BY <1>1, <1>2 DEF RestOf, At
<1>4. Op(t).cmdBuf \in CmdBuf /\ Op(t).bindings \in SUBSET Buffer
  BY <1>1, <1>3, OpType DEF Inv
<1>5. /\ ~Releasing(Op(t).cmdBuf)
      /\ \A x \in Op(t).bindings \cup cmdBuf[Op(t).cmdBuf].lent : Usable(x)
  BY DEF CallersKeepBuffers
<1>6. CASE b \in Op(t).bindings
  BY <1>4, <1>5, <1>6 DEF Usable, Inv, Executions
<1>7. CASE b \in cmdBuf[Op(t).cmdBuf].held
  BY <1>4, <1>5, <1>7, HeldIsLive DEF Inv, References, RecordingOf, Named
<1>8. CASE b \in cmdBuf[Op(t).cmdBuf].lent
  BY <1>4, <1>5, <1>8 DEF Usable, Inv, Types, CmdBufs, References, RecordingOf, Named
<1> QED BY <1>6, <1>7, <1>8 DEF Given, Named

(* A step that only moves one caller, not to the DSP and not to or from freeing. *)
LEMMA QuietStep ==
  ASSUME Inv, NEW t \in Thread, Moves(t), RestOf(t)',
         UNCHANGED <<refs, stage, fdOf, registered, resident, pinned, sessionUp, inUse>>,
         dspUsed \subseteq dspUsed', dspUsed' \subseteq Buffer,
         cmdBuf' \in [CmdBuf -> CmdBufs],
         \A c \in CmdBuf : SameBuffers(c),
         step[t] # "free", step'[t] \notin {"free", "rpc"}, inUse[t] = None
  PROVE  Inv'
<1>1. Types' BY DEF Inv, Types, Moves
<1>2. RestMatches' BY RestFrame DEF Inv
<1>3. Registration' BY DEF Inv, Registration
<1>4. Mapping' BY DEF Inv, Mapping
<1>5. ~At(t, "releaseCmdBuf", "free") /\ ~At(t, "releaseCmdBuf", "free")' BY DEF At
<1>6. \A c : Releasing(c)' <=> Releasing(c) BY <1>5, MovesFrame
<1>7. /\ \A b : Holders(b)' = Holders(b)
      /\ \A c \in CmdBuf : Named(c)' = Named(c)
  BY <1>6 DEF Holders, SameBuffers, Named
<1>8. References'
  <2>1. \A c : RecordedBuffers(c)' = RecordedBuffers(c) BY MovesFrame
  <2> QED BY <1>6, <1>7, <2>1 DEF Inv, References, RecordingOf, SameBuffers
<1>9. Executions'
  <2>1. ~At(t, "execute", "rpc")' BY DEF At
  <2>2. ASSUME NEW u \in Thread \ {t}, At(u, "execute", "rpc")'
        PROVE  /\ At(u, "execute", "rpc") /\ Op(u)' = Op(u) /\ rest'[u] = rest[u]
               /\ Given(u)' = Given(u)
    <3>1. At(u, "execute", "rpc") /\ Op(u)' = Op(u) /\ rest'[u] = rest[u]
      BY <2>2, MovesFrame DEF Moves
    <3>2. RestOf(u) /\ Running(u) /\ step[u] = "rpc" /\ Op(u).kind = "execute"
      BY <3>1 DEF Inv, RestMatches, At
    <3>3. Op(u).cmdBuf \in CmdBuf BY <3>2, OpType DEF RestOf, Inv
    <3> QED BY <1>7, <3>1, <3>3 DEF Given
  <2>3. ASSUME NEW u \in Thread, inUse'[u] # None
        PROVE  u # t /\ At(u, "execute", "rpc")' /\ At(u, "execute", "rpc")
    <3>1. u # t /\ inUse[u] # None BY <2>3
    <3>2. At(u, "execute", "rpc") BY <3>1 DEF Inv, Executions
    <3> QED BY <3>1, <3>2, MovesFrame
  <2> QED BY <2>1, <2>2, <2>3 DEF Inv, Executions
<1> QED BY <1>1, <1>2, <1>3, <1>4, <1>8, <1>9 DEF Inv

(* A caller whose execution is not on the DSP uses nothing there. *)
LEMMA NotAtDsp == ASSUME Inv, NEW t \in Thread, step[t] # "rpc" PROVE inUse[t] = None
BY DEF Inv, Executions, At

(* A thread goes on with its operation and nothing else changes. *)
LEMMA QuietGoto ==
  ASSUME Inv, NEW t \in Thread, NEW s \in {"create", "record", "serialize", "work", "signal"},
         NEW r, Goto(t, s, r), Running(t), step[t] # "free", inUse[t] = None,
         s \in {"create", "record"} =>
           /\ Op(t).kind = "record" /\ r \in Seq(SUBSET Buffer)
           /\ \A k \in DOMAIN r : \E j \in DOMAIN Op(t).cmds : r[k] = Op(t).cmds[j],
         s = "serialize" => Op(t).kind = "execute" /\ Op(t).cmdBuf # None,
         UNCHANGED <<refs, stage, fdOf, registered, resident, pinned, sessionUp, inUse>>,
         dspUsed \subseteq dspUsed', dspUsed' \subseteq Buffer,
         cmdBuf' \in [CmdBuf -> CmdBufs],
         \A c \in CmdBuf : SameBuffers(c)
  PROVE  Inv'
<1>1. Types /\ s \in Steps BY DEF Inv, Steps
<1>2. Moves(t) /\ step'[t] = s /\ rest'[t] = r /\ pc' = pc BY <1>1, GotoMoves
<1>3. Op(t)' = Op(t) BY <1>2, MovesFrame
<1>4. RestOf(t)' BY <1>2, <1>3 DEF RestOf
<1> QED BY <1>2, <1>4, QuietStep

(* A thread returns and nothing else changes. *)
LEMMA QuietReturn ==
  ASSUME Inv, NEW t \in Thread, NEW result, Return(t, result), step[t] # "free",
         inUse[t] = None,
         UNCHANGED <<refs, stage, fdOf, registered, resident, pinned, sessionUp, inUse, cmdBuf>>,
         dspUsed \subseteq dspUsed', dspUsed' \subseteq Buffer
  PROVE  Inv'
<1>1. Types /\ cmdBuf' \in [CmdBuf -> CmdBufs] /\ \A c \in CmdBuf : SameBuffers(c)
  BY DEF Inv, Types, SameBuffers
<1>2. Moves(t) /\ step'[t] = "wait" BY <1>1, ReturnMoves
<1>3. RestOf(t)' BY <1>2 DEF RestOf
<1> QED BY <1>1, <1>2, <1>3, QuietStep

(* A caller begins an operation, or skips it. *)
LEMMA WaitInv == ASSUME Inv, NEW t \in Thread, Wait(t) \/ Skip(t) PROVE Inv'
<1>0. Types /\ cmdBuf' = cmdBuf /\ cmdBuf \in [CmdBuf -> CmdBufs] /\ dspUsed' = dspUsed
      /\ dspUsed \subseteq Buffer /\ UNCHANGED <<memVars, inUse>>
      /\ \A c \in CmdBuf : SameBuffers(c)
  BY DEF Wait, Skip, memVars, Inv, Types, SameBuffers
<1>1. UNCHANGED <<refs, stage, fdOf, registered, resident, pinned, sessionUp, inUse>>
  BY <1>0 DEF memVars
<1>2. Running(t) /\ step[t] = "wait" /\ inUse[t] = None BY NotAtDsp DEF Wait, Skip
<1>3. CASE Skip(t)
  <2>1. Return(t, "skipped") BY <1>3 DEF Skip
  <2> QED BY <1>0, <1>1, <1>2, <2>1, QuietReturn
<1>4. CASE Wait(t)
  <2>1. CASE Op(t).kind = "record"
    <3>1. Goto(t, "create", Op(t).cmds) BY <1>4, <2>1 DEF Wait
    <3>2. Op(t).cmds \in Seq(SUBSET Buffer) BY <1>0, <1>2, <2>1, OpType
    <3> QED BY <1>0, <1>1, <1>2, <2>1, <3>1, <3>2, QuietGoto
  <2>2. CASE Op(t).kind = "execute" /\ Op(t).cmdBuf = None
    <3>1. Goto(t, "signal", Op(t).signal) BY <1>4, <2>2 DEF Wait
    <3> QED BY <1>0, <1>1, <1>2, <3>1, QuietGoto
  <2>3. CASE Op(t).kind = "execute" /\ Op(t).cmdBuf # None
    <3>1. Goto(t, "serialize", <<>>) BY <1>4, <2>3 DEF Wait
    <3> QED BY <1>0, <1>1, <1>2, <2>3, <3>1, QuietGoto
  <2>4. CASE Op(t).kind \notin {"record", "execute"}
    <3>1. Goto(t, "work", <<>>) BY <1>4, <2>4 DEF Wait
    <3> QED BY <1>0, <1>1, <1>2, <3>1, QuietGoto
  <2> QED BY <2>1, <2>2, <2>3, <2>4
<1> QED BY <1>3, <1>4

(* A caller signals, or comes to the end of the operation. *)
LEMMA SignalInv == ASSUME Inv, NEW t \in Thread, Signal(t) \/ Finish(t) PROVE Inv'
<1>0. Types /\ cmdBuf' = cmdBuf /\ cmdBuf \in [CmdBuf -> CmdBufs] /\ dspUsed' = dspUsed
      /\ dspUsed \subseteq Buffer /\ UNCHANGED <<memVars, inUse>>
      /\ \A c \in CmdBuf : SameBuffers(c)
  BY DEF Signal, Finish, memVars, Inv, Types, SameBuffers
<1>1. UNCHANGED <<refs, stage, fdOf, registered, resident, pinned, sessionUp, inUse>>
  BY <1>0 DEF memVars
<1>2. Running(t) /\ step[t] = "signal" /\ inUse[t] = None BY NotAtDsp DEF Signal, Finish
<1>3. (\E result : Return(t, result)) \/ Goto(t, "signal", Tail(rest[t]))
  BY DEF Signal, Finish, ReturnError
<1>4. CASE \E result : Return(t, result)
  BY <1>0, <1>1, <1>2, <1>4, QuietReturn
<1>5. CASE Goto(t, "signal", Tail(rest[t]))
  BY <1>0, <1>1, <1>2, <1>5, QuietGoto
<1> QED BY <1>3, <1>4, <1>5

(* The RPC returns. *)
LEMMA ExecuteReturnsInv == ASSUME Inv, NEW t \in Thread, ExecuteReturns(t) PROVE Inv'
<1>0. Types /\ cmdBuf' = cmdBuf /\ cmdBuf \in [CmdBuf -> CmdBufs] /\ dspUsed' = dspUsed
      /\ dspUsed \subseteq Buffer /\ UNCHANGED <<memVars, inUse>>
      /\ \A c \in CmdBuf : SameBuffers(c)
  BY DEF ExecuteReturns, memVars, Inv, Types, SameBuffers
<1>1. UNCHANGED <<refs, stage, fdOf, registered, resident, pinned, sessionUp, inUse>>
  BY <1>0 DEF memVars
<1>2. Running(t) /\ step[t] = "rpc" /\ inUse[t] = None BY DEF ExecuteReturns, At
<1>3. CASE Return(t, "error") BY <1>0, <1>1, <1>2, <1>3, QuietReturn
<1>4. CASE Goto(t, "signal", Op(t).signal) BY <1>0, <1>1, <1>2, <1>4, QuietGoto
<1> QED BY <1>3, <1>4 DEF ExecuteReturns, ReturnError

(* A command buffer is made or ended: what it recorded stays. *)
LEMMA FlagsKeepBuffers ==
  ASSUME cmdBuf \in [CmdBuf -> CmdBufs], NEW c \in CmdBuf, NEW flag \in BOOLEAN,
         \/ cmdBuf' = [cmdBuf EXCEPT ![c].made = flag]
         \/ cmdBuf' = [cmdBuf EXCEPT ![c].dsp = flag]
  PROVE  cmdBuf' \in [CmdBuf -> CmdBufs] /\ \A d \in CmdBuf : SameBuffers(d)
<1> DEFINE made == [cmdBuf[c] EXCEPT !.made = flag]
           dsp == [cmdBuf[c] EXCEPT !.dsp = flag]
<1>1. cmdBuf[c] \in CmdBufs OBVIOUS
<1>2. /\ made \in CmdBufs /\ dsp \in CmdBufs
      /\ made.held = cmdBuf[c].held /\ dsp.held = cmdBuf[c].held
      /\ made.lent = cmdBuf[c].lent /\ dsp.lent = cmdBuf[c].lent
      /\ made.fds = cmdBuf[c].fds /\ dsp.fds = cmdBuf[c].fds
  BY <1>1 DEF CmdBufs
<1>3. cmdBuf' = [cmdBuf EXCEPT ![c] = made] \/ cmdBuf' = [cmdBuf EXCEPT ![c] = dsp] OBVIOUS
<1> HIDE DEF made, dsp
<1>4. /\ cmdBuf' \in [CmdBuf -> CmdBufs]
      /\ cmdBuf'[c] \in {made, dsp} /\ \A d \in CmdBuf \ {c} : cmdBuf'[d] = cmdBuf[d]
  BY <1>2, <1>3
<1> QED BY <1>2, <1>4 DEF SameBuffers

(* A command buffer is created or ended. *)
LEMMA CreateEndInv == ASSUME Inv, NEW t \in Thread, CreateCmdBuf(t) \/ EndCmdBuf(t) PROVE Inv'
<1>0. Types /\ cmdBuf \in [CmdBuf -> CmdBufs] /\ dspUsed' = dspUsed
      /\ dspUsed \subseteq Buffer /\ UNCHANGED <<memVars, inUse>>
  BY DEF CreateCmdBuf, EndCmdBuf, memVars, Inv, Types
<1>1. UNCHANGED <<refs, stage, fdOf, registered, resident, pinned, sessionUp, inUse>>
  BY <1>0 DEF memVars
<1>2. /\ Running(t) /\ step[t] \in {"create", "record"} /\ inUse[t] = None
      /\ Op(t).kind = "record"
  BY NotAtDsp DEF CreateCmdBuf, EndCmdBuf, At
<1>3. Op(t).cmdBuf \in CmdBuf BY <1>0, <1>2, OpType
<1>4. CASE Return(t, "error") /\ cmdBuf' = cmdBuf BY <1>0, <1>1, <1>2, <1>4, QuietReturn
<1>5. CASE /\ cmdBuf' = [cmdBuf EXCEPT ![Op(t).cmdBuf].made = TRUE]
           /\ Goto(t, "record", rest[t])
  <2>1. RestOf(t) BY DEF Inv, RestMatches
  <2>2. /\ rest[t] \in Seq(SUBSET Buffer)
        /\ \A k \in DOMAIN rest[t] : \E j \in DOMAIN Op(t).cmds : rest[t][k] = Op(t).cmds[j]
    BY <1>2, <2>1 DEF RestOf
  <2>3. /\ cmdBuf' \in [CmdBuf -> CmdBufs]
        /\ \A c \in CmdBuf : SameBuffers(c)
    BY <1>0, <1>3, <1>5, FlagsKeepBuffers
  <2> QED BY <1>0, <1>1, <1>2, <1>5, <2>2, <2>3, QuietGoto
<1>6. CASE /\ cmdBuf' = [cmdBuf EXCEPT ![Op(t).cmdBuf].dsp = TRUE]
           /\ Goto(t, "signal", Op(t).signal)
  <2>1. /\ cmdBuf' \in [CmdBuf -> CmdBufs]
        /\ \A c \in CmdBuf : SameBuffers(c)
    BY <1>0, <1>3, <1>6, FlagsKeepBuffers
  <2> QED BY <1>0, <1>1, <1>2, <1>6, <2>1, QuietGoto
<1> QED BY <1>4, <1>5, <1>6 DEF CreateCmdBuf, EndCmdBuf, ReturnError

----------------------------------------------------------------------------
(* Memory *)

(* A step of a caller outside the DSP leaves the executions of the others alone: they keep
   their buffers, and live buffers keep their descriptors. *)
LEMMA ExecutionsFrame ==
  ASSUME Inv, CallersKeepBuffers, NEW t \in Thread, Moves(t),
         inUse[t] = None, ~At(t, "execute", "rpc")',
         UNCHANGED <<inUse, pinned>>, dspUsed \subseteq dspUsed',
         \A c \in CmdBuf : ~Releasing(c) => Named(c) \subseteq Named(c)',
         \A b \in Buffer : stage[b] = "live" => fdOf'[b] = fdOf[b],
         \A u \in Thread : inUse[u] # None => resident'[inUse[u]] # None
  PROVE  Executions'
<1>1. ASSUME NEW u \in Thread \ {t}, At(u, "execute", "rpc")'
      PROVE  /\ At(u, "execute", "rpc") /\ Op(u)' = Op(u) /\ rest'[u] = rest[u]
             /\ Given(u) \subseteq Given(u)'
             /\ \A b \in Given(u) : fdOf'[b] = fdOf[b]
  <2>1. At(u, "execute", "rpc") /\ Op(u)' = Op(u) /\ rest'[u] = rest[u]
    BY <1>1, MovesFrame DEF Moves
  <2>2. RestOf(u) /\ Running(u) /\ step[u] = "rpc" /\ Op(u).kind = "execute"
    BY <2>1 DEF Inv, RestMatches, At
  <2>3. Op(u).cmdBuf \in CmdBuf BY <2>2, OpType DEF RestOf, Inv
  <2>4. ~Releasing(Op(u).cmdBuf) BY <2>1 DEF CallersKeepBuffers
  <2>5. Given(u) \subseteq Given(u)' BY <2>1, <2>3, <2>4 DEF Given
  <2>6. \A b \in Given(u) : fdOf'[b] = fdOf[b] BY <2>1, GivenIsLive
  <2> QED BY <2>1, <2>5, <2>6
<1>2. ASSUME NEW u \in Thread, inUse'[u] # None
      PROVE  u # t /\ At(u, "execute", "rpc")' /\ At(u, "execute", "rpc")
  <2>1. u # t /\ inUse[u] # None BY <1>2
  <2>2. At(u, "execute", "rpc") BY <2>1 DEF Inv, Executions
  <2> QED BY <2>1, <2>2, MovesFrame
<1>3. ASSUME NEW u \in Thread, At(u, "execute", "rpc")'
      PROVE  /\ Op(u)'.bindings \subseteq dspUsed'
             /\ \A k \in DOMAIN rest'[u] : \E b \in Given(u)' : fdOf'[b] = rest'[u][k]
  <2>1. u \in Thread \ {t} BY <1>3
  <2>2. /\ Op(u).bindings \subseteq dspUsed
        /\ \A k \in DOMAIN rest[u] : \E b \in Given(u) : fdOf[b] = rest[u][k]
    BY <1>1, <1>3, <2>1 DEF Inv, Executions
  <2> QED BY <1>1, <1>3, <2>1, <2>2
<1>4. ASSUME NEW u \in Thread, inUse'[u] # None
      PROVE  /\ \E b \in Given(u)' : fdOf'[b] = inUse'[u]
             /\ resident'[inUse'[u]] # None
  <2>1. u \in Thread \ {t} /\ At(u, "execute", "rpc")' /\ inUse[u] # None BY <1>2, <1>4
  <2>2. \E b \in Given(u) : fdOf[b] = inUse[u] BY <2>1 DEF Inv, Executions
  <2> QED BY <1>1, <2>1, <2>2
<1>5. \A f \in Fd : pinned'[f] = Cardinality({u \in Thread : inUse'[u] = f})
  BY DEF Inv, Executions
<1> QED BY <1>2, <1>3, <1>4, <1>5 DEF Executions

(* A command buffer's descriptors stay those of its live buffers. *)
LEMMA DescriptorsFrame ==
  ASSUME Types, References, NEW c \in CmdBuf, SameBuffers(c),
         RecordedBuffers(c)' = RecordedBuffers(c), dspUsed \subseteq dspUsed',
         \A b \in Buffer : stage[b] = "live" => fdOf'[b] = fdOf[b],
         \A b \in Buffer : stage'[b] = "live" => stage[b] \in {"live", "none"},
         \A b \in Buffer : stage[b] # "none" => stage'[b] # "none",
         Releasing(c) => Releasing(c)'
  PROVE  RecordingOf(c)'
<1>1. Named(c)' = Named(c) BY DEF SameBuffers, Named
<1>2. Named(c) \subseteq Buffer /\ cmdBuf[c].lent \subseteq Buffer BY DEF Types, CmdBufs, Named
<1>3. ASSUME ~Releasing(c), NEW b \in Named(c), stage'[b] = "live"
      PROVE  stage[b] = "live" /\ fdOf'[b] = fdOf[b]
  <2>1. b \in Buffer /\ stage[b] \in {"live", "none"} BY <1>2, <1>3
  <2>2. CASE b \in cmdBuf[c].held BY <1>3, <2>1, <2>2, HeldIsLive
  <2>3. CASE b \in cmdBuf[c].lent BY <2>1, <2>3 DEF References, RecordingOf
  <2> QED BY <1>3, <2>2, <2>3 DEF Named
<1>4. ASSUME ~Releasing(c), NEW f \in cmdBuf'[c].fds
      PROVE  \E b \in Named(c)' : stage'[b] = "live" => fdOf'[b] = f
  <2>1. PICK b \in Named(c) : stage[b] = "live" => fdOf[b] = f
    BY <1>4 DEF References, RecordingOf, SameBuffers
  <2> QED BY <1>1, <1>3, <1>4, <2>1
<1>5. \A b \in cmdBuf'[c].lent : stage'[b] # "none"
  BY <1>2 DEF References, RecordingOf, SameBuffers
<1>6. Named(c)' \subseteq dspUsed' /\ Named(c)' \subseteq RecordedBuffers(c)'
  BY <1>1 DEF References, RecordingOf
<1> QED BY <1>4, <1>5, <1>6 DEF RecordingOf

(* queue_alloca: the buffer gets a descriptor that nobody has. *)
LEMMA AllocaInv ==
  ASSUME Inv, CallersKeepBuffers, NEW t \in Thread, Alloca(t)
  PROVE  Inv'
<1>0. Types /\ Registration /\ Mapping /\ References BY DEF Inv
<1>1. Running(t) /\ step[t] = "work" /\ Op(t).kind = "alloca" /\ inUse[t] = None
  BY NotAtDsp DEF Alloca, At
<1> DEFINE a == Op(t).buf
<1>2. a \in Buffer BY <1>0, <1>1, OpType
<1>3. inUse' = inUse /\ cmdBuf' = cmdBuf BY DEF Alloca
<1>4. CASE Return(t, "error") /\ UNCHANGED memVars
  <2>1. UNCHANGED <<refs, stage, fdOf, registered, resident, pinned, sessionUp, inUse, cmdBuf>>
        /\ dspUsed' = dspUsed /\ dspUsed \subseteq Buffer
    BY <1>0, <1>3, <1>4 DEF memVars, Types
  <2> QED BY <1>1, <1>4, <2>1, QuietReturn
<1>5. CASE AllocateBuffer(a) /\ Goto(t, "signal", Op(t).signal)
  <2>1. /\ stage[a] = "none" /\ UNCHANGED <<dspUsed, resident, pinned, sessionUp>>
        /\ refs' = [refs EXCEPT ![a] = 1] /\ stage' = [stage EXCEPT ![a] = "live"]
    BY <1>5 DEF AllocateBuffer, BufferWrap
  <2>2. PICK f \in FreeFds : /\ fdOf' = [fdOf EXCEPT ![a] = f]
                             /\ registered' = [registered EXCEPT ![f] = a]
    BY <1>5 DEF AllocateBuffer, MemAllocCreate
  <2>3. f \in Fd /\ registered[f] = None BY DEF FreeFds
  <2>4. Moves(t) /\ step'[t] = "signal" BY <1>0, <1>5, GotoMoves DEF Steps
  <2> HIDE DEF a
  <2>5. RestMatches'
    <3>1. RestOf(t)' BY <2>4 DEF RestOf
    <3> QED BY <2>4, <3>1, RestFrame DEF Inv
  <2>6. Types' BY <1>0, <1>2, <1>3, <2>1, <2>2, <2>3, <2>4 DEF Types, Moves, Stages
  <2>7. /\ refs'[a] = 1 /\ stage'[a] = "live" /\ fdOf'[a] = f /\ registered'[f] = a
        /\ \A b \in Buffer \ {a} : refs'[b] = refs[b] /\ stage'[b] = stage[b] /\ fdOf'[b] = fdOf[b]
        /\ \A g \in Fd \ {f} : registered'[g] = registered[g]
    BY <1>0, <1>2, <2>1, <2>2, <2>3 DEF Types
  <2>8. \A b \in Buffer : stage[b] = "live" => fdOf'[b] = fdOf[b] BY <2>1, <2>7
  <2>9. Registration'
    <3>1. ASSUME NEW b \in Buffer, stage'[b] \in {"live", "dying", "forgotten", "leaked"}
          PROVE  fdOf'[b] \in Fd /\ registered'[fdOf'[b]] = b
      BY <1>0, <1>2, <2>3, <2>7, <3>1 DEF Registration
    <3>2. ASSUME NEW g \in Fd, registered'[g] # None
          PROVE  /\ fdOf'[registered'[g]] = g
                 /\ stage'[registered'[g]] \in {"live", "dying", "forgotten", "leaked"}
      <4>1. CASE g = f BY <2>7, <4>1
      <4>2. CASE g # f
        <5>1. registered'[g] = registered[g] /\ registered[g] \in Buffer
          BY <1>0, <2>7, <3>2, <4>2 DEF Types
        <5>2. /\ fdOf[registered[g]] = g
              /\ stage[registered[g]] \in {"live", "dying", "forgotten", "leaked"}
          BY <1>0, <3>2, <5>1 DEF Registration
        <5>3. registered[g] # a BY <2>1, <5>2
        <5> QED BY <2>7, <5>1, <5>2, <5>3
      <4> QED BY <4>1, <4>2
    <3> QED BY <3>1, <3>2 DEF Registration
  <2>10. Mapping'
    <3>1. ASSUME NEW g \in Fd, resident[g] # None
          PROVE  /\ registered'[g] = resident[g] /\ stage'[resident[g]] \in {"live", "dying", "leaked"}
                 /\ resident[g] \in dspUsed
      <4>1. /\ registered[g] = resident[g] /\ stage[resident[g]] \in {"live", "dying", "leaked"}
            /\ resident[g] \in dspUsed /\ resident[g] \in Buffer
        BY <1>0, <3>1 DEF Mapping, Types
      <4>2. g # f /\ resident[g] # a BY <2>1, <2>3, <3>1, <4>1
      <4> QED BY <2>7, <4>1, <4>2
    <3> QED BY <1>0, <2>1, <3>1 DEF Mapping
  <2>11. ~At(t, "releaseCmdBuf", "free") /\ ~At(t, "releaseCmdBuf", "free")'
         /\ ~At(t, "execute", "rpc")'
    BY <1>1, <2>4 DEF At
  <2>12. /\ \A c : (Releasing(c)' <=> Releasing(c)) /\ RecordedBuffers(c)' = RecordedBuffers(c)
         /\ \A b : Holders(b)' = Holders(b)
    BY <1>3, <2>4, <2>11, MovesFrame
  <2>13. References'
    <3>1. refs[a] = 0 /\ Cardinality(Holders(a)) <= refs[a] BY <1>0, <1>2, <2>1 DEF References, Types
    <3>2. Holders(a) \in SUBSET CmdBuf BY DEF Holders
    <3>3. Cardinality(Holders(a)) \in Nat BY <3>2, FS_Subset, FS_CardinalityType
    <3>4. Cardinality(Holders(a)) <= 1 BY <3>1, <3>3
    <3>5. \A b \in Buffer : /\ refs'[b] > 0 <=> stage'[b] = "live"
                            /\ Cardinality(Holders(b)') <= refs'[b]
      BY <1>0, <2>7, <2>12, <3>4 DEF References
    <3>6. \A b \in Buffer : /\ stage'[b] = "live" => stage[b] \in {"live", "none"}
                            /\ stage[b] # "none" => stage'[b] # "none"
      BY <2>1, <2>7
    <3>7. ASSUME NEW c \in CmdBuf PROVE RecordingOf(c)'
      <4>1. SameBuffers(c) BY <1>3 DEF SameBuffers
      <4> QED BY <1>0, <2>1, <2>8, <2>12, <3>6, <4>1, DescriptorsFrame
    <3> QED BY <3>5, <3>7 DEF References
  <2>14. Executions'
    <3>1. \A u \in Thread : inUse[u] # None => resident'[inUse[u]] # None
      BY <2>1 DEF Inv, Executions
    <3>2. \A c \in CmdBuf : Named(c)' = Named(c) BY <1>3 DEF Named
    <3> QED BY <1>1, <1>3, <2>1, <2>4, <2>8, <2>11, <3>1, <3>2, ExecutionsFrame
  <2> QED BY <2>5, <2>6, <2>9, <2>10, <2>13, <2>14 DEF Inv
<1> QED BY <1>4, <1>5 DEF Alloca, ReturnError

(* References are given back, and buffers without any are destroyed. *)
LEMMA DropStep ==
  ASSUME Inv, CallersKeepBuffers, NEW t \in Thread, Moves(t), RestOf(t)',
         inUse[t] = None, ~At(t, "execute", "rpc")',
         UNCHANGED <<fdOf, dspUsed, registered, resident, pinned, sessionUp, inUse>>,
         refs' \in [Buffer -> Nat], stage' \in [Buffer -> Stages],
         cmdBuf' \in [CmdBuf -> CmdBufs],
         \A c \in CmdBuf : SameBuffers(c),
         \A b \in Buffer : stage'[b] = stage[b] \/ (stage[b] = "live" /\ stage'[b] = "dying"),
         \A b \in Buffer : refs'[b] > 0 <=> stage'[b] = "live",
         \A b \in Buffer : Cardinality(Holders(b)') <= refs'[b],
         \A c \in CmdBuf : Releasing(c) => Releasing(c)'
  PROVE  Inv'
<1>0. Types /\ Registration /\ Mapping /\ References BY DEF Inv
<1>1. Types' BY <1>0 DEF Types, Moves
<1>2. RestMatches' BY RestFrame DEF Inv
<1>3. Registration'
  <2>1. ASSUME NEW f \in Fd, registered[f] # None
        PROVE  stage'[registered[f]] \in {"live", "dying", "forgotten", "leaked"}
    <3>1. /\ registered[f] \in Buffer
          /\ stage[registered[f]] \in {"live", "dying", "forgotten", "leaked"}
      BY <1>0, <2>1 DEF Registration, Types
    <3> QED BY <3>1
  <2> QED BY <1>0, <2>1 DEF Registration
<1>4. Mapping'
  <2>1. ASSUME NEW f \in Fd, resident[f] # None
        PROVE  stage'[resident[f]] \in {"live", "dying", "leaked"}
    <3>1. resident[f] \in Buffer /\ stage[resident[f]] \in {"live", "dying", "leaked"}
      BY <1>0, <2>1 DEF Mapping, Types
    <3> QED BY <3>1
  <2> QED BY <1>0, <2>1 DEF Mapping
<1>5. References'
  <2>1. \A c : RecordedBuffers(c)' = RecordedBuffers(c) BY MovesFrame
  <2>2. \A c \in CmdBuf : RecordingOf(c)' BY <1>0, <2>1, DescriptorsFrame
  <2> QED BY <2>2 DEF References
<1>6. Executions'
  <2>1. \A u \in Thread : inUse[u] # None => resident'[inUse[u]] # None
    BY DEF Inv, Executions
  <2>2. \A c \in CmdBuf : Named(c)' = Named(c) BY DEF SameBuffers, Named
  <2> QED BY <2>1, <2>2, ExecutionsFrame
<1> QED BY <1>1, <1>2, <1>3, <1>4, <1>5, <1>6 DEF Inv

(* The number of command buffers that have a reference. *)
LEMMA HoldersType ==
  ASSUME NEW b
  PROVE  /\ Holders(b) \in SUBSET CmdBuf /\ IsFiniteSet(Holders(b))
         /\ Cardinality(Holders(b)) \in Nat
<1>1. Holders(b) \in SUBSET CmdBuf BY DEF Holders
<1> QED BY <1>1, FS_Subset, FS_CardinalityType

(* queue_dealloca: the buffer that nobody else retains is destroyed. *)
LEMMA DeallocaInv ==
  ASSUME Inv, CallersKeepBuffers, NEW t \in Thread, Dealloca(t)
  PROVE  Inv'
<1>0. Types /\ References BY DEF Inv
<1>1. Running(t) /\ step[t] = "work" /\ Op(t).kind = "dealloca" /\ inUse[t] = None
  BY NotAtDsp DEF Dealloca, At
<1> DEFINE a == Op(t).buf
<1>2. a \in Buffer /\ stage[a] = "live" /\ Holders(a) = {}
  BY <1>0, <1>1, OpType DEF CallersKeepBuffers, Usable, At
<1>3. /\ refs' = [refs EXCEPT ![a] = 0] /\ stage' = [stage EXCEPT ![a] = "dying"]
      /\ UNCHANGED <<fdOf, dspUsed, registered, resident, pinned, sessionUp, inUse, cmdBuf>>
      /\ \A c \in CmdBuf : SameBuffers(c)
  BY DEF Dealloca, Destroy, SameBuffers
<1>4. Moves(t) /\ step'[t] = "free" /\ pc' = pc BY <1>0, GotoMoves DEF Dealloca, Steps
<1>5. Op(t)' = Op(t) BY <1>4, MovesFrame
<1>6. /\ ~At(t, "releaseCmdBuf", "free") /\ ~At(t, "releaseCmdBuf", "free")'
      /\ ~At(t, "execute", "rpc")' /\ RestOf(t)'
  BY <1>1, <1>4, <1>5 DEF At, RestOf
<1> HIDE DEF a
<1>7. (\A c : Releasing(c)' <=> Releasing(c)) /\ \A b : Holders(b)' = Holders(b)
  BY <1>3, <1>4, <1>6, MovesFrame
<1>8. /\ refs' \in [Buffer -> Nat] /\ stage' \in [Buffer -> Stages]
      /\ refs'[a] = 0 /\ stage'[a] = "dying"
      /\ \A b \in Buffer \ {a} : refs'[b] = refs[b] /\ stage'[b] = stage[b]
      /\ cmdBuf' \in [CmdBuf -> CmdBufs]
  BY <1>0, <1>2, <1>3 DEF Types, Stages
<1>9. \A b \in Buffer : Cardinality(Holders(b)') <= refs'[b]
  <2> SUFFICES ASSUME NEW b \in Buffer PROVE Cardinality(Holders(b)') <= refs'[b] OBVIOUS
  <2>1. Cardinality(Holders(b)') = Cardinality(Holders(b)) BY <1>7
  <2>2. CASE b = a
    <3>1. Cardinality(Holders(b)) = 0 BY <1>2, <2>2, FS_EmptySet
    <3> QED BY <1>8, <2>1, <2>2, <3>1
  <2>3. CASE b # a BY <1>0, <1>8, <2>1, <2>3 DEF References
  <2> QED BY <2>2, <2>3
<1>10. \A b \in Buffer : refs'[b] > 0 <=> stage'[b] = "live" BY <1>0, <1>8 DEF References
<1>11. \A b \in Buffer : stage'[b] = stage[b] \/ (stage[b] = "live" /\ stage'[b] = "dying")
  BY <1>2, <1>8
<1> QED BY <1>1, <1>3, <1>4, <1>6, <1>7, <1>8, <1>9, <1>10, <1>11, DropStep

(* What Drop does to the references. *)
LEMMA DropType ==
  ASSUME Types, References, NEW S \in SUBSET Buffer, Drop(S), \A b \in S : stage[b] = "live"
  PROVE  /\ refs' \in [Buffer -> Nat] /\ stage' \in [Buffer -> Stages]
         /\ \A b \in Buffer : stage'[b] = stage[b] \/ (stage[b] = "live" /\ stage'[b] = "dying")
         /\ \A b \in Buffer : refs'[b] > 0 <=> stage'[b] = "live"
         /\ \A b \in S : refs[b] \in Nat /\ refs[b] > 0 /\ refs'[b] = refs[b] - 1
         /\ \A b \in Buffer \ S : refs'[b] = refs[b]
<1>1. \A b \in Buffer : refs[b] \in Nat /\ (refs[b] > 0 <=> stage[b] = "live")
  BY DEF Types, References
<1>2. \A b \in S : refs[b] > 0 /\ refs[b] - 1 \in Nat BY <1>1
<1>3. /\ \A b \in S : refs'[b] = refs[b] - 1
      /\ \A b \in Buffer \ S : refs'[b] = refs[b]
      /\ \A b \in Buffer : stage'[b] = IF b \in S /\ refs[b] = 1 THEN "dying" ELSE stage[b]
  BY DEF Drop
<1>4. refs' \in [Buffer -> Nat]
  <2>1. refs' = [b \in Buffer |-> IF b \in S THEN refs[b] - 1 ELSE refs[b]] BY DEF Drop
  <2> QED BY <1>1, <1>2, <2>1
<1>5. stage' \in [Buffer -> Stages] BY DEF Drop, Types, Stages
<1>6. \A b \in Buffer : refs'[b] > 0 <=> stage'[b] = "live"
  <2> SUFFICES ASSUME NEW b \in Buffer PROVE refs'[b] > 0 <=> stage'[b] = "live" OBVIOUS
  <2>1. CASE b \in S /\ refs[b] = 1 BY <1>3, <2>1
  <2>2. CASE b \in S /\ refs[b] # 1 BY <1>1, <1>2, <1>3, <2>2
  <2>3. CASE b \notin S BY <1>1, <1>3, <2>3
  <2> QED BY <2>1, <2>2, <2>3
<1>7. \A b \in Buffer : stage'[b] = stage[b] \/ (stage[b] = "live" /\ stage'[b] = "dying")
  BY <1>3
<1> QED BY <1>1, <1>2, <1>3, <1>4, <1>5, <1>6, <1>7

(* iree_hal_buffer_release: the caller gives back its own reference. *)
LEMMA ReleaseBufferInv ==
  ASSUME Inv, CallersKeepBuffers, NEW t \in Thread, ReleaseBuffer(t)
  PROVE  Inv'
<1>0. Types /\ References BY DEF Inv
<1>1. Running(t) /\ step[t] = "work" /\ Op(t).kind = "release" /\ inUse[t] = None
  BY NotAtDsp DEF ReleaseBuffer, At
<1> DEFINE a == Op(t).buf
<1>2. a \in Buffer BY <1>0, <1>1, OpType
<1>3. UNCHANGED <<fdOf, dspUsed, registered, resident, pinned, sessionUp, inUse, cmdBuf>>
  BY DEF ReleaseBuffer
<1>4. /\ cmdBuf' \in [CmdBuf -> CmdBufs] /\ dspUsed \subseteq Buffer
      /\ \A c \in CmdBuf : SameBuffers(c)
  BY <1>0, <1>3 DEF Types, SameBuffers
<1>5. CASE ~Usable(a)
  <2>1. Goto(t, "signal", Op(t).signal) /\ UNCHANGED <<refs, stage>>
    BY <1>5 DEF ReleaseBuffer
  <2> QED BY <1>1, <1>3, <1>4, <2>1, QuietGoto
<1>6. CASE Usable(a)
  <2>1. Drop({a}) /\ Goto(t, "free", <<>>) BY <1>6 DEF ReleaseBuffer
  <2>2. stage[a] = "live" /\ refs[a] > Cardinality(Holders(a))
    BY <1>1, <1>6 DEF CallersKeepBuffers, Usable, At
  <2>3. Moves(t) /\ step'[t] = "free" /\ pc' = pc BY <1>0, <2>1, GotoMoves DEF Steps
  <2>4. Op(t)' = Op(t) BY <2>3, MovesFrame
  <2>5. /\ ~At(t, "releaseCmdBuf", "free") /\ ~At(t, "releaseCmdBuf", "free")'
        /\ ~At(t, "execute", "rpc")' /\ RestOf(t)'
    BY <1>1, <2>3, <2>4 DEF At, RestOf
  <2> HIDE DEF a
  <2>6. (\A c : Releasing(c)' <=> Releasing(c)) /\ \A b : Holders(b)' = Holders(b)
    BY <1>3, <2>3, <2>5, MovesFrame
  <2>7. /\ refs' \in [Buffer -> Nat] /\ stage' \in [Buffer -> Stages]
        /\ \A b \in Buffer : stage'[b] = stage[b] \/ (stage[b] = "live" /\ stage'[b] = "dying")
        /\ \A b \in Buffer : refs'[b] > 0 <=> stage'[b] = "live"
        /\ refs[a] \in Nat /\ refs'[a] = refs[a] - 1
        /\ \A b \in Buffer \ {a} : refs'[b] = refs[b]
    BY <1>0, <1>2, <2>1, <2>2, DropType
  <2>8. \A b \in Buffer : Cardinality(Holders(b)') <= refs'[b]
    <3> SUFFICES ASSUME NEW b \in Buffer PROVE Cardinality(Holders(b)') <= refs'[b] OBVIOUS
    <3>1. Cardinality(Holders(b)') = Cardinality(Holders(b)) BY <2>6
    <3>2. Cardinality(Holders(b)) \in Nat BY HoldersType
    <3>3. CASE b = a BY <2>2, <2>7, <3>1, <3>2, <3>3
    <3>4. CASE b # a BY <1>0, <2>7, <3>1, <3>4 DEF References
    <3> QED BY <3>3, <3>4
  <2> QED BY <1>1, <1>3, <1>4, <2>3, <2>5, <2>6, <2>7, <2>8, DropStep
<1> QED BY <1>5, <1>6

(* A step of the memory that leaves the callers alone. *)
LEMMA CallersFrame ==
  ASSUME Types, NEW t \in Thread, UNCHANGED qVars
  PROVE  /\ Moves(t) /\ inUse' = inUse /\ cmdBuf' = cmdBuf
         /\ \A k, s : At(t, k, s)' <=> At(t, k, s)
         /\ RestOf(t)' <=> RestOf(t)
         /\ \A c : (Releasing(c)' <=> Releasing(c)) /\ RecordedBuffers(c)' = RecordedBuffers(c)
         /\ \A b : Holders(b)' = Holders(b)
<1>0. /\ prog' = prog /\ pc' = pc /\ step' = step /\ rest' = rest /\ inUse' = inUse
      /\ cmdBuf' = cmdBuf
  BY DEF qVars
<1>1. Moves(t) BY <1>0 DEF Types, Moves
<1>2. \A u, k, s : At(u, k, s)' <=> At(u, k, s) BY <1>0 DEF At, Running, Op
<1>3. RestOf(t)' <=> RestOf(t) BY <1>0 DEF RestOf, Running, Op
<1>4. ASSUME NEW c PROVE Releasing(c)' <=> Releasing(c)
  BY <1>0, <1>2 DEF Releasing, Op
<1>5. \A b : Holders(b)' = Holders(b) BY <1>0, <1>4 DEF Holders
<1>6. \A c : RecordedBuffers(c)' = RecordedBuffers(c) BY <1>1, MovesFrame
<1> QED BY <1>0, <1>1, <1>2, <1>3, <1>4, <1>5, <1>6

(* A descriptor that a command uses is pinned. *)
LEMMA UsedIsPinned ==
  ASSUME Types, Executions, NEW f \in Fd
  PROVE  /\ pinned[f] \in Nat
         /\ \A t \in Thread : inUse[t] = f => pinned[f] > 0
         /\ IsFiniteSet({t \in Thread : inUse[t] = f})
<1>1. {t \in Thread : inUse[t] = f} \in SUBSET Thread OBVIOUS
<1>2. IsFiniteSet({t \in Thread : inUse[t] = f}) BY <1>1, FS_Subset
<1>3. pinned[f] \in Nat /\ pinned[f] = Cardinality({t \in Thread : inUse[t] = f})
  BY DEF Types, Executions
<1>4. ASSUME NEW t \in Thread, inUse[t] = f PROVE pinned[f] > 0
  <2>1. t \in {u \in Thread : inUse[u] = f} BY <1>4
  <2>2. Cardinality({u \in Thread : inUse[u] = f}) # 0 BY <1>2, <2>1, FS_EmptySet
  <2> QED BY <1>3, <2>2
<1> QED BY <1>2, <1>3, <1>4

(* The steps of mem_alloc_release: the DSP gives up its mapping before the memory is
   deregistered, and the memory is deregistered before the descriptor is free again. *)
LEMMA FreeStepInv ==
  ASSUME Inv, CallersKeepBuffers, NEW t \in Thread, step[t] = "free", NEW a \in Buffer,
         FreeStep(a), UNCHANGED qVars
  PROVE  Inv'
<1>0. Types /\ Registration /\ Mapping /\ References /\ Executions /\ RestOf(t)
  BY DEF Inv, RestMatches
<1>1. /\ Moves(t) /\ inUse' = inUse /\ cmdBuf' = cmdBuf /\ RestOf(t)'
      /\ \A c : (Releasing(c)' <=> Releasing(c)) /\ RecordedBuffers(c)' = RecordedBuffers(c)
      /\ \A b : Holders(b)' = Holders(b)
  BY <1>0, CallersFrame
<1>2. inUse[t] = None /\ ~At(t, "execute", "rpc")'
  <2>1. ~At(t, "execute", "rpc") BY DEF At
  <2> QED BY <1>0, <2>1, NotAtDsp, CallersFrame
<1>3. /\ refs' = refs /\ dspUsed' = dspUsed /\ pinned' = pinned /\ sessionUp' = sessionUp
      /\ stage[a] \in {"dying", "forgotten", "unmapped"}
      /\ stage'[a] \in {"forgotten", "leaked", "unmapped", "freed"}
      /\ stage' \in [Buffer -> Stages]
      /\ \A b \in Buffer \ {a} : stage'[b] = stage[b] /\ fdOf'[b] = fdOf[b]
      /\ fdOf' \in [Buffer -> Fd \cup {None}]
  BY <1>0 DEF FreeStep, Forget, Munmap, RpcmemFree, Types, Stages
<1>4. \A b \in Buffer : /\ stage'[b] = "live" <=> stage[b] = "live"
                        /\ stage[b] = "live" => fdOf'[b] = fdOf[b]
  BY <1>3
<1>5. References'
  <2>1. \A b \in Buffer : refs'[b] > 0 <=> stage'[b] = "live" BY <1>0, <1>3, <1>4 DEF References
  <2>2. \A b \in Buffer : Cardinality(Holders(b)') <= refs'[b] BY <1>0, <1>1, <1>3 DEF References
  <2>3. \A b \in Buffer : stage[b] # "none" => stage'[b] # "none" BY <1>3
  <2>4. ASSUME NEW c \in CmdBuf PROVE RecordingOf(c)'
    <3>1. SameBuffers(c) BY <1>1 DEF SameBuffers
    <3> QED BY <1>0, <1>1, <1>3, <1>4, <2>3, <3>1, DescriptorsFrame
  <2> QED BY <2>1, <2>2, <2>4 DEF References
<1>6. RestMatches' /\ \A c \in CmdBuf : Named(c)' = Named(c)
  BY <1>1, RestFrame DEF Inv, Named
<1>7. CASE Forget(a)
  <2> DEFINE f == fdOf[a]
  <2>1. /\ stage[a] = "dying" /\ fdOf' = fdOf /\ registered' = registered
        /\ f \in Fd /\ registered[f] = a
    BY <1>0, <1>7 DEF Forget, Registration
  <2>2. /\ (a \in dspUsed /\ sessionUp) =>
             IF pinned[f] > 0 THEN stage'[a] = "leaked" /\ resident' = resident
                              ELSE resident' = [resident EXCEPT ![f] = None]
        /\ ~(a \in dspUsed /\ sessionUp) => resident' = resident
    BY <1>0, <1>7 DEF Forget, Types
  <2> HIDE DEF f
  <2>3. stage'[a] \in {"forgotten", "leaked"} BY <1>0, <1>7 DEF Forget, Types
  <2>4. Types' BY <1>0, <1>1, <1>3, <2>1, <2>2 DEF Types, Moves
  <2>5. Registration'
    <3>1. ASSUME NEW g \in Fd, registered[g] # None
          PROVE  stage'[registered[g]] \in {"live", "dying", "forgotten", "leaked"}
      <4>1. /\ registered[g] \in Buffer
            /\ stage[registered[g]] \in {"live", "dying", "forgotten", "leaked"}
        BY <1>0, <3>1 DEF Registration, Types
      <4> QED BY <1>3, <2>3, <4>1
    <3>2. ASSUME NEW b \in Buffer, stage'[b] \in {"live", "dying", "forgotten", "leaked"}
          PROVE  fdOf[b] \in Fd /\ registered[fdOf[b]] = b
      <4>1. CASE b = a BY <1>0, <2>1, <4>1 DEF Registration
      <4>2. CASE b # a BY <1>0, <1>3, <3>2, <4>2 DEF Registration
      <4> QED BY <4>1, <4>2
    <3> QED BY <1>0, <2>1, <3>1, <3>2 DEF Registration
  <2>6. \A g \in Fd : resident'[g] = resident[g] \/ (resident'[g] = None /\ g = f /\ pinned[f] = 0)
    <3>1. pinned[f] \in Nat BY <1>0, <2>1 DEF Types
    <3> QED BY <1>0, <2>1, <2>2, <3>1 DEF Types
  <2>7. Mapping'
    <3>1. ASSUME NEW g \in Fd, resident'[g] # None
          PROVE  /\ registered[g] = resident'[g]
                 /\ stage'[resident'[g]] \in {"live", "dying", "leaked"}
                 /\ resident'[g] \in dspUsed
      <4>1. resident'[g] = resident[g] /\ resident[g] # None BY <2>6, <3>1
      <4>2. /\ registered[g] = resident[g] /\ stage[resident[g]] \in {"live", "dying", "leaked"}
            /\ resident[g] \in dspUsed /\ resident[g] \in Buffer /\ sessionUp
        BY <1>0, <4>1 DEF Mapping, Types
      <4>3. CASE resident[g] # a BY <1>3, <4>1, <4>2, <4>3
      <4>4. CASE resident[g] = a
        <5>1. g = f BY <1>0, <4>1, <4>2, <4>4 DEF Registration, f
        <5>2. pinned[f] > 0
          <6>1. SUFFICES ASSUME ~(pinned[f] > 0) PROVE FALSE OBVIOUS
          <6>2. resident'[f] = None BY <1>0, <2>1, <2>2, <4>2, <4>4, <6>1 DEF Types
          <6> QED BY <3>1, <5>1, <6>2
        <5>3. stage'[a] = "leaked" BY <2>2, <4>2, <4>4, <5>2
        <5> QED BY <4>1, <4>2, <4>4, <5>3
      <4> QED BY <4>3, <4>4
    <3>2. ASSUME ~sessionUp, NEW g \in Fd PROVE resident'[g] = None
      BY <1>0, <2>6, <3>2 DEF Mapping
    <3> QED BY <1>3, <2>1, <3>1, <3>2 DEF Mapping
  <2>8. \A u \in Thread : inUse[u] # None => resident'[inUse[u]] # None
    <3> SUFFICES ASSUME NEW u \in Thread, inUse[u] # None PROVE resident'[inUse[u]] # None OBVIOUS
    <3>1. inUse[u] \in Fd /\ resident[inUse[u]] # None BY <1>0 DEF Types, Executions
    <3>2. pinned[inUse[u]] > 0 BY <1>0, <3>1, UsedIsPinned
    <3> QED BY <2>6, <3>1, <3>2
  <2>9. Executions' BY <1>1, <1>2, <1>3, <1>4, <1>6, <2>8, ExecutionsFrame
  <2> QED BY <1>5, <1>6, <2>4, <2>5, <2>7, <2>9 DEF Inv
<1>8. CASE Munmap(a) \/ RpcmemFree(a)
  <2>0. PICK f \in Fd \cup {None} : f = fdOf[a] BY <1>0 DEF Types
  <2>1. /\ resident' = resident
        /\ \/ stage[a] = "forgotten" /\ stage'[a] = "unmapped" /\ fdOf' = fdOf
              /\ registered' = [registered EXCEPT ![f] = None]
           \/ stage[a] = "unmapped" /\ stage'[a] = "freed" /\ registered' = registered
    BY <1>0, <1>8, <2>0 DEF Munmap, RpcmemFree, Types
  <2>2. /\ \A g \in Fd : registered'[g] = registered[g] \/ (g = f /\ registered'[g] = None /\ registered[g] = a)
        /\ registered' \in [Fd -> Buffer \cup {None}]
        /\ \A g \in Fd : registered'[g] # a
    <3>1. CASE stage[a] = "forgotten" /\ registered' = [registered EXCEPT ![f] = None]
      <4>1. f \in Fd /\ registered[f] = a BY <1>0, <2>0, <3>1 DEF Registration
      <4>2. \A g \in Fd : registered[g] = a => g = f BY <1>0, <2>0 DEF Registration
      <4> QED BY <1>0, <3>1, <4>1, <4>2 DEF Types
    <3>2. CASE stage[a] = "unmapped" /\ registered' = registered
      BY <1>0, <3>2 DEF Registration, Types
    <3> QED BY <2>1, <3>1, <3>2
  <2>3. Types' BY <1>0, <1>1, <1>3, <2>1, <2>2 DEF Types, Moves
  <2>4. Registration'
    <3>1. ASSUME NEW b \in Buffer, stage'[b] \in {"live", "dying", "forgotten", "leaked"}
          PROVE  fdOf'[b] \in Fd /\ registered'[fdOf'[b]] = b
      <4>1. b # a BY <2>1, <3>1
      <4>2. fdOf'[b] = fdOf[b] /\ fdOf[b] \in Fd /\ registered[fdOf[b]] = b
        BY <1>0, <1>3, <3>1, <4>1 DEF Registration
      <4> QED BY <2>2, <4>1, <4>2
    <3>2. ASSUME NEW g \in Fd, registered'[g] # None
          PROVE  /\ fdOf'[registered'[g]] = g
                 /\ stage'[registered'[g]] \in {"live", "dying", "forgotten", "leaked"}
      <4>1. registered'[g] = registered[g] /\ registered[g] # a /\ registered[g] \in Buffer
        BY <1>0, <2>2, <3>2 DEF Types
      <4>2. /\ fdOf[registered[g]] = g
            /\ stage[registered[g]] \in {"live", "dying", "forgotten", "leaked"}
        BY <1>0, <3>2, <4>1 DEF Registration
      <4> QED BY <1>3, <4>1, <4>2
    <3> QED BY <3>1, <3>2 DEF Registration
  <2>5. Mapping'
    <3>1. ASSUME NEW g \in Fd, resident[g] # None
          PROVE  /\ registered'[g] = resident[g]
                 /\ stage'[resident[g]] \in {"live", "dying", "leaked"}
                 /\ resident[g] \in dspUsed
      <4>1. /\ registered[g] = resident[g] /\ stage[resident[g]] \in {"live", "dying", "leaked"}
            /\ resident[g] \in dspUsed /\ resident[g] \in Buffer
        BY <1>0, <3>1 DEF Mapping, Types
      <4>2. resident[g] # a BY <2>1, <4>1
      <4> QED BY <1>3, <2>2, <4>1, <4>2
    <3> QED BY <1>0, <1>3, <2>1, <3>1 DEF Mapping
  <2>6. Executions'
    <3>1. \A u \in Thread : inUse[u] # None => resident'[inUse[u]] # None
      BY <1>0, <2>1 DEF Executions
    <3> QED BY <1>1, <1>2, <1>3, <1>4, <1>6, <3>1, ExecutionsFrame
  <2> QED BY <1>5, <1>6, <2>3, <2>4, <2>5, <2>6 DEF Inv
<1> QED BY <1>7, <1>8 DEF FreeStep

(* A thread frees what its operation destroyed. *)
LEMMA FreeBufferInv ==
  ASSUME Inv, CallersKeepBuffers, NEW t \in Thread, FreeBuffer(t)
  PROVE  Inv'
<1>0. Types /\ RestOf(t) /\ Running(t) /\ step[t] = "free" BY DEF Inv, RestMatches, FreeBuffer
<1>1. Op(t).kind \in {"dealloca", "release", "releaseCmdBuf"} BY <1>0 DEF RestOf
<1>2. PICK b \in Dying(t) : FreeStep(b) BY DEF FreeBuffer
<1>3. b \in Buffer
  <2>1. CASE Op(t).kind = "releaseCmdBuf"
    <3>1. b \in cmdBuf[Op(t).cmdBuf].held BY <1>2, <2>1 DEF Dying
    <3>2. Op(t).cmdBuf \in CmdBuf BY <1>0, <2>1, OpType
    <3> QED BY <1>0, <3>1, <3>2 DEF Types, CmdBufs
  <2>2. CASE Op(t).kind # "releaseCmdBuf"
    <3>1. b = Op(t).buf BY <1>2, <2>2 DEF Dying
    <3> QED BY <1>0, <1>1, <2>2, <3>1, OpType
  <2> QED BY <2>1, <2>2
<1> QED BY <1>0, <1>2, <1>3, FreeStepInv DEF FreeBuffer

(* A thread comes to the end of freeing: a released command buffer is gone. *)
LEMMA FreeDoneInv ==
  ASSUME Inv, CallersKeepBuffers, NEW t \in Thread, FreeDone(t)
  PROVE  Inv'
<1>0. Types /\ References /\ RestOf(t) BY DEF Inv, RestMatches
<1>1. Running(t) /\ step[t] = "free" /\ inUse[t] = None BY NotAtDsp DEF FreeDone
<1>2. /\ UNCHANGED <<refs, stage, fdOf, dspUsed, registered, resident, pinned, sessionUp, inUse>>
  BY DEF FreeDone, memVars
<1>3. Moves(t) /\ step'[t] = "signal" /\ pc' = pc BY <1>0, GotoMoves DEF FreeDone, Steps
<1>4. Op(t)' = Op(t) /\ (\A u \in Thread \ {t} : Op(u)' = Op(u))
      /\ \A u \in Thread \ {t} : \A k, s : At(u, k, s)' <=> At(u, k, s)
  BY <1>3, MovesFrame
<1>5. ~At(t, "execute", "rpc")' /\ ~At(t, "releaseCmdBuf", "free")' /\ RestOf(t)'
  BY <1>3 DEF At, RestOf
<1>6. CASE Op(t).kind # "releaseCmdBuf"
  <2>1. cmdBuf' = cmdBuf /\ ~At(t, "releaseCmdBuf", "free") BY <1>6 DEF FreeDone, At
  <2>2. (\A c : Releasing(c)' <=> Releasing(c)) /\ \A b : Holders(b)' = Holders(b)
    BY <1>3, <1>5, <2>1, MovesFrame
  <2>3. \A b \in Buffer : Cardinality(Holders(b)') <= refs'[b] BY <1>0, <1>2, <2>2 DEF References
  <2>4. \A b \in Buffer : refs'[b] > 0 <=> stage'[b] = "live" BY <1>0, <1>2 DEF References
  <2>5. /\ refs' \in [Buffer -> Nat] /\ stage' \in [Buffer -> Stages] /\ cmdBuf' \in [CmdBuf -> CmdBufs]
        /\ \A b \in Buffer : stage'[b] = stage[b]
        /\ \A c \in CmdBuf : SameBuffers(c)
    BY <1>0, <1>2, <2>1 DEF Types, SameBuffers
  <2> QED BY <1>1, <1>2, <1>3, <1>5, <2>1, <2>2, <2>3, <2>4, <2>5, DropStep
<1>7. CASE Op(t).kind = "releaseCmdBuf"
  <2>0. PICK c \in CmdBuf : c = Op(t).cmdBuf BY <1>0, <1>1, <1>7, OpType
  <2>1. cmdBuf' = [cmdBuf EXCEPT ![c] = NoCmdBuf] BY <1>7, <2>0 DEF FreeDone
  <2>2. /\ cmdBuf' \in [CmdBuf -> CmdBufs]
        /\ cmdBuf'[c].held = {} /\ cmdBuf'[c].lent = {} /\ cmdBuf'[c].fds = {}
        /\ \A d \in CmdBuf \ {c} : cmdBuf'[d] = cmdBuf[d]
    BY <1>0, <2>1 DEF Types, CmdBufs, NoCmdBuf
  <2>3. Releasing(c) BY <1>1, <1>7, <2>0 DEF Releasing, At
  <2>4. \A d \in CmdBuf \ {c} : Releasing(d)' <=> Releasing(d)
    BY <1>4, <1>5, <2>0 DEF Releasing
  <2>5. \A b : Holders(b)' = Holders(b) BY <2>2, <2>3, <2>4 DEF Holders
  <2>6. Types' BY <1>0, <1>2, <1>3, <2>2 DEF Types, Moves
  <2>7. RestMatches' BY <1>3, <1>5, RestFrame DEF Inv
  <2>8. Registration' BY <1>2 DEF Inv, Registration
  <2>9. Mapping' BY <1>2 DEF Inv, Mapping
  <2>10. References'
    <3>1. \A d : RecordedBuffers(d)' = RecordedBuffers(d) BY <1>3, MovesFrame
    <3>2. \A b \in Buffer : /\ refs'[b] > 0 <=> stage'[b] = "live"
                            /\ Cardinality(Holders(b)') <= refs'[b]
      BY <1>0, <1>2, <2>5 DEF References
    <3>3. ASSUME NEW d \in CmdBuf PROVE RecordingOf(d)'
      <4>1. CASE d = c BY <2>2, <4>1 DEF RecordingOf, Named
      <4>2. CASE d # c BY <1>0, <1>2, <2>2, <2>4, <3>1, <4>2 DEF References, RecordingOf, Named
      <4> QED BY <4>1, <4>2
    <3> QED BY <3>2, <3>3 DEF References
  <2>11. Executions'
    <3>1. \A u \in Thread : inUse[u] # None => resident'[inUse[u]] # None
      BY <1>2 DEF Inv, Executions
    <3>2. \A d \in CmdBuf : ~Releasing(d) => Named(d) \subseteq Named(d)'
      BY <2>2, <2>3 DEF Named
    <3> QED BY <1>1, <1>2, <1>3, <1>5, <3>1, <3>2, ExecutionsFrame
  <2> QED BY <2>6, <2>7, <2>8, <2>9, <2>10, <2>11 DEF Inv
<1> QED BY <1>6, <1>7

(* The last release of a command buffer gives its references back. *)
LEMMA ReleaseCmdBufInv ==
  ASSUME Inv, CallersKeepBuffers, NEW t \in Thread, ReleaseCmdBuf(t)
  PROVE  Inv'
<1>0. Types /\ References BY DEF Inv
<1>1. Running(t) /\ step[t] = "work" /\ Op(t).kind = "releaseCmdBuf" /\ inUse[t] = None
  BY NotAtDsp DEF ReleaseCmdBuf, At
<1>2. PICK c \in CmdBuf : c = Op(t).cmdBuf BY <1>0, <1>1, OpType
<1>3. ~Releasing(c) BY <1>1, <1>2 DEF CallersKeepBuffers, At
<1>4. /\ UNCHANGED <<fdOf, dspUsed, registered, resident, pinned, sessionUp, inUse>>
      /\ Drop(cmdBuf[c].held) /\ cmdBuf' = [cmdBuf EXCEPT ![c].dsp = FALSE]
      /\ Goto(t, "free", <<>>)
  BY <1>2 DEF ReleaseCmdBuf
<1>5. /\ cmdBuf' \in [CmdBuf -> CmdBufs] /\ cmdBuf[c].held \in SUBSET Buffer
      /\ \A d \in CmdBuf : SameBuffers(d)
  <2>1. cmdBuf \in [CmdBuf -> CmdBufs] BY <1>0 DEF Types
  <2>2. cmdBuf[c] \in CmdBufs BY <2>1
  <2>3. cmdBuf[c].held \in SUBSET Buffer BY <2>2 DEF CmdBufs
  <2> QED BY <1>4, <2>1, <2>3, FlagsKeepBuffers
<1>6. Moves(t) /\ step'[t] = "free" /\ pc' = pc BY <1>0, <1>4, GotoMoves DEF Steps
<1>7. /\ Op(t)' = Op(t) /\ Running(t)'
      /\ \A u \in Thread \ {t} : Op(u)' = Op(u) /\ \A k, s : At(u, k, s)' <=> At(u, k, s)
  BY <1>1, <1>6, MovesFrame
<1>8. ~At(t, "execute", "rpc")' /\ RestOf(t)' BY <1>1, <1>6, <1>7 DEF At, RestOf
<1>9. Releasing(c)' BY <1>1, <1>2, <1>6, <1>7 DEF Releasing, At
<1>10. \A d \in CmdBuf \ {c} : Releasing(d)' <=> Releasing(d)
  <2>1. ~At(t, "releaseCmdBuf", "free") BY <1>1 DEF At
  <2> QED BY <1>2, <1>7, <2>1 DEF Releasing
<1>11. \A b \in cmdBuf[c].held : stage[b] = "live" BY <1>0, <1>3, HeldIsLive
<1>12. /\ refs' \in [Buffer -> Nat] /\ stage' \in [Buffer -> Stages]
       /\ \A b \in Buffer : stage'[b] = stage[b] \/ (stage[b] = "live" /\ stage'[b] = "dying")
       /\ \A b \in Buffer : refs'[b] > 0 <=> stage'[b] = "live"
       /\ \A b \in cmdBuf[c].held : refs[b] \in Nat /\ refs[b] > 0 /\ refs'[b] = refs[b] - 1
       /\ \A b \in Buffer \ cmdBuf[c].held : refs'[b] = refs[b]
  BY <1>0, <1>4, <1>5, <1>11, DropType
<1>13. \A b \in Buffer : Cardinality(Holders(b)') <= refs'[b]
  <2> SUFFICES ASSUME NEW b \in Buffer PROVE Cardinality(Holders(b)') <= refs'[b] OBVIOUS
  <2>1. Holders(b)' = Holders(b) \ {c} BY <1>5, <1>9, <1>10 DEF Holders, SameBuffers
  <2>2. IsFiniteSet(Holders(b)) /\ Cardinality(Holders(b)) \in Nat BY HoldersType
  <2>3. refs[b] \in Nat /\ Cardinality(Holders(b)) <= refs[b] BY <1>0 DEF References, Types
  <2>4. CASE b \in cmdBuf[c].held
    <3>1. c \in Holders(b) BY <1>3, <2>4 DEF Holders
    <3>2. Cardinality(Holders(b) \ {c}) = Cardinality(Holders(b)) - 1
      BY <2>2, <3>1, FS_RemoveElement
    <3>3. Cardinality(Holders(b)') = Cardinality(Holders(b)) - 1 BY <2>1, <3>2
    <3> QED BY <1>12, <2>2, <2>3, <2>4, <3>3
  <2>5. CASE b \notin cmdBuf[c].held
    <3>1. Holders(b)' = Holders(b) BY <2>1, <2>5 DEF Holders
    <3>2. Cardinality(Holders(b)') = Cardinality(Holders(b)) BY <3>1
    <3> QED BY <1>12, <2>3, <2>5, <3>2
  <2> QED BY <2>4, <2>5
<1> QED BY <1>1, <1>3, <1>4, <1>5, <1>6, <1>8, <1>9, <1>10, <1>12, <1>13, DropStep

(* A command is recorded: the command buffer retains the buffers whose descriptors it keeps. *)
LEMMA RecordCommandInv ==
  ASSUME Inv, CallersKeepBuffers, NEW t \in Thread, RecordCommand(t)
  PROVE  Inv'
<1>0. Types /\ Registration /\ Mapping /\ References /\ RestOf(t) BY DEF Inv, RestMatches
<1>1. /\ Running(t) /\ step[t] = "record" /\ Op(t).kind = "record" /\ inUse[t] = None
      /\ rest[t] # <<>>
  BY NotAtDsp DEF RecordCommand, At
<1>2. PICK c \in CmdBuf : c = Op(t).cmdBuf BY <1>0, <1>1, OpType
<1>3. /\ rest[t] \in Seq(SUBSET Buffer)
      /\ \A k \in DOMAIN rest[t] : \E j \in DOMAIN Op(t).cmds : rest[t][k] = Op(t).cmds[j]
  BY <1>0, <1>1 DEF RestOf
<1>4. PICK bufs \in SUBSET Buffer : bufs = Head(rest[t]) BY <1>1, <1>3
<1>5. \A b \in bufs : stage[b] = "live" BY <1>1, <1>4 DEF CallersKeepBuffers, At, Usable
<1>6. \E j \in DOMAIN Op(t).cmds : bufs = Op(t).cmds[j]
  <2>1. 1 \in DOMAIN rest[t] /\ bufs = rest[t][1] BY <1>1, <1>3, <1>4
  <2> QED BY <1>3, <2>1
<1>7. bufs \subseteq RecordedBuffers(c)
  <2>1. prog[t] \in Seq(Operations) /\ pc[t] \in Nat \ {0} BY <1>0, ProgramsAssumption DEF Types
  <2>2. pc[t] \in DOMAIN prog[t] BY <1>1, <2>1 DEF Running
  <2> QED BY <1>1, <1>2, <1>6, <2>2 DEF RecordedBuffers, Op
<1>8. /\ UNCHANGED <<stage, fdOf, registered, resident, pinned, sessionUp, inUse>>
      /\ dspUsed' = dspUsed \cup bufs
  BY <1>4 DEF RecordCommand, GetFdForDsp
<1>9. dspUsed \subseteq dspUsed' /\ dspUsed' \subseteq Buffer BY <1>0, <1>8 DEF Types
<1>10. CASE Return(t, "error") /\ UNCHANGED <<cmdBuf, refs>>
  BY <1>1, <1>8, <1>9, <1>10, QuietReturn
<1> DEFINE cb == Recorded(cmdBuf[c], bufs, Op(t).retained)
<1>11. CASE /\ cmdBuf' = [cmdBuf EXCEPT ![c] = cb]
            /\ refs' = Retain(cb.held \ cmdBuf[c].held)
            /\ Goto(t, "record", Tail(rest[t]))
  <2> DEFINE new == IF Op(t).retained THEN bufs \ cmdBuf[c].held ELSE {}
  <2>0. /\ cb \in CmdBufs /\ cb.held = cmdBuf[c].held \cup new
        /\ cb.lent = IF Op(t).retained THEN cmdBuf[c].lent ELSE cmdBuf[c].lent \cup bufs
        /\ cb.fds = cmdBuf[c].fds \cup {fdOf[b] : b \in bufs}
        /\ cb.held \ cmdBuf[c].held = new
    <3>1. cmdBuf[c] \in CmdBufs BY <1>0 DEF Types
    <3>2. {fdOf[b] : b \in bufs} \in SUBSET (Fd \cup {None}) BY <1>0 DEF Types
    <3>3. CASE Op(t).retained BY <3>1, <3>2, <3>3 DEF Recorded, CmdBufs
    <3>4. CASE ~Op(t).retained BY <3>1, <3>2, <3>4 DEF Recorded, CmdBufs
    <3> QED BY <3>3, <3>4
  <2> HIDE DEF cb
  <2>1. /\ cmdBuf' \in [CmdBuf -> CmdBufs] /\ cmdBuf'[c] = cb
        /\ \A d \in CmdBuf \ {c} : cmdBuf'[d] = cmdBuf[d]
    BY <1>0, <1>11, <2>0 DEF Types
  <2>2. /\ refs' = [b \in Buffer |-> IF b \in new THEN refs[b] + 1 ELSE refs[b]]
        /\ new \subseteq bufs /\ cmdBuf'[c].held = cmdBuf[c].held \cup new
        /\ \A b \in new : b \notin cmdBuf[c].held
    BY <1>11, <2>0, <2>1 DEF Retain
  <2>20. Named(c)' = Named(c) \cup bufs /\ \A d \in CmdBuf \ {c} : Named(d)' = Named(d)
    <3>1. cb.held \cup cb.lent = cmdBuf[c].held \cup cmdBuf[c].lent \cup bufs
      <4>1. CASE Op(t).retained BY <2>0, <4>1
      <4>2. CASE ~Op(t).retained BY <2>0, <4>2
      <4> QED BY <4>1, <4>2
    <3> QED BY <2>1, <3>1 DEF Named
  <2>21. /\ cmdBuf'[c].lent \subseteq cmdBuf[c].lent \cup bufs
         /\ cmdBuf'[c].fds = cmdBuf[c].fds \cup {fdOf[b] : b \in bufs}
    BY <2>0, <2>1
  <2> HIDE DEF new
  <2>3. Moves(t) /\ step'[t] = "record" /\ rest'[t] = Tail(rest[t]) /\ pc' = pc
    BY <1>0, <1>11, GotoMoves DEF Steps
  <2>4. Op(t)' = Op(t) BY <2>3, MovesFrame
  <2>5. RestOf(t)'
    <3>1. /\ Tail(rest[t]) \in Seq(SUBSET Buffer)
          /\ \A k \in DOMAIN Tail(rest[t]) : k + 1 \in DOMAIN rest[t] /\ Tail(rest[t])[k] = rest[t][k + 1]
      BY <1>1, <1>3, HeadTailProperties
    <3>2. \A k \in DOMAIN Tail(rest[t]) : \E j \in DOMAIN Op(t).cmds : Tail(rest[t])[k] = Op(t).cmds[j]
      BY <1>3, <3>1
    <3> QED BY <1>1, <2>3, <2>4, <3>1, <3>2 DEF RestOf
  <2>6. RestMatches' BY <2>3, <2>5, RestFrame DEF Inv
  <2>7. /\ refs' \in [Buffer -> Nat]
        /\ \A b \in Buffer : /\ refs[b] \in Nat
                             /\ b \in new => refs'[b] = refs[b] + 1
                             /\ b \notin new => refs'[b] = refs[b]
    BY <1>0, <2>2 DEF Types
  <2>8. Types' BY <1>0, <1>8, <1>9, <2>1, <2>3, <2>7 DEF Types, Moves
  <2>9. Registration' BY <1>0, <1>8 DEF Registration
  <2>10. Mapping' BY <1>0, <1>8 DEF Mapping
  <2>11. /\ ~At(t, "releaseCmdBuf", "free") /\ ~At(t, "releaseCmdBuf", "free")'
         /\ ~At(t, "execute", "rpc")'
    BY <1>1, <2>3 DEF At
  <2>12. \A d : (Releasing(d)' <=> Releasing(d)) /\ RecordedBuffers(d)' = RecordedBuffers(d)
    BY <2>3, <2>11, MovesFrame
  <2>13. \A b \in Buffer : Cardinality(Holders(b)') <= refs'[b]
    <3> SUFFICES ASSUME NEW b \in Buffer PROVE Cardinality(Holders(b)') <= refs'[b] OBVIOUS
    <3>1. IsFiniteSet(Holders(b)) /\ Cardinality(Holders(b)) \in Nat BY HoldersType
    <3>2. refs[b] \in Nat /\ Cardinality(Holders(b)) <= refs[b] BY <1>0 DEF References, Types
    <3>3. CASE b \in new /\ ~Releasing(c)
      <4>1. Holders(b)' = Holders(b) \cup {c} BY <2>1, <2>2, <2>12, <3>3 DEF Holders
      <4>2. c \notin Holders(b) BY <2>2, <3>3 DEF Holders
      <4>3. Cardinality(Holders(b) \cup {c}) = Cardinality(Holders(b)) + 1
        BY <3>1, <4>2, FS_AddElement
      <4>4. Cardinality(Holders(b)') = Cardinality(Holders(b)) + 1 BY <4>1, <4>3
      <4>5. refs'[b] = refs[b] + 1 BY <2>7, <3>3
      <4> QED BY <3>1, <3>2, <4>4, <4>5
    <3>4. CASE b \notin new \/ Releasing(c)
      <4>1. Holders(b)' = Holders(b) BY <2>1, <2>2, <2>12, <3>4 DEF Holders
      <4>2. Cardinality(Holders(b)') = Cardinality(Holders(b)) BY <4>1
      <4>3. refs'[b] >= refs[b] /\ refs'[b] \in Nat BY <2>7
      <4> QED BY <3>1, <3>2, <4>2, <4>3
    <3> QED BY <3>3, <3>4
  <2>14. \A b \in Buffer : refs'[b] > 0 <=> stage'[b] = "live"
    <3>1. \A b \in bufs : refs[b] > 0 BY <1>0, <1>5 DEF References
    <3> QED BY <1>0, <1>8, <2>2, <2>7, <3>1 DEF References
  <2>15. References'
    <3>1. \A d : RecordedBuffers(d)' = RecordedBuffers(d) BY <2>12
    <3>2. ASSUME NEW d \in CmdBuf PROVE RecordingOf(d)'
      <4>1. CASE d = c
        <5>1. RecordingOf(c) BY <1>0 DEF References
        <5>2. /\ Named(c)' \subseteq dspUsed' /\ Named(c)' \subseteq RecordedBuffers(c)'
              /\ \A b \in cmdBuf'[c].lent : stage'[b] # "none"
          BY <1>5, <1>7, <1>8, <2>20, <2>21, <3>1, <5>1 DEF RecordingOf
        <5>3. ASSUME ~Releasing(c), NEW f \in cmdBuf'[c].fds
              PROVE  \E b \in Named(c)' : stage'[b] = "live" => fdOf'[b] = f
          <6>1. CASE f \in cmdBuf[c].fds BY <1>8, <2>20, <5>1, <5>3, <6>1 DEF RecordingOf
          <6>2. CASE f \in {fdOf[b] : b \in bufs} BY <1>8, <2>20, <6>2
          <6> QED BY <2>21, <5>3, <6>1, <6>2
        <5> QED BY <2>12, <4>1, <5>2, <5>3 DEF RecordingOf
      <4>2. CASE d # c
        <5>1. RecordingOf(d) /\ Named(d)' = Named(d) /\ cmdBuf'[d] = cmdBuf[d]
          BY <1>0, <2>1, <2>20, <4>2 DEF References
        <5> QED BY <1>8, <2>12, <5>1 DEF RecordingOf
      <4> QED BY <4>1, <4>2
    <3> QED BY <2>13, <2>14, <3>2 DEF References
  <2>16. Executions'
    <3>1. \A u \in Thread : inUse[u] # None => resident'[inUse[u]] # None
      BY <1>8 DEF Inv, Executions
    <3>2. \A d \in CmdBuf : Named(d) \subseteq Named(d)' BY <2>20
    <3> QED BY <1>1, <1>8, <1>9, <2>3, <2>11, <3>1, <3>2, ExecutionsFrame
  <2> QED BY <2>6, <2>8, <2>9, <2>10, <2>15, <2>16 DEF Inv
<1>12. \/ Return(t, "error") /\ UNCHANGED <<cmdBuf, refs>>
       \/ /\ cmdBuf' = [cmdBuf EXCEPT ![c] = cb]
          /\ refs' = Retain(cb.held \ cmdBuf[c].held)
          /\ Goto(t, "record", Tail(rest[t]))
  BY <1>2, <1>4 DEF RecordCommand, ReturnError
<1> QED BY <1>10, <1>11, <1>12

----------------------------------------------------------------------------
(* Executions *)

(* A finite set can be put in an order. *)
LEMMA OrderExists ==
  ASSUME NEW S, IsFiniteSet(S)
  PROVE  LET order == CHOOSE q \in [1 .. Cardinality(S) -> S] :
                        \A i, j \in DOMAIN q : i # j => q[i] # q[j]
         IN order \in Seq(S)
<1>1. Cardinality(S) \in Nat /\ ExistsBijection(1 .. Cardinality(S), S) BY FS_CardinalityType
<1>2. \E q \in [1 .. Cardinality(S) -> S] : \A i, j \in DOMAIN q : i # j => q[i] # q[j]
  <2>1. PICK q \in Bijection(1 .. Cardinality(S), S) : TRUE BY <1>1, Fun_ExistsBij
  <2>2. q \in [1 .. Cardinality(S) -> S] BY <2>1 DEF Bijection, Injection
  <2>3. \A i, j \in 1 .. Cardinality(S) : q[i] = q[j] => i = j BY <2>1 DEF Bijection, Injection, IsInjective
  <2> QED BY <2>2, <2>3
<1> DEFINE order == CHOOSE q \in [1 .. Cardinality(S) -> S] :
                      \A i, j \in DOMAIN q : i # j => q[i] # q[j]
<1>3. order \in [1 .. Cardinality(S) -> S] BY <1>2
<1> HIDE DEF order
<1>4. order \in Seq(S) BY <1>1, <1>3
<1> QED BY <1>4 DEF order

(* The DSP is called with the descriptors of the bindings and of the recorded commands. *)
LEMMA SerializeBindingsInv ==
  ASSUME Inv, CallersKeepBuffers, NEW t \in Thread, SerializeBindings(t)
  PROVE  Inv'
<1>0. Types /\ Registration /\ Mapping /\ References /\ Executions /\ RestOf(t)
  BY DEF Inv, RestMatches
<1>1. Running(t) /\ step[t] = "serialize" /\ Op(t).kind = "execute" /\ inUse[t] = None
  BY NotAtDsp DEF SerializeBindings, At
<1>2. Op(t).cmdBuf # None BY <1>0, <1>1 DEF RestOf
<1>3. PICK c \in CmdBuf : c = Op(t).cmdBuf BY <1>0, <1>1, <1>2, OpType
<1>4. PICK B \in SUBSET Buffer : B = Op(t).bindings BY <1>0, <1>1, OpType
<1>5. ~Releasing(c) BY <1>1, <1>3 DEF CallersKeepBuffers, At
<1>6. UNCHANGED <<refs, stage, fdOf, registered, resident, pinned, sessionUp, inUse, cmdBuf>>
  BY DEF SerializeBindings
<1>7. CASE Return(t, "error") /\ dspUsed' = dspUsed
  <2>1. dspUsed' \subseteq Buffer BY <1>0, <1>7 DEF Types
  <2> QED BY <1>1, <1>6, <1>7, <2>1, QuietReturn
<1> DEFINE fds == cmdBuf[c].fds \cup {fdOf[b] : b \in B}
           order == CHOOSE q \in [1 .. Cardinality(fds) -> fds] :
                      \A i, j \in DOMAIN q : i # j => q[i] # q[j]
<1>8. fds \subseteq Fd \cup {None} BY <1>0 DEF Types, CmdBufs
<1>9. IsFiniteSet(fds)
  <2>1. IsFiniteSet(Fd \cup {None}) BY FS_AddElement
  <2> HIDE DEF fds
  <2> QED BY <1>8, <2>1, FS_Subset
<1>10. \A f \in fds : \E b \in B \cup Named(c) : fdOf[b] = f
  <2>1. \A b \in Named(c) : stage[b] = "live"
    <3>1. \A b \in cmdBuf[c].lent : Usable(b) BY <1>1, <1>3 DEF CallersKeepBuffers, At
    <3>2. \A b \in cmdBuf[c].held : stage[b] = "live" BY <1>0, <1>5, HeldIsLive
    <3> QED BY <3>1, <3>2 DEF Named, Usable
  <2>2. \A f \in cmdBuf[c].fds : \E b \in Named(c) : fdOf[b] = f
    BY <1>0, <1>5, <2>1 DEF References, RecordingOf
  <2> QED BY <2>2
<1> HIDE DEF fds
<1>11. order \in Seq(fds) BY <1>9, OrderExists
<1> HIDE DEF order
<1>12. CASE dspUsed' = dspUsed \cup B /\ Goto(t, "rpc", order)
  <2>1. Moves(t) /\ step'[t] = "rpc" /\ rest'[t] = order /\ pc' = pc
    BY <1>0, <1>12, GotoMoves DEF Steps
  <2>2. Op(t)' = Op(t) BY <2>1, MovesFrame
  <2>3. order \in Seq(Fd \cup {None}) /\ \A k \in DOMAIN order : order[k] \in fds BY <1>8, <1>11
  <2>4. RestOf(t)' BY <1>1, <1>2, <2>1, <2>2, <2>3 DEF RestOf
  <2>5. RestMatches' BY <2>1, <2>4, RestFrame DEF Inv
  <2>6. Types' BY <1>0, <1>6, <1>12, <2>1 DEF Types, Moves
  <2>7. Registration' BY <1>0, <1>6 DEF Registration
  <2>8. Mapping' BY <1>0, <1>6, <1>12 DEF Mapping
  <2>9. ~At(t, "releaseCmdBuf", "free") /\ ~At(t, "releaseCmdBuf", "free")'
    BY <1>1, <2>1 DEF At
  <2>10. /\ \A d : (Releasing(d)' <=> Releasing(d)) /\ RecordedBuffers(d)' = RecordedBuffers(d)
         /\ \A b : Holders(b)' = Holders(b)
    BY <1>6, <2>1, <2>9, MovesFrame
  <2>11. References' BY <1>0, <1>6, <1>12, <2>10 DEF References, RecordingOf, Named
  <2>12. \A u \in Thread \ {t} : /\ Op(u)' = Op(u) /\ rest'[u] = rest[u] /\ Given(u)' = Given(u)
                                 /\ (At(u, "execute", "rpc")' <=> At(u, "execute", "rpc"))
    <3>1. \A u \in Thread \ {t} : /\ Op(u)' = Op(u) /\ rest'[u] = rest[u]
                                  /\ (At(u, "execute", "rpc")' <=> At(u, "execute", "rpc"))
      BY <2>1, MovesFrame DEF Moves
    <3> QED BY <1>6, <3>1 DEF Given, Named
  <2>13. Given(t)' = B \cup Named(c) BY <1>3, <1>4, <1>6, <2>2 DEF Given, Named
  <2>14. ASSUME NEW u \in Thread, At(u, "execute", "rpc")'
         PROVE  /\ Op(u)'.bindings \subseteq dspUsed'
                /\ \A k \in DOMAIN rest'[u] : \E b \in Given(u)' : fdOf'[b] = rest'[u][k]
    <3>1. CASE u = t BY <1>4, <1>6, <1>10, <1>12, <2>1, <2>2, <2>3, <2>13, <3>1
    <3>2. CASE u # t BY <1>0, <1>6, <1>12, <2>12, <2>14, <3>2 DEF Executions
    <3> QED BY <3>1, <3>2
  <2>15. ASSUME NEW u \in Thread, inUse'[u] # None
         PROVE  /\ At(u, "execute", "rpc")'
                /\ \E b \in Given(u)' : fdOf'[b] = inUse'[u]
                /\ resident'[inUse'[u]] # None
    <3>1. u \in Thread \ {t} BY <1>1, <1>6, <2>15
    <3> QED BY <1>0, <1>6, <2>12, <2>15, <3>1 DEF Executions
  <2>16. \A f \in Fd : pinned'[f] = Cardinality({u \in Thread : inUse'[u] = f})
    BY <1>0, <1>6 DEF Executions
  <2>17. Executions' BY <2>14, <2>15, <2>16 DEF Executions
  <2> QED BY <2>5, <2>6, <2>7, <2>8, <2>11, <2>17 DEF Inv
<1>13. \/ Return(t, "error") /\ dspUsed' = dspUsed
       \/ dspUsed' = dspUsed \cup B /\ Goto(t, "rpc", order)
  BY <1>3, <1>4 DEF SerializeBindings, GetFdForDsp, ReturnError, order, fds
<1> QED BY <1>7, <1>12, <1>13

(* A command acquires a descriptor of the execution, and with it the live buffer behind it. *)
LEMMA CommandAcquiresInv ==
  ASSUME Inv, CallersKeepBuffers, NEW t \in Thread, CommandAcquires(t)
  PROVE  Inv'
<1>0. Types /\ Registration /\ Mapping /\ References /\ Executions /\ RestOf(t)
  BY DEF Inv, RestMatches
<1>1. /\ At(t, "execute", "rpc") /\ Running(t) /\ step[t] = "rpc" /\ Op(t).kind = "execute"
      /\ inUse[t] = None /\ sessionUp /\ rest[t] # <<>>
  BY DEF CommandAcquires, At
<1>2. /\ rest[t] \in Seq(Fd \cup {None}) /\ Op(t).cmdBuf # None
      /\ \A k \in DOMAIN rest[t] : \E b \in Given(t) : fdOf[b] = rest[t][k]
  BY <1>0, <1>1 DEF RestOf, Executions
<1>3. PICK a \in Given(t) : fdOf[a] = Head(rest[t])
  <2>1. 1 \in DOMAIN rest[t] /\ Head(rest[t]) = rest[t][1] BY <1>1, <1>2
  <2> QED BY <1>2, <2>1
<1>4. a \in Buffer /\ stage[a] = "live" /\ a \in dspUsed BY <1>1, GivenIsLive
<1>5. PICK f \in Fd : f = fdOf[a] /\ registered[f] = a BY <1>0, <1>4 DEF Registration
<1>6. /\ resident' = [resident EXCEPT ![f] = IF @ = None THEN registered[f] ELSE @]
      /\ pinned' = [pinned EXCEPT ![f] = @ + 1]
      /\ inUse' = [inUse EXCEPT ![t] = f]
      /\ Goto(t, "rpc", Tail(rest[t]))
      /\ UNCHANGED <<refs, stage, fdOf, dspUsed, registered, sessionUp, cmdBuf>>
  BY <1>3, <1>5 DEF CommandAcquires, DspAcquire
<1>7. resident'[f] = a /\ resident' \in [Fd -> Buffer \cup {None}]
      /\ \A g \in Fd \ {f} : resident'[g] = resident[g]
  <2>1. resident[f] = None \/ resident[f] = a BY <1>0, <1>5 DEF Mapping
  <2> QED BY <1>0, <1>4, <1>5, <1>6, <2>1 DEF Types
<1>8. /\ inUse' \in [Thread -> Fd \cup {None}] /\ inUse'[t] = f
      /\ \A u \in Thread \ {t} : inUse'[u] = inUse[u]
  BY <1>0, <1>6 DEF Types
<1>9. Moves(t) /\ step'[t] = "rpc" /\ rest'[t] = Tail(rest[t]) /\ pc' = pc
  BY <1>0, <1>6, GotoMoves DEF Steps
<1>10. /\ Op(t)' = Op(t) /\ Running(t)'
       /\ \A u \in Thread \ {t} : /\ Op(u)' = Op(u) /\ rest'[u] = rest[u]
                                  /\ (At(u, "execute", "rpc")' <=> At(u, "execute", "rpc"))
  BY <1>1, <1>9, MovesFrame DEF Moves
<1>11. /\ Tail(rest[t]) \in Seq(Fd \cup {None})
       /\ \A k \in DOMAIN Tail(rest[t]) : k + 1 \in DOMAIN rest[t] /\ Tail(rest[t])[k] = rest[t][k + 1]
  BY <1>1, <1>2, HeadTailProperties
<1>12. RestMatches'
  <2>1. RestOf(t)' BY <1>1, <1>2, <1>9, <1>10, <1>11 DEF RestOf
  <2> QED BY <1>9, <2>1, RestFrame DEF Inv
<1>13. \A g \in Fd : /\ pinned'[g] \in Nat
                     /\ pinned'[g] = Cardinality({u \in Thread : inUse'[u] = g})
  <2> SUFFICES ASSUME NEW g \in Fd
               PROVE  /\ pinned'[g] \in Nat
                      /\ pinned'[g] = Cardinality({u \in Thread : inUse'[u] = g})
    OBVIOUS
  <2> DEFINE U == {u \in Thread : inUse[u] = g}
             V == {u \in Thread : inUse'[u] = g}
  <2>1. pinned[g] \in Nat /\ pinned[g] = Cardinality(U) /\ IsFiniteSet(U)
    BY <1>0, UsedIsPinned DEF Types, Executions
  <2>2. t \notin U BY <1>1
  <2>3. CASE g = f
    <3>1. V = U \cup {t} BY <1>8, <2>3
    <3> HIDE DEF U, V
    <3>2. Cardinality(U \cup {t}) = Cardinality(U) + 1 BY <2>1, <2>2, FS_AddElement
    <3>3. pinned'[g] = pinned[g] + 1 BY <1>0, <1>6, <2>3 DEF Types
    <3>4. pinned'[g] \in Nat /\ pinned'[g] = Cardinality(V) BY <2>1, <3>1, <3>2, <3>3
    <3> QED BY <3>4 DEF V
  <2>4. CASE g # f
    <3>1. V = U BY <1>1, <1>8, <2>4
    <3>2. pinned'[g] = pinned[g] BY <1>0, <1>6, <2>4 DEF Types
    <3> QED BY <2>1, <3>1, <3>2
  <2> QED BY <2>3, <2>4
<1>14. pinned' \in [Fd -> Nat]
  <2>1. pinned' = [g \in Fd |-> pinned'[g]] BY <1>0, <1>6 DEF Types
  <2> QED BY <1>13, <2>1
<1>15. Types' BY <1>0, <1>6, <1>7, <1>8, <1>9, <1>14 DEF Types, Moves
<1>16. Registration' BY <1>0, <1>6 DEF Registration
<1>17. Mapping'
  <2>1. ASSUME NEW g \in Fd, resident'[g] # None
        PROVE  /\ registered[g] = resident'[g]
               /\ stage[resident'[g]] \in {"live", "dying", "leaked"}
               /\ resident'[g] \in dspUsed
    <3>1. CASE g = f BY <1>4, <1>5, <1>7, <3>1
    <3>2. CASE g # f BY <1>0, <1>7, <2>1, <3>2 DEF Mapping
    <3> QED BY <3>1, <3>2
  <2> QED BY <1>1, <1>6, <2>1 DEF Mapping
<1>18. References'
  <2>1. ~At(t, "releaseCmdBuf", "free") /\ ~At(t, "releaseCmdBuf", "free")'
    BY <1>1, <1>9 DEF At
  <2>2. /\ \A d : (Releasing(d)' <=> Releasing(d)) /\ RecordedBuffers(d)' = RecordedBuffers(d)
        /\ \A b : Holders(b)' = Holders(b)
    BY <1>6, <1>9, <2>1, MovesFrame
  <2> QED BY <1>0, <1>6, <2>2 DEF References, RecordingOf, Named
<1>19. \A u \in Thread : Given(u)' = Given(u) BY <1>6, <1>10 DEF Given, Named
<1>20. ASSUME NEW u \in Thread, At(u, "execute", "rpc")'
       PROVE  /\ Op(u)'.bindings \subseteq dspUsed'
              /\ \A k \in DOMAIN rest'[u] : \E b \in Given(u)' : fdOf'[b] = rest'[u][k]
  <2>1. CASE u = t
    <3>1. Op(t).bindings \subseteq dspUsed BY <1>0, <1>1 DEF Executions
    <3>2. \A k \in DOMAIN Tail(rest[t]) : \E b \in Given(t) : fdOf[b] = Tail(rest[t])[k]
      <4> SUFFICES ASSUME NEW k \in DOMAIN Tail(rest[t])
                   PROVE  \E b \in Given(t) : fdOf[b] = Tail(rest[t])[k]
        OBVIOUS
      <4>1. k + 1 \in DOMAIN rest[t] /\ Tail(rest[t])[k] = rest[t][k + 1] BY <1>11
      <4>2. \E b \in Given(t) : fdOf[b] = rest[t][k + 1] BY <1>2, <4>1
      <4> QED BY <4>1, <4>2
    <3>3. Op(t)' = Op(t) /\ Given(t)' = Given(t) BY <1>10, <1>19
    <3> QED BY <1>6, <1>9, <2>1, <3>1, <3>2, <3>3
  <2>2. CASE u # t BY <1>0, <1>6, <1>10, <1>19, <1>20, <2>2 DEF Executions
  <2> QED BY <2>1, <2>2
<1>21. ASSUME NEW u \in Thread, inUse'[u] # None
       PROVE  /\ At(u, "execute", "rpc")'
              /\ \E b \in Given(u)' : fdOf'[b] = inUse'[u]
              /\ resident'[inUse'[u]] # None
  <2>1. CASE u = t
    <3>1. At(t, "execute", "rpc")' BY <1>1, <1>9, <1>10 DEF At
    <3> QED BY <1>4, <1>5, <1>6, <1>7, <1>8, <1>19, <2>1, <3>1
  <2>2. CASE u # t
    <3>1. inUse'[u] = inUse[u] /\ inUse[u] \in Fd BY <1>0, <1>8, <1>21, <2>2 DEF Types
    <3>2. /\ At(u, "execute", "rpc") /\ \E b \in Given(u) : fdOf[b] = inUse[u]
          /\ resident[inUse[u]] # None
      BY <1>0, <1>21, <3>1 DEF Executions
    <3>3. resident'[inUse[u]] # None BY <1>4, <1>7, <3>1, <3>2
    <3> QED BY <1>6, <1>10, <1>19, <2>2, <3>1, <3>2, <3>3
  <2> QED BY <2>1, <2>2
<1>22. Executions' BY <1>13, <1>20, <1>21 DEF Executions
<1> QED BY <1>12, <1>15, <1>16, <1>17, <1>18, <1>22 DEF Inv

(* A step of the DSP that leaves every caller where it is keeps what the threads say. *)
LEMMA DspFrame ==
  ASSUME UNCHANGED <<prog, pc, step, rest, cmdBuf, fdOf>>
  PROVE  /\ \A u : Op(u)' = Op(u) /\ Given(u)' = Given(u) /\ (RestOf(u)' <=> RestOf(u))
         /\ \A u, k, s : At(u, k, s)' <=> At(u, k, s)
         /\ \A c : (Releasing(c)' <=> Releasing(c)) /\ RecordedBuffers(c)' = RecordedBuffers(c)
         /\ \A b : Holders(b)' = Holders(b)
<1>1. \A u : Op(u)' = Op(u) /\ Given(u)' = Given(u) /\ (RestOf(u)' <=> RestOf(u))
  BY DEF Op, Given, Named, RestOf, Running
<1>2. \A u, k, s : At(u, k, s)' <=> At(u, k, s) BY DEF At, Running, Op
<1>3. \A c : RecordedBuffers(c)' = RecordedBuffers(c) BY DEF RecordedBuffers
<1>4. \A c : Releasing(c)' <=> Releasing(c) BY <1>1, <1>2 DEF Releasing
<1>5. \A b : Holders(b)' = Holders(b) BY <1>4 DEF Holders
<1> QED BY <1>1, <1>2, <1>3, <1>4, <1>5

(* A step of the DSP that ends uses or mappings, or both. *)
LEMMA DspStep ==
  ASSUME Inv, UNCHANGED <<refs, stage, fdOf, dspUsed, registered, prog, pc, step, rest, cmdBuf>>,
         resident' \in [Fd -> Buffer \cup {None}], pinned' \in [Fd -> Nat],
         inUse' \in [Thread -> Fd \cup {None}], sessionUp' \in BOOLEAN,
         \A f \in Fd : resident'[f] # None => resident'[f] = resident[f],
         ~sessionUp' => \A f \in Fd : resident'[f] = None,
         \A u \in Thread : inUse'[u] # None =>
           inUse'[u] = inUse[u] /\ resident'[inUse[u]] = resident[inUse[u]],
         \A f \in Fd : pinned'[f] = Cardinality({u \in Thread : inUse'[u] = f})
  PROVE  Inv'
<1>0. Types /\ RestMatches /\ Registration /\ Mapping /\ References /\ Executions BY DEF Inv
<1>1. /\ \A u : Op(u)' = Op(u) /\ Given(u)' = Given(u) /\ (RestOf(u)' <=> RestOf(u))
      /\ \A u, k, s : At(u, k, s)' <=> At(u, k, s)
      /\ \A c : (Releasing(c)' <=> Releasing(c)) /\ RecordedBuffers(c)' = RecordedBuffers(c)
      /\ \A b : Holders(b)' = Holders(b)
  BY DspFrame
<1>2. Types' BY <1>0 DEF Types
<1>3. RestMatches' BY <1>0, <1>1 DEF RestMatches
<1>4. Registration' BY <1>0 DEF Registration
<1>5. Mapping' BY <1>0 DEF Mapping
<1>6. References' BY <1>0, <1>1 DEF References, RecordingOf, Named
<1>7. Executions'
  <2>1. ASSUME NEW u \in Thread, At(u, "execute", "rpc")'
        PROVE  /\ Op(u)'.bindings \subseteq dspUsed'
               /\ \A k \in DOMAIN rest'[u] : \E b \in Given(u)' : fdOf'[b] = rest'[u][k]
    BY <1>0, <1>1, <2>1 DEF Executions
  <2>2. ASSUME NEW u \in Thread, inUse'[u] # None
        PROVE  /\ At(u, "execute", "rpc")'
               /\ \E b \in Given(u)' : fdOf'[b] = inUse'[u]
               /\ resident'[inUse'[u]] # None
    BY <1>0, <1>1, <2>2 DEF Executions
  <2> QED BY <2>1, <2>2 DEF Executions
<1> QED BY <1>2, <1>3, <1>4, <1>5, <1>6, <1>7 DEF Inv

(* A command gives its descriptor back. *)
LEMMA CommandReleasesInv ==
  ASSUME Inv, NEW t \in Thread, CommandReleases(t)
  PROVE  Inv'
<1>0. Types /\ Mapping /\ Executions BY DEF Inv
<1>1. PICK f \in Fd : f = inUse[t] BY <1>0 DEF CommandReleases, Types
<1>2. /\ pinned' = [pinned EXCEPT ![f] = @ - 1] /\ inUse' = [inUse EXCEPT ![t] = None]
      /\ UNCHANGED <<refs, stage, fdOf, dspUsed, registered, resident, sessionUp,
                     prog, pc, step, rest, cmdBuf>>
  BY <1>1 DEF CommandReleases, DspRelease
<1>3. /\ inUse' \in [Thread -> Fd \cup {None}] /\ inUse'[t] = None
      /\ \A u \in Thread \ {t} : inUse'[u] = inUse[u]
  BY <1>0, <1>2 DEF Types
<1>4. \A g \in Fd : /\ pinned'[g] \in Nat
                    /\ pinned'[g] = Cardinality({u \in Thread : inUse'[u] = g})
  <2> SUFFICES ASSUME NEW g \in Fd
               PROVE  /\ pinned'[g] \in Nat
                      /\ pinned'[g] = Cardinality({u \in Thread : inUse'[u] = g})
    OBVIOUS
  <2> DEFINE U == {u \in Thread : inUse[u] = g}
             V == {u \in Thread : inUse'[u] = g}
  <2>1. pinned[g] \in Nat /\ pinned[g] = Cardinality(U) /\ IsFiniteSet(U)
    BY <1>0, UsedIsPinned DEF Types, Executions
  <2>2. CASE g = f
    <3>1. t \in U /\ V = U \ {t} BY <1>1, <1>3, <2>2
    <3>2. pinned[g] > 0 BY <1>0, <1>1, <2>2, UsedIsPinned
    <3> HIDE DEF U, V
    <3>3. Cardinality(U \ {t}) = Cardinality(U) - 1 BY <2>1, <3>1, FS_RemoveElement
    <3>4. pinned'[g] = pinned[g] - 1 BY <1>0, <1>2, <2>2 DEF Types
    <3>5. pinned'[g] \in Nat /\ pinned'[g] = Cardinality(V) BY <2>1, <3>1, <3>2, <3>3, <3>4
    <3> QED BY <3>5 DEF V
  <2>3. CASE g # f
    <3>1. V = U BY <1>1, <1>3, <2>3
    <3>2. pinned'[g] = pinned[g] BY <1>0, <1>2, <2>3 DEF Types
    <3> QED BY <2>1, <3>1, <3>2
  <2> QED BY <2>2, <2>3
<1>5. pinned' \in [Fd -> Nat]
  <2>1. pinned' = [g \in Fd |-> pinned'[g]] BY <1>0, <1>2 DEF Types
  <2> QED BY <1>4, <2>1
<1>6. resident' \in [Fd -> Buffer \cup {None}] /\ sessionUp' \in BOOLEAN
      /\ (~sessionUp' => \A g \in Fd : resident'[g] = None)
  BY <1>0, <1>2 DEF Types, Mapping
<1>7. \A u \in Thread : inUse'[u] # None => inUse'[u] = inUse[u] BY <1>3
<1> QED BY <1>2, <1>3, <1>4, <1>5, <1>6, <1>7, DspStep

(* The cache unmaps what no command uses. *)
LEMMA EvictInv ==
  ASSUME Inv, NEW f \in Fd, Evict(f)
  PROVE  Inv'
<1>0. Types /\ Mapping /\ Executions BY DEF Inv
<1>1. /\ resident' = [resident EXCEPT ![f] = None] /\ pinned[f] = 0 /\ sessionUp /\ sessionUp'
      /\ UNCHANGED <<refs, stage, fdOf, dspUsed, registered, pinned, prog, pc, step, rest, cmdBuf, inUse>>
  BY DEF Evict, DspEvict, qVars
<1>2. /\ resident' \in [Fd -> Buffer \cup {None}] /\ resident'[f] = None
      /\ \A g \in Fd \ {f} : resident'[g] = resident[g]
      /\ pinned' \in [Fd -> Nat] /\ inUse' \in [Thread -> Fd \cup {None}]
  BY <1>0, <1>1 DEF Types
<1>3. sessionUp' \in BOOLEAN BY <1>0, <1>1 DEF Types, Evict, DspEvict
<1>4. \A u \in Thread : inUse'[u] # None =>
        inUse'[u] = inUse[u] /\ resident'[inUse[u]] = resident[inUse[u]]
  <2> SUFFICES ASSUME NEW u \in Thread, inUse[u] # None
               PROVE  resident'[inUse[u]] = resident[inUse[u]]
    BY <1>1
  <2>1. inUse[u] \in Fd BY <1>0 DEF Types
  <2>2. pinned[inUse[u]] > 0 BY <1>0, <2>1, UsedIsPinned
  <2>3. inUse[u] # f BY <1>1, <2>2
  <2> QED BY <1>2, <2>1, <2>3
<1>5. \A g \in Fd : pinned'[g] = Cardinality({u \in Thread : inUse'[u] = g})
  BY <1>0, <1>1 DEF Executions
<1>6. \A g \in Fd : resident'[g] # None => resident'[g] = resident[g] BY <1>2
<1> QED BY <1>1, <1>2, <1>3, <1>4, <1>5, <1>6, DspStep

(* The DSP's process aborts: nothing is mapped, nothing is used. *)
LEMMA DspCrashInv == ASSUME Inv, DspCrash PROVE Inv'
<1>1. /\ resident' = [f \in Fd |-> None] /\ pinned' = [f \in Fd |-> 0]
      /\ inUse' = [t \in Thread |-> None] /\ sessionUp' = FALSE
      /\ UNCHANGED <<refs, stage, fdOf, dspUsed, registered, prog, pc, step, rest, cmdBuf>>
  BY DEF DspCrash
<1>2. ASSUME NEW f \in Fd PROVE pinned'[f] = Cardinality({u \in Thread : inUse'[u] = f})
  <2>1. {u \in Thread : inUse'[u] = f} = {} BY <1>1
  <2> QED BY <1>1, <2>1, FS_EmptySet
<1> QED BY <1>1, <1>2, DspStep

----------------------------------------------------------------------------
(* The whole *)

(* At the beginning nothing is allocated. *)
LEMMA InitInv == Init => Inv
<1> SUFFICES ASSUME Init PROVE Inv OBVIOUS
<1>1. Types BY DEF Init, MemInit, Types, Stages, Steps, CmdBufs, NoCmdBuf
<1>2. \A t \in Thread : step[t] = "wait" /\ inUse[t] = None BY DEF Init
<1>3. RestMatches BY <1>2 DEF RestMatches, RestOf
<1>4. Registration BY DEF Init, MemInit, Registration
<1>5. Mapping BY DEF Init, MemInit, Mapping
<1>6. References
  <2>1. \A c \in CmdBuf : cmdBuf[c].held = {} /\ cmdBuf[c].lent = {} /\ cmdBuf[c].fds = {}
    BY DEF Init, NoCmdBuf
  <2>2. \A b : Holders(b) = {} BY <2>1 DEF Holders
  <2>3. \A b : Cardinality(Holders(b)) = 0 BY <2>2, FS_EmptySet
  <2>4. \A b \in Buffer : refs[b] = 0 /\ stage[b] = "none" BY DEF Init, MemInit
  <2> QED BY <2>1, <2>3, <2>4 DEF References, RecordingOf, Named
<1>7. Executions
  <2>1. \A t \in Thread : ~At(t, "execute", "rpc") BY <1>2 DEF At
  <2>2. ASSUME NEW f \in Fd PROVE pinned[f] = Cardinality({t \in Thread : inUse[t] = f})
    <3>1. {t \in Thread : inUse[t] = f} = {} BY <1>2
    <3> QED BY <3>1, FS_EmptySet DEF Init, MemInit
  <2> QED BY <1>2, <2>1, <2>2 DEF Executions
<1> QED BY <1>1, <1>3, <1>4, <1>5, <1>6, <1>7 DEF Inv

(* Every step keeps the invariant while the callers keep what they use. *)
LEMMA NextInv == Inv /\ CallersKeepBuffers /\ [Next]_vars => Inv'
<1> SUFFICES ASSUME Inv, CallersKeepBuffers, [Next]_vars PROVE Inv' OBVIOUS
<1>1. CASE vars' = vars
  <2>1. /\ UNCHANGED <<refs, stage, fdOf, dspUsed, registered, prog, pc, step, rest, cmdBuf>>
        /\ UNCHANGED <<resident, pinned, inUse, sessionUp>>
    BY <1>1 DEF vars, memVars, qVars
  <2>2. /\ resident' \in [Fd -> Buffer \cup {None}] /\ pinned' \in [Fd -> Nat]
        /\ inUse' \in [Thread -> Fd \cup {None}] /\ sessionUp' \in BOOLEAN
        /\ (~sessionUp' => \A f \in Fd : resident'[f] = None)
    BY <2>1 DEF Inv, Types, Mapping
  <2>3. \A f \in Fd : pinned'[f] = Cardinality({u \in Thread : inUse'[u] = f})
    BY <2>1 DEF Inv, Executions
  <2> QED BY <2>1, <2>2, <2>3, DspStep
<1>2. ASSUME NEW t \in Thread, ThreadStep(t) PROVE Inv'
  <2>1. CASE Wait(t) \/ Skip(t) BY <2>1, WaitInv
  <2>2. CASE Signal(t) \/ Finish(t) BY <2>2, SignalInv
  <2>3. CASE Alloca(t) BY <2>3, AllocaInv
  <2>4. CASE Dealloca(t) BY <2>4, DeallocaInv
  <2>5. CASE ReleaseBuffer(t) BY <2>5, ReleaseBufferInv
  <2>6. CASE FreeBuffer(t) BY <2>6, FreeBufferInv
  <2>7. CASE FreeDone(t) BY <2>7, FreeDoneInv
  <2>8. CASE CreateCmdBuf(t) \/ EndCmdBuf(t) BY <2>8, CreateEndInv
  <2>9. CASE RecordCommand(t) BY <2>9, RecordCommandInv
  <2>10. CASE ReleaseCmdBuf(t) BY <2>10, ReleaseCmdBufInv
  <2>11. CASE SerializeBindings(t) BY <2>11, SerializeBindingsInv
  <2>12. CASE CommandAcquires(t) BY <2>12, CommandAcquiresInv
  <2>13. CASE CommandReleases(t) BY <2>13, CommandReleasesInv
  <2>14. CASE ExecuteReturns(t) BY <2>14, ExecuteReturnsInv
  <2> QED BY <1>2, <2>1, <2>2, <2>3, <2>4, <2>5, <2>6, <2>7, <2>8, <2>9, <2>10, <2>11, <2>12,
             <2>13, <2>14 DEF ThreadStep
<1>3. ASSUME NEW f \in Fd, Evict(f) PROVE Inv' BY <1>3, EvictInv
<1>4. CASE DspCrash BY <1>4, DspCrashInv
<1> QED BY <1>1, <1>2, <1>3, <1>4 DEF Next

(* While the callers keep their contract, the bookkeeping of memory, references and
   executions agrees with itself. *)
THEOREM InvHolds == Spec /\ []CallersKeepBuffers => []Inv
<1>1. Init => Inv BY InitInv
<1>2. Inv /\ CallersKeepBuffers /\ [Next]_vars => Inv' BY NextInv
<1> QED BY <1>1, <1>2, PTL DEF Spec

(* mem_alloc_release: what the DSP has mapped under a descriptor is the memory registered
   under it, however descriptors are reused, if the callers keep what they use. *)
THEOREM MapsRegisteredMemoryHolds ==
  Spec /\ []CallersKeepBuffers => []MapsRegisteredMemory
<1>1. Inv => MapsRegisteredMemory BY DEF Inv, Mapping, MapsRegisteredMemory
<1> QED BY <1>1, InvHolds, PTL

(* queue_execute: a command on the DSP works on a live buffer that the execution was given or
   its command buffer recorded, if the callers keep what they use. *)
THEOREM CommandsUseLiveBuffersHolds ==
  Spec /\ []CallersKeepBuffers => []CommandsUseLiveBuffers
<1>1. Inv /\ CallersKeepBuffers => CommandsUseLiveBuffers
  <2> SUFFICES ASSUME Inv, CallersKeepBuffers, NEW t \in Thread, inUse[t] # None
               PROVE  /\ Usable(resident[inUse[t]])
                      /\ resident[inUse[t]] \in Op(t).bindings \cup RecordedBuffers(Op(t).cmdBuf)
    BY DEF CommandsUseLiveBuffers
  <2>1. /\ At(t, "execute", "rpc") /\ inUse[t] \in Fd /\ resident[inUse[t]] # None
        /\ \E b \in Given(t) : fdOf[b] = inUse[t]
    BY DEF Inv, Executions, Types
  <2>2. PICK b \in Given(t) : fdOf[b] = inUse[t] BY <2>1
  <2>3. b \in Buffer /\ stage[b] = "live" BY <2>1, GivenIsLive
  <2>4. registered[inUse[t]] = b BY <2>2, <2>3 DEF Inv, Registration
  <2>5. resident[inUse[t]] = b BY <2>1, <2>4 DEF Inv, Mapping
  <2>6. Op(t).cmdBuf \in CmdBuf
    <3>1. RestOf(t) /\ Running(t) /\ step[t] = "rpc" /\ Op(t).kind = "execute"
      BY <2>1 DEF Inv, RestMatches, At
    <3> QED BY <3>1, OpType DEF RestOf, Inv
  <2>7. b \in Op(t).bindings \cup RecordedBuffers(Op(t).cmdBuf)
    BY <2>2, <2>6 DEF Inv, References, RecordingOf, Given
  <2> QED BY <2>3, <2>5, <2>7 DEF Usable
<1> QED BY <1>1, InvHolds, PTL

----------------------------------------------------------------------------
(* Semaphores: what was waited for is done. Nothing here depends on memory. *)

Waited(w) == \E t \in Thread : \E i \in DOMAIN prog[t] : w \in prog[t][i].wait

\* The timelines of a program are in order: who moves a semaphore to or past a value that
\* somebody waits for signals that value as well, or has waited for it or a later one, or
\* signalled it with an earlier operation. Nobody waits for the initial value.
OrderedSignals(p, u, j, w) ==
  \A k \in DOMAIN p[u][j].signal :
    p[u][j].signal[k].s = w.s /\ w.v <= p[u][j].signal[k].v =>
      \/ \E m \in DOMAIN p[u][j].signal : p[u][j].signal[m] = w
      \/ \E x \in p[u][j].wait : x.s = w.s /\ w.v <= x.v
      \/ /\ p[u][j].kind \notin Releases
         /\ \E l \in 1..(j - 1) : \E m \in DOMAIN p[u][l].signal : p[u][l].signal[m] = w
InOrder(p) ==
  \A t \in Thread : \A i \in DOMAIN p[t] : \A w \in p[t][i].wait :
    w.v > 0 /\ \A u \in Thread : \A j \in DOMAIN p[u] : OrderedSignals(p, u, j, w)

\* An operation whose first signal was accepted gets through with the others. (Otherwise it
\* fails with some of its semaphores signalled.)
Began(t) == Running(t) /\ step[t] = "signal" /\ Len(rest[t]) < Len(Op(t).signal)
AllOrNothing ==
  \A t \in Thread : Began(t) /\ rest[t] # <<>> => sem[Head(rest[t]).s] < Head(rest[t]).v

\* Operation i of thread u did all its work and signals w.
DoneBy(u, i, w) ==
  /\ Signals(u, i, w)
  /\ (i < pc[u] /\ outcome[u][i] = "ok") \/ (i = pc[u] /\ Began(u))

QueueTypes ==
  /\ prog \in [Thread -> Seq(Operations)] /\ prog \in Programs
  /\ pc \in [Thread -> Nat \ {0}]
  /\ step \in [Thread -> Steps]
  /\ sem \in [Semaphore -> Nat]
  /\ DOMAIN rest = Thread
  /\ DOMAIN outcome = Thread
  /\ \A t \in Thread : DOMAIN outcome[t] = DOMAIN prog[t]
  /\ \A t \in Thread : \A j \in DOMAIN prog[t] : j >= pc[t] => outcome[t][j] = "todo"
AllOk(t) == \A j \in DOMAIN prog[t] : j < pc[t] => outcome[t][j] = "ok"
\* A caller without a failed operation has done all of them.
FailuresMatch == \A t \in Thread : Failed(t) \/ AllOk(t)
PastWait ==
  \A t \in Thread : Running(t) /\ step[t] # "wait" =>
    Satisfied(t) /\ (Op(t).kind \in Releases \/ AllOk(t))
Signalling ==
  \A t \in Thread : Running(t) /\ step[t] = "signal" =>
    /\ rest[t] \in Seq(Points) /\ Len(rest[t]) <= Len(Op(t).signal)
    /\ \A k \in DOMAIN rest[t] : \E m \in DOMAIN Op(t).signal : rest[t][k] = Op(t).signal[m]
ReachedIsDone ==
  \A w \in Points : Waited(w) /\ sem[w.s] >= w.v =>
    \E u \in Thread : \E i \in DOMAIN prog[u] : DoneBy(u, i, w)

QueueInv == QueueTypes /\ FailuresMatch /\ PastWait /\ Signalling /\ ReachedIsDone

(* What the current operation is. *)
LEMMA CurrentOp ==
  ASSUME QueueTypes, NEW t \in Thread, Running(t)
  PROVE  /\ pc[t] \in DOMAIN prog[t] /\ DOMAIN prog[t] = 1..Len(prog[t])
         /\ Op(t) = prog[t][pc[t]] /\ Op(t) \in Operations
         /\ Op(t).wait \subseteq Points /\ Op(t).signal \in Seq(Points)
<1>1. prog[t] \in Seq(Operations) /\ pc[t] \in Nat \ {0}
  BY DEF QueueTypes
<1>2. pc[t] \in 1..Len(prog[t]) /\ DOMAIN prog[t] = 1..Len(prog[t])
  BY <1>1 DEF Running
<1>3. Op(t) \in Operations /\ Op(t) = prog[t][pc[t]]
  BY <1>1, <1>2 DEF Op
<1>4. \A o \in Operations : o.wait \subseteq Points /\ o.signal \in Seq(Points)
  BY DEF Operations
<1>5. QED
  BY <1>2, <1>3, <1>4

(* How a step of a thread moves it, apart from signals. *)
Advances(t) ==
  /\ Running(t) /\ step[t] # "signal" /\ sem' = sem
  /\ step[t] = "wait" => Satisfied(t) /\ (~ Failed(t) \/ Op(t).kind \in Releases)
  /\ \E s \in Steps \ {"wait"} : \E r : Goto(t, s, r) /\ (s = "signal" => r = Op(t).signal)
Returns(t) ==
  /\ Running(t) /\ step[t] # "signal" /\ sem' = sem
  /\ \/ Return(t, "error")
     \/ Failed(t) /\ Return(t, "skipped")
Stays == UNCHANGED <<prog, pc, step, rest, outcome, sem>>

(* Every operation of the queue does one of these, or signals. *)
LEMMA ThreadStepKinds ==
  ASSUME NEW t \in Thread, ThreadStep(t)
  PROVE  Advances(t) \/ Returns(t) \/ Stays \/ Signal(t) \/ Finish(t)
<1>1. CASE Wait(t)
  <2>1. \A op : op = Op(t) => \E s \in Steps \ {"wait"} : \E r : Goto(t, s, r) /\ (s = "signal" => r = op.signal)
    <3>1. \/ Goto(t, "create", Op(t).cmds) \/ Goto(t, "signal", Op(t).signal)
          \/ Goto(t, "serialize", <<>>) \/ Goto(t, "work", <<>>)
      BY <1>1 DEF Wait
    <3>2. QED
      BY <3>1 DEF Steps
  <2>2. Running(t) /\ step[t] = "wait" /\ sem' = sem /\ Satisfied(t) /\ (~ Failed(t) \/ Op(t).kind \in Releases)
    BY <1>1 DEF Wait
  <2>3. QED
    BY <2>1, <2>2 DEF Advances
<1>2. CASE Skip(t)
  BY <1>2 DEF Skip, Returns
<1>3. CASE Alloca(t)
  BY <1>3 DEF Alloca, At, Advances, Returns, ReturnError, Steps
<1>4. CASE Dealloca(t)
  BY <1>4 DEF Dealloca, At, Advances, Steps
<1>5. CASE ReleaseBuffer(t)
  BY <1>5 DEF ReleaseBuffer, At, Advances, Steps
<1>6. CASE FreeBuffer(t)
  BY <1>6 DEF FreeBuffer, Stays, qVars
<1>7. CASE FreeDone(t)
  BY <1>7 DEF FreeDone, Advances, Steps
<1>8. CASE CreateCmdBuf(t)
  BY <1>8 DEF CreateCmdBuf, At, Advances, Returns, ReturnError, Steps
<1>9. CASE RecordCommand(t)
  <2>1. (\E r : Goto(t, "record", r)) \/ ReturnError(t)
    BY <1>9 DEF RecordCommand
  <2>2. Running(t) /\ step[t] = "record" /\ sem' = sem
    BY <1>9 DEF RecordCommand, At
  <2>3. QED
    BY <2>1, <2>2 DEF Advances, Returns, ReturnError, Steps
<1>10. CASE EndCmdBuf(t)
  BY <1>10 DEF EndCmdBuf, At, Advances, Returns, ReturnError, Steps
<1>11. CASE ReleaseCmdBuf(t)
  BY <1>11 DEF ReleaseCmdBuf, At, Advances, Steps
<1>12. CASE SerializeBindings(t)
  <2>1. (\E r : Goto(t, "rpc", r)) \/ ReturnError(t)
    BY <1>12 DEF SerializeBindings
  <2>2. Running(t) /\ step[t] = "serialize" /\ sem' = sem
    BY <1>12 DEF SerializeBindings, At
  <2>3. QED
    BY <2>1, <2>2 DEF Advances, Returns, ReturnError, Steps
<1>13. CASE CommandAcquires(t)
  BY <1>13 DEF CommandAcquires, At, Advances, Steps
<1>14. CASE CommandReleases(t)
  BY <1>14 DEF CommandReleases, Stays
<1>15. CASE ExecuteReturns(t)
  BY <1>15 DEF ExecuteReturns, At, Advances, Returns, ReturnError, Steps
<1>16. QED
  BY <1>1, <1>2, <1>3, <1>4, <1>5, <1>6, <1>7, <1>8, <1>9, <1>10, <1>11, <1>12, <1>13, <1>14, <1>15
     DEF ThreadStep

PastWaitOf(t) ==
  Running(t) /\ step[t] # "wait" => Satisfied(t) /\ (Op(t).kind \in Releases \/ AllOk(t))
SignallingOf(t) ==
  Running(t) /\ step[t] = "signal" =>
    /\ rest[t] \in Seq(Points) /\ Len(rest[t]) <= Len(Op(t).signal)
    /\ \A k \in DOMAIN rest[t] : \E m \in DOMAIN Op(t).signal : rest[t][k] = Op(t).signal[m]

(* A step of thread t: what is to be shown of it, the other threads stay where they are. *)
LEMMA QueueStep ==
  ASSUME QueueInv, NEW t \in Thread, prog' = prog, QueueTypes',
         \A u \in Thread \ {t} : /\ pc'[u] = pc[u] /\ step'[u] = step[u]
                                 /\ rest'[u] = rest[u] /\ outcome'[u] = outcome[u],
         \A s \in Semaphore : sem[s] <= sem'[s],
         (Failed(t) \/ AllOk(t))', PastWaitOf(t)', SignallingOf(t)',
         \A i \in DOMAIN prog[t] : \A w \in Points : DoneBy(t, i, w) => DoneBy(t, i, w)',
         \A w \in Points : Waited(w) /\ sem'[w.s] >= w.v =>
           sem[w.s] >= w.v \/ \E i \in DOMAIN prog[t] : DoneBy(t, i, w)'
  PROVE  QueueInv'
<1>1. ASSUME NEW u \in Thread \ {t}
      PROVE  /\ Running(u)' <=> Running(u)
             /\ Op(u)' = Op(u)
             /\ Failed(u)' <=> Failed(u)
             /\ AllOk(u)' <=> AllOk(u)
             /\ Began(u)' <=> Began(u)
  <2>1. (Running(u)' <=> Running(u)) /\ Op(u)' = Op(u)
    BY DEF Running, Op
  <2>2. Failed(u)' <=> Failed(u)
    BY DEF Failed
  <2>3. AllOk(u)' <=> AllOk(u)
    BY DEF AllOk
  <2>4. Began(u)' <=> Began(u)
    BY <2>1 DEF Began
  <2>5. QED
    BY <2>1, <2>2, <2>3, <2>4
<1>2. FailuresMatch'
  BY <1>1 DEF FailuresMatch, QueueInv
<1>3. ASSUME NEW u \in Thread \ {t} PROVE PastWaitOf(u)'
  <2>1. PastWaitOf(u)
    BY DEF QueueInv, PastWait, PastWaitOf
  <2>2. ASSUME Running(u), Satisfied(u) PROVE Satisfied(u)'
    <3>1. Op(u).wait \subseteq Points
      BY <2>2, CurrentOp DEF QueueInv
    <3>2. ASSUME NEW w \in Op(u).wait PROVE sem'[w.s] >= w.v
      <4>1. sem[w.s] >= w.v /\ w.s \in Semaphore /\ w.v \in Nat
        BY <2>2, <3>1, <3>2 DEF Satisfied, Points
      <4>2. sem[w.s] \in Nat /\ sem'[w.s] \in Nat /\ sem[w.s] <= sem'[w.s]
        BY <4>1 DEF QueueInv, QueueTypes
      <4>3. QED
        BY <4>1, <4>2
    <3>3. QED
      BY <3>2, <1>1 DEF Satisfied
  <2>3. QED
    BY <2>1, <2>2, <1>1 DEF PastWaitOf
<1>4. PastWait'
  BY <1>3 DEF PastWait, PastWaitOf
<1>5. ASSUME NEW u \in Thread \ {t} PROVE SignallingOf(u)'
  <2>1. SignallingOf(u)
    BY DEF QueueInv, Signalling, SignallingOf
  <2>2. QED
    BY <2>1, <1>1 DEF SignallingOf
<1>6. Signalling'
  BY <1>5 DEF Signalling, SignallingOf
<1>7. ASSUME NEW u \in Thread, NEW i \in DOMAIN prog[u], NEW w \in Points, DoneBy(u, i, w)
      PROVE  DoneBy(u, i, w)'
  <2>1. CASE u = t
    BY <2>1, <1>7
  <2>2. CASE u # t
    <3>1. Signals(u, i, w)'
      BY <1>7 DEF DoneBy, Signals
    <3>2. Began(u)' <=> Began(u)
      BY <2>2, <1>1
    <3>3. QED
      BY <2>2, <3>1, <3>2, <1>7 DEF DoneBy
  <2>3. QED
    BY <2>1, <2>2
<1>8. ReachedIsDone'
  <2> SUFFICES ASSUME NEW w \in Points, Waited(w)', sem'[w.s] >= w.v
               PROVE  \E u \in Thread : \E i \in DOMAIN prog[u] : DoneBy(u, i, w)'
    BY DEF ReachedIsDone
  <2>1. Waited(w)
    BY DEF Waited
  <2>2. CASE sem[w.s] >= w.v
    <3>1. PICK u \in Thread : \E i \in DOMAIN prog[u] : DoneBy(u, i, w)
      BY <2>1, <2>2 DEF QueueInv, ReachedIsDone
    <3>2. PICK i \in DOMAIN prog[u] : DoneBy(u, i, w)
      BY <3>1
    <3>3. QED
      BY <3>1, <3>2, <1>7
  <2>3. CASE \E i \in DOMAIN prog[t] : DoneBy(t, i, w)'
    BY <2>3
  <2>4. QED
    BY <2>1, <2>2, <2>3
<1>9. QED
  BY <1>2, <1>4, <1>6, <1>8 DEF QueueInv

(* Going on with an operation. *)
LEMMA AdvancesQueue ==
  ASSUME QueueInv, NEW t \in Thread, Advances(t)
  PROVE  QueueInv'
<1>1. PICK s \in Steps \ {"wait"} : \E r : Goto(t, s, r) /\ (s = "signal" => r = Op(t).signal)
  BY DEF Advances
<1>2. PICK r : Goto(t, s, r) /\ (s = "signal" => r = Op(t).signal)
  BY <1>1
<1>3. /\ prog' = prog /\ pc' = pc /\ outcome' = outcome /\ sem' = sem
      /\ step' = [step EXCEPT ![t] = s] /\ rest' = [rest EXCEPT ![t] = r]
  BY <1>2 DEF Goto, Advances
<1>4. QueueTypes
  BY DEF QueueInv
<1>5. QueueTypes'
  BY <1>1, <1>3, <1>4 DEF QueueTypes
<1>6. /\ step'[t] = s /\ rest'[t] = r
      /\ \A u \in Thread \ {t} : step'[u] = step[u] /\ rest'[u] = rest[u]
  BY <1>3, <1>4 DEF QueueTypes
<1>7. Running(t) /\ Running(t)' /\ Op(t)' = Op(t) /\ step[t] # "signal"
  BY <1>3 DEF Advances, Running, Op
<1>8. (AllOk(t)' <=> AllOk(t)) /\ (Failed(t)' <=> Failed(t))
  BY <1>3 DEF AllOk, Failed
<1>9. (Failed(t) \/ AllOk(t))'
  BY <1>8 DEF QueueInv, FailuresMatch
<1>10. PastWaitOf(t)'
  <2>1. Satisfied(t) /\ (Op(t).kind \in Releases \/ AllOk(t))
    BY <1>7 DEF QueueInv, PastWait, FailuresMatch, Advances
  <2>2. Satisfied(t)'
    BY <2>1, <1>3, <1>7 DEF Satisfied
  <2>3. QED
    BY <2>1, <2>2, <1>7, <1>8 DEF PastWaitOf
<1>11. SignallingOf(t)'
  <2>1. Op(t).signal \in Seq(Points)
    BY <1>4, <1>7, CurrentOp
  <2>2. Len(Op(t).signal) \in Nat
    BY <2>1
  <2>3. QED
    BY <2>1, <2>2, <1>2, <1>6, <1>7 DEF SignallingOf
<1>12. ASSUME NEW i \in DOMAIN prog[t], NEW w \in Points, DoneBy(t, i, w) PROVE DoneBy(t, i, w)'
  <2>1. ~ Began(t)
    BY <1>7 DEF Began
  <2>2. Signals(t, i, w) /\ i < pc[t] /\ outcome[t][i] = "ok"
    BY <1>12, <2>1 DEF DoneBy
  <2>3. Signals(t, i, w)'
    BY <2>2, <1>3 DEF Signals
  <2>4. QED
    BY <2>2, <2>3, <1>3 DEF DoneBy
<1>13. \A x \in Semaphore : sem[x] <= sem'[x]
  <2>1. \A x \in Semaphore : sem[x] \in Nat
    BY <1>4 DEF QueueTypes
  <2>2. QED
    BY <2>1, <1>3
<1>14. QED
  BY <1>3, <1>5, <1>6, <1>9, <1>10, <1>11, <1>12, <1>13, QueueStep

(* Returning: an operation that ends keeps what its thread did before. *)
LEMMA ReturnQueue ==
  ASSUME QueueInv, NEW t \in Thread, Running(t), NEW result \in {"ok", "error", "skipped"}, Return(t, result),
         sem' = sem, result = "ok" => AllOk(t) \/ Failed(t), result = "skipped" => Failed(t),
         Began(t) => result = "ok"
  PROVE  QueueInv'
<1>1. /\ prog' = prog /\ step' = [step EXCEPT ![t] = "wait"] /\ rest' = [rest EXCEPT ![t] = <<>>]
      /\ pc' = [pc EXCEPT ![t] = @ + 1] /\ outcome' = [outcome EXCEPT ![t][pc[t]] = result]
  BY DEF Return
<1>2. QueueTypes
  BY DEF QueueInv
<1>3. pc[t] \in Nat \ {0} /\ pc[t] \in DOMAIN prog[t] /\ DOMAIN outcome[t] = DOMAIN prog[t]
      /\ DOMAIN prog[t] \subseteq Nat
  <2>1. pc[t] \in DOMAIN prog[t] /\ DOMAIN prog[t] = 1..Len(prog[t])
    BY <1>2, CurrentOp
  <2>2. Len(prog[t]) \in Nat
    <3>1. prog[t] \in Seq(Operations)
      BY <1>2 DEF QueueTypes
    <3>2. QED
      BY <3>1
  <2>3. QED
    BY <1>2, <2>1, <2>2 DEF QueueTypes
<1>4. /\ step'[t] = "wait" /\ rest'[t] = <<>> /\ pc'[t] = pc[t] + 1
      /\ outcome'[t] = [outcome[t] EXCEPT ![pc[t]] = result]
      /\ \A u \in Thread \ {t} : step'[u] = step[u] /\ rest'[u] = rest[u] /\ pc'[u] = pc[u] /\ outcome'[u] = outcome[u]
  BY <1>1, <1>2 DEF QueueTypes
<1>5. /\ DOMAIN outcome'[t] = DOMAIN prog[t] /\ outcome'[t][pc[t]] = result
      /\ \A j \in DOMAIN prog[t] : j # pc[t] => outcome'[t][j] = outcome[t][j]
  BY <1>3, <1>4
<1>6. QueueTypes'
  <2>1. pc' \in [Thread -> Nat \ {0}]
    BY <1>1, <1>2, <1>3 DEF QueueTypes
  <2>2. step' \in [Thread -> Steps]
    BY <1>1, <1>2 DEF QueueTypes, Steps
  <2>3. \A u \in Thread : DOMAIN outcome'[u] = DOMAIN prog[u]
    BY <1>4, <1>5, <1>2 DEF QueueTypes
  <2>4. DOMAIN rest' = Thread /\ DOMAIN outcome' = Thread
    BY <1>1, <1>2 DEF QueueTypes
  <2>5. \A u \in Thread : \A j \in DOMAIN prog[u] : j >= pc'[u] => outcome'[u][j] = "todo"
    <3> SUFFICES ASSUME NEW u \in Thread, NEW j \in DOMAIN prog[u], j >= pc'[u] PROVE outcome'[u][j] = "todo"
      OBVIOUS
    <3>1. CASE u # t
      BY <3>1, <1>4, <1>2 DEF QueueTypes
    <3>2. CASE u = t
      <4>1. j >= pc[t] + 1 /\ j \in Nat
        BY <3>2, <1>3, <1>4
      <4>2. j >= pc[t] /\ j # pc[t]
        BY <4>1, <1>3
      <4>3. QED
        BY <3>2, <4>2, <1>5, <1>2 DEF QueueTypes
    <3>3. QED
      BY <3>1, <3>2
  <2>6. QED
    BY <2>1, <2>2, <2>3, <2>4, <2>5, <1>1, <1>2 DEF QueueTypes
<1>7. \A j \in DOMAIN prog[t] : j < pc'[t] => j < pc[t] \/ j = pc[t]
  BY <1>3, <1>4
<1>8. (Failed(t) \/ AllOk(t))'
  <2>1. CASE result = "error"
    BY <2>1, <1>1, <1>3, <1>5 DEF Failed
  <2>2. CASE Failed(t) /\ result # "error"
    <3>1. PICK j \in DOMAIN prog[t] : outcome[t][j] = "error"
      BY <2>2 DEF Failed
    <3>2. CASE j # pc[t]
      BY <3>1, <3>2, <1>1, <1>5 DEF Failed
    <3>3. CASE j = pc[t]
      <4>1. outcome[t][j] = "todo"
        BY <3>3, <1>2, <1>3 DEF QueueTypes
      <4>2. QED
        BY <3>1, <4>1
    <3>4. QED
      BY <3>2, <3>3
  <2>3. CASE AllOk(t) /\ result = "ok"
    <3>1. AllOk(t)'
      BY <2>3, <1>1, <1>5, <1>7 DEF AllOk
    <3>2. QED
      BY <3>1
  <2>4. QED
    BY <2>1, <2>2, <2>3
<1>9. PastWaitOf(t)' /\ SignallingOf(t)'
  BY <1>4 DEF PastWaitOf, SignallingOf
<1>10. ASSUME NEW i \in DOMAIN prog[t], NEW w \in Points, DoneBy(t, i, w) PROVE DoneBy(t, i, w)'
  <2>1. Signals(t, i, w)'
    BY <1>10, <1>1 DEF DoneBy, Signals
  <2>2. i < pc'[t] /\ outcome'[t][i] = "ok"
    <3>1. CASE i < pc[t] /\ outcome[t][i] = "ok"
      <4>1. i # pc[t] /\ i < pc[t] + 1
        BY <3>1, <1>3
      <4>2. QED
        BY <3>1, <4>1, <1>4, <1>5
    <3>2. CASE i = pc[t] /\ Began(t)
      <4>1. i < pc[t] + 1
        BY <3>2, <1>3
      <4>2. QED
        BY <3>2, <4>1, <1>4, <1>5
    <3>3. QED
      BY <3>1, <3>2, <1>10 DEF DoneBy
  <2>3. QED
    BY <2>1, <2>2 DEF DoneBy
<1>11. \A x \in Semaphore : sem[x] <= sem'[x]
  <2>1. \A x \in Semaphore : sem[x] \in Nat
    BY <1>2 DEF QueueTypes
  <2>2. QED
    BY <2>1
<1>12. QED
  BY <1>1, <1>4, <1>6, <1>8, <1>9, <1>10, <1>11, QueueStep

(* A signal: what it reaches is done, by this operation or before it. *)
LEMMA SignalQueue ==
  ASSUME QueueInv, AllOrNothing, \A p \in Programs : InOrder(p), NEW t \in Thread, Signal(t)
  PROVE  QueueInv'
<1>1. QueueTypes /\ Running(t) /\ step[t] = "signal" /\ rest[t] # <<>>
  BY DEF QueueInv, Signal
<1>2. PICK g : g = Head(rest[t])
  OBVIOUS
<1>3. rest[t] \in Seq(Points) /\ Len(rest[t]) <= Len(Op(t).signal) /\ Satisfied(t)
      /\ (\A k \in DOMAIN rest[t] : \E m \in DOMAIN Op(t).signal : rest[t][k] = Op(t).signal[m])
      /\ (Op(t).kind \in Releases \/ AllOk(t))
  BY <1>1 DEF QueueInv, Signalling, PastWait
<1>4. /\ pc[t] \in DOMAIN prog[t] /\ DOMAIN prog[t] = 1..Len(prog[t]) /\ Op(t) = prog[t][pc[t]]
      /\ Op(t).wait \subseteq Points /\ Op(t).signal \in Seq(Points)
  BY <1>1, CurrentOp
<1>5. PICK q \in Seq(Points) : q = rest[t]
  BY <1>3
<1>6. /\ g \in Points /\ g = q[1] /\ 1 \in DOMAIN q
      /\ Tail(q) \in Seq(Points) /\ Len(Tail(q)) = Len(q) - 1 /\ Len(q) \in Nat
      /\ \A k \in DOMAIN Tail(q) : k + 1 \in DOMAIN q /\ Tail(q)[k] = q[k + 1]
  BY <1>1, <1>2, <1>5
<1>7. g.s \in Semaphore /\ g.v \in Nat /\ sem[g.s] \in Nat
  BY <1>6, <1>1 DEF Points, QueueTypes
<1>8. CASE sem[g.s] < g.v
  <2>1. sem' = [sem EXCEPT ![g.s] = g.v] /\ Goto(t, "signal", Tail(q))
    BY <1>8, <1>2, <1>5 DEF Signal
  <2>2. /\ prog' = prog /\ pc' = pc /\ outcome' = outcome
        /\ step' = [step EXCEPT ![t] = "signal"] /\ rest' = [rest EXCEPT ![t] = Tail(q)]
    BY <2>1 DEF Goto
  <2>3. /\ step'[t] = "signal" /\ rest'[t] = Tail(q)
        /\ \A u \in Thread \ {t} : step'[u] = step[u] /\ rest'[u] = rest[u]
    BY <2>2, <1>1 DEF QueueTypes
  <2>4. sem' \in [Semaphore -> Nat] /\ sem'[g.s] = g.v /\ \A s \in Semaphore \ {g.s} : sem'[s] = sem[s]
    BY <2>1, <1>1, <1>7 DEF QueueTypes
  <2>5. QueueTypes'
    BY <2>2, <2>4, <1>1 DEF QueueTypes, Steps
  <2>6. \A s \in Semaphore : sem[s] <= sem'[s]
    <3>1. \A s \in Semaphore : sem[s] \in Nat
      BY <1>1 DEF QueueTypes
    <3>2. QED
      BY <3>1, <2>4, <1>7, <1>8
  <2>7. Running(t)' /\ Op(t)' = Op(t)
    BY <2>2, <1>1 DEF Running, Op
  <2>8. (AllOk(t)' <=> AllOk(t)) /\ (Failed(t)' <=> Failed(t))
    BY <2>2 DEF AllOk, Failed
  <2>9. (Failed(t) \/ AllOk(t))'
    BY <2>8 DEF QueueInv, FailuresMatch
  <2>10. PastWaitOf(t)'
    <3>1. ASSUME NEW w \in Op(t).wait PROVE sem'[w.s] >= w.v
      <4>1. w.s \in Semaphore /\ w.v \in Nat /\ sem[w.s] >= w.v
        BY <1>3, <1>4, <3>1 DEF Points, Satisfied
      <4>2. sem[w.s] \in Nat /\ sem'[w.s] \in Nat /\ sem[w.s] <= sem'[w.s]
        BY <4>1, <2>4, <2>6, <1>1 DEF QueueTypes
      <4>3. QED
        BY <4>1, <4>2
    <3>2. Satisfied(t)'
      BY <3>1, <2>7 DEF Satisfied
    <3>3. QED
      BY <3>2, <1>3, <2>7, <2>8 DEF PastWaitOf
  <2>11. Len(Op(t).signal) \in Nat /\ Len(Tail(q)) < Len(Op(t).signal) /\ Len(Tail(q)) <= Len(Op(t).signal)
    <3>1. Len(Op(t).signal) \in Nat
      BY <1>4
    <3>2. QED
      BY <3>1, <1>3, <1>5, <1>6
  <2>12. SignallingOf(t)'
    <3>1. \A k \in DOMAIN Tail(q) : \E m \in DOMAIN Op(t).signal : Tail(q)[k] = Op(t).signal[m]
      BY <1>3, <1>5, <1>6
    <3>2. QED
      BY <3>1, <2>3, <2>7, <2>11, <1>6 DEF SignallingOf
  <2>13. Began(t)'
    BY <2>3, <2>7, <2>11 DEF Began
  <2>14. ASSUME NEW i \in DOMAIN prog[t], NEW w \in Points, DoneBy(t, i, w) PROVE DoneBy(t, i, w)'
    <3>1. Signals(t, i, w)'
      BY <2>14, <2>2 DEF DoneBy, Signals
    <3>2. QED
      BY <3>1, <2>2, <2>13, <2>14 DEF DoneBy
  <2>15. ASSUME NEW w \in Points, Waited(w), sem'[w.s] >= w.v, ~ (sem[w.s] >= w.v)
         PROVE  \E i \in DOMAIN prog[t] : DoneBy(t, i, w)'
    <3>1. w.s = g.s /\ w.v <= g.v /\ w.v \in Nat
      <4>1. w.s \in Semaphore /\ w.v \in Nat
        BY DEF Points
      <4>2. w.s = g.s
        BY <4>1, <2>4, <2>15
      <4>3. QED
        BY <4>1, <4>2, <2>4, <2>15, <1>7
    <3>2. PICK m \in DOMAIN Op(t).signal : g = Op(t).signal[m]
      BY <1>3, <1>5, <1>6
    <3>3. \/ \E n \in DOMAIN Op(t).signal : Op(t).signal[n] = w
          \/ \E x \in Op(t).wait : x.s = w.s /\ w.v <= x.v
          \/ /\ Op(t).kind \notin Releases
             /\ \E l \in 1..(pc[t] - 1) : \E n \in DOMAIN prog[t][l].signal : prog[t][l].signal[n] = w
      <4>1. InOrder(prog)
        BY <1>1 DEF QueueTypes
      <4>2. PICK u \in Thread : \E i \in DOMAIN prog[u] : w \in prog[u][i].wait
        BY <2>15 DEF Waited
      <4>3. PICK i \in DOMAIN prog[u] : w \in prog[u][i].wait
        BY <4>2
      <4>4. OrderedSignals(prog, t, pc[t], w)
        <5>1. \A v \in Thread : \A j \in DOMAIN prog[v] : OrderedSignals(prog, v, j, w)
          BY <4>1, <4>3 DEF InOrder
        <5>2. QED
          BY <5>1, <1>4
      <4>5. QED
        <5>1. Op(t) = prog[t][pc[t]]
          BY <1>4
        <5>2. m \in DOMAIN prog[t][pc[t]].signal /\ g = prog[t][pc[t]].signal[m]
          BY <3>2, <5>1
        <5>3. QED
          BY <4>4, <3>1, <5>1, <5>2 DEF OrderedSignals
    <3>4. CASE \E n \in DOMAIN Op(t).signal : Op(t).signal[n] = w
      <4>1. Signals(t, pc[t], w)
        BY <3>4, <1>4 DEF Signals
      <4>2. PICK i \in DOMAIN prog[t] : i = pc[t]
        BY <1>4
      <4>3. Signals(t, i, w)'
        BY <4>1, <4>2, <2>2 DEF Signals
      <4>4. DoneBy(t, i, w)'
        BY <4>2, <4>3, <2>2, <2>13 DEF DoneBy
      <4>5. QED
        BY <4>4
    <3>5. CASE \E x \in Op(t).wait : x.s = w.s /\ w.v <= x.v
      <4>1. PICK x \in Op(t).wait : x.s = w.s /\ w.v <= x.v
        BY <3>5
      <4>2. x \in Points /\ sem[x.s] >= x.v
        BY <4>1, <1>3, <1>4 DEF Satisfied
      <4>3. x.v \in Nat /\ sem[x.s] \in Nat
        BY <4>2, <1>1 DEF Points, QueueTypes
      <4>4. sem[w.s] >= w.v
        BY <4>1, <4>2, <4>3, <3>1
      <4>5. QED
        BY <4>4, <2>15
    <3>6. CASE /\ Op(t).kind \notin Releases
               /\ \E l \in 1..(pc[t] - 1) : \E n \in DOMAIN prog[t][l].signal : prog[t][l].signal[n] = w
      <4>1. PICK l \in 1..(pc[t] - 1) : \E n \in DOMAIN prog[t][l].signal : prog[t][l].signal[n] = w
        BY <3>6
      <4>2. pc[t] \in Nat /\ pc[t] \in 1..Len(prog[t])
        BY <1>4, <1>1 DEF QueueTypes
      <4>3. Len(prog[t]) \in Nat
        <5>1. prog[t] \in Seq(Operations)
          BY <1>1 DEF QueueTypes
        <5>2. QED
          BY <5>1
      <4>4. l \in DOMAIN prog[t] /\ l < pc[t]
        BY <4>1, <4>2, <4>3, <1>4
      <4>5. outcome[t][l] = "ok"
        BY <4>4, <3>6, <1>3 DEF AllOk
      <4>6. Signals(t, l, w)'
        BY <4>1, <2>2 DEF Signals
      <4>7. DoneBy(t, l, w)'
        BY <4>4, <4>5, <4>6, <2>2 DEF DoneBy
      <4>8. QED
        BY <4>4, <4>7
    <3>7. QED
      BY <3>3, <3>4, <3>5, <3>6
  <2>16. QED
    BY <2>2, <2>3, <2>5, <2>6, <2>9, <2>10, <2>12, <2>14, <2>15, QueueStep
<1>9. CASE ~ (sem[g.s] < g.v)
  <2>1. Return(t, "error") /\ sem' = sem
    BY <1>9, <1>2 DEF Signal, ReturnError
  <2>2. ~ Began(t)
    BY <1>9, <1>1, <1>2 DEF AllOrNothing
  <2>3. QED
    BY <2>1, <2>2, <1>1, ReturnQueue
<1>10. QED
  BY <1>8, <1>9

(* At the beginning nothing was signalled. *)
LEMMA InitQueue ==
  ASSUME \A p \in Programs : InOrder(p), Init
  PROVE  QueueInv
<1>1. /\ prog \in Programs /\ sem = [s \in Semaphore |-> 0] /\ pc = [t \in Thread |-> 1]
      /\ step = [t \in Thread |-> "wait"] /\ rest = [t \in Thread |-> <<>>]
      /\ outcome = [t \in Thread |-> [i \in DOMAIN prog[t] |-> "todo"]]
  BY DEF Init
<1>2. QueueTypes
  BY <1>1, ProgramsAssumption DEF QueueTypes, Steps
<1>3. FailuresMatch
  <2>1. ASSUME NEW t \in Thread, NEW j \in DOMAIN prog[t] PROVE ~ (j < pc[t])
    <3>1. prog[t] \in Seq(Operations)
      BY <1>2 DEF QueueTypes
    <3>2. j \in 1..Len(prog[t]) /\ Len(prog[t]) \in Nat
      BY <3>1
    <3>3. QED
      BY <3>2, <1>1
  <2>2. QED
    BY <2>1 DEF FailuresMatch, AllOk
<1>4. PastWait /\ Signalling
  BY <1>1 DEF PastWait, Signalling
<1>5. ReachedIsDone
  <2> SUFFICES ASSUME NEW w \in Points, Waited(w), sem[w.s] >= w.v PROVE FALSE
    BY DEF ReachedIsDone
  <2>1. PICK u \in Thread : \E i \in DOMAIN prog[u] : w \in prog[u][i].wait
    BY DEF Waited
  <2>2. PICK i \in DOMAIN prog[u] : w \in prog[u][i].wait
    BY <2>1
  <2>3. w.v > 0
    BY <2>1, <2>2, <1>1 DEF InOrder
  <2>4. w.s \in Semaphore /\ w.v \in Nat /\ sem[w.s] = 0
    BY <1>1 DEF Points
  <2>5. QED
    BY <2>3, <2>4
<1>6. QED
  BY <1>2, <1>3, <1>4, <1>5 DEF QueueInv

(* Every step keeps it. *)
LEMMA NextQueue ==
  ASSUME \A p \in Programs : InOrder(p)
  PROVE  QueueInv /\ AllOrNothing /\ [Next]_vars => QueueInv'
<1> SUFFICES ASSUME QueueInv, AllOrNothing, [Next]_vars PROVE QueueInv'
  OBVIOUS
<1>1. CASE Stays
  <2>1. UNCHANGED <<prog, pc, step, rest, outcome, sem>>
    BY <1>1 DEF Stays
  <2>2. QueueTypes' /\ FailuresMatch' /\ PastWait' /\ Signalling'
    BY <2>1 DEF QueueInv, QueueTypes, FailuresMatch, PastWait, Signalling, Failed, AllOk, Running, Satisfied, Op
  <2>3. ReachedIsDone'
    <3>1. \A w : Waited(w)' <=> Waited(w)
      BY <2>1 DEF Waited
    <3>2. \A u, i, w : DoneBy(u, i, w)' <=> DoneBy(u, i, w)
      BY <2>1 DEF DoneBy, Signals, Began, Running, Op
    <3>3. ReachedIsDone
      BY DEF QueueInv
    <3>4. QED
      BY <3>1, <3>2, <3>3, <2>1 DEF ReachedIsDone
  <2>4. QED
    BY <2>2, <2>3 DEF QueueInv
<1>2. ASSUME NEW t \in Thread, ThreadStep(t) PROVE QueueInv'
  <2>1. CASE Advances(t)
    BY <2>1, AdvancesQueue
  <2>2. CASE Returns(t)
    <3>1. Running(t) /\ sem' = sem /\ ~ Began(t)
      BY <2>2 DEF Returns, Began
    <3>2. CASE Return(t, "error")
      BY <3>1, <3>2, ReturnQueue
    <3>3. CASE Failed(t) /\ Return(t, "skipped")
      BY <3>1, <3>3, ReturnQueue
    <3>4. QED
      BY <3>2, <3>3, <2>2 DEF Returns
  <2>3. CASE Signal(t)
    BY <2>3, SignalQueue
  <2>4. CASE Finish(t)
    <3>1. Running(t) /\ Return(t, "ok") /\ sem' = sem
      BY <2>4 DEF Finish
    <3>2. AllOk(t) \/ Failed(t)
      BY DEF QueueInv, FailuresMatch
    <3>3. QED
      BY <3>1, <3>2, ReturnQueue
  <2>5. QED
    BY <1>2, <1>1, <2>1, <2>2, <2>3, <2>4, ThreadStepKinds
<1>3. ASSUME NEW f \in Fd, Evict(f) PROVE QueueInv'
  BY <1>1, <1>3 DEF Evict, qVars, Stays
<1>4. CASE DspCrash
  BY <1>1, <1>4 DEF DspCrash, Stays
<1>5. CASE vars' = vars
  BY <1>1, <1>5 DEF vars, qVars, Stays
<1>6. QED
  BY <1>2, <1>3, <1>4, <1>5 DEF Next

(* iree_hal_semaphore_list_wait and _signal around every queue operation: for programs whose
   timelines are in order, an operation past its wait finds the work it waited for done
   without an error, if no operation fails with some of its semaphores signalled. *)
THEOREM WaitedForWorkIsDoneHolds ==
  ASSUME \A p \in Programs : InOrder(p)
  PROVE  Spec /\ []AllOrNothing => []WaitedForWorkIsDone
<1>1. Init => QueueInv
  BY InitQueue
<1>2. QueueInv /\ AllOrNothing /\ [Next]_vars => QueueInv'
  BY NextQueue
<1>3. QueueInv => WaitedForWorkIsDone
  <2> SUFFICES ASSUME QueueInv, NEW t \in Thread, Running(t), step[t] # "wait", NEW w \in Op(t).wait
               PROVE  \E u \in Thread : \E i \in DOMAIN prog[u] :
                        /\ Signals(u, i, w)
                        /\ outcome[u][i] = "ok" \/ (pc[u] = i /\ step[u] = "signal")
    BY DEF WaitedForWorkIsDone
  <2>1. /\ pc[t] \in DOMAIN prog[t] /\ Op(t) = prog[t][pc[t]] /\ Op(t).wait \subseteq Points
    BY CurrentOp DEF QueueInv
  <2>2. w \in Points /\ Waited(w) /\ sem[w.s] >= w.v
    BY <2>1 DEF QueueInv, PastWait, Satisfied, Waited
  <2>3. PICK u \in Thread : \E i \in DOMAIN prog[u] : DoneBy(u, i, w)
    BY <2>2 DEF QueueInv, ReachedIsDone
  <2>4. QED
    BY <2>3 DEF DoneBy, Began
<1>4. QED
  BY <1>1, <1>2, <1>3, PTL DEF Spec

(* Callers whose operations signal one semaphore each need no such condition. *)
THEOREM SingleSignalsHold ==
  ASSUME \A p \in Programs : InOrder(p),
         \A p \in Programs : \A t \in Thread : \A i \in DOMAIN p[t] : Len(p[t][i].signal) <= 1
  PROVE  Spec => []WaitedForWorkIsDone
<1>1. QueueInv => AllOrNothing
  <2> SUFFICES ASSUME QueueInv, NEW t \in Thread, Began(t), rest[t] # <<>> PROVE FALSE
    BY DEF AllOrNothing
  <2>1. Running(t) /\ step[t] = "signal" /\ Len(rest[t]) < Len(Op(t).signal)
    BY DEF Began
  <2>2. pc[t] \in DOMAIN prog[t] /\ Op(t) = prog[t][pc[t]] /\ Op(t).signal \in Seq(Points)
    BY <2>1, CurrentOp DEF QueueInv
  <2>3. Len(Op(t).signal) <= 1 /\ Len(Op(t).signal) \in Nat
    BY <2>2 DEF QueueInv, QueueTypes
  <2>4. rest[t] \in Seq(Points) /\ Len(rest[t]) \in Nat
    BY <2>1 DEF QueueInv, Signalling
  <2>5. Len(rest[t]) = 0
    BY <2>1, <2>3, <2>4
  <2>6. QED
    BY <2>4, <2>5
<1>2. Init => QueueInv
  BY InitQueue
<1>3. QueueInv /\ AllOrNothing /\ [Next]_vars => QueueInv'
  BY NextQueue
<1>4. Spec => []AllOrNothing
  BY <1>1, <1>2, <1>3, PTL DEF Spec
<1>5. Spec /\ []AllOrNothing => []WaitedForWorkIsDone
  BY WaitedForWorkIsDoneHolds
<1>6. QED
  BY <1>4, <1>5, PTL
----------------------------------------------------------------------------
(* What is allocated is given back. *)

GivesBack(op, b) == op.kind \in {"release", "dealloca"} /\ op.buf = b
Retires(op, c) == op.kind = "releaseCmdBuf" /\ op.cmdBuf = c

\* A program gives back what it takes: a buffer that a caller allocates it later releases or
\* deallocates, and a command buffer is recorded by one operation and released only by later
\* ones of the same caller, at least one.
Balanced(p) ==
  \A t \in Thread : \A i \in DOMAIN p[t] :
    /\ p[t][i].kind = "alloca" => \E j \in DOMAIN p[t] : j > i /\ GivesBack(p[t][j], p[t][i].buf)
    /\ p[t][i].kind = "record" =>
         /\ \E j \in DOMAIN p[t] : j > i /\ Retires(p[t][j], p[t][i].cmdBuf)
         /\ \A u \in Thread : \A j \in DOMAIN p[u] :
              /\ Retires(p[u][j], p[t][i].cmdBuf) => u = t /\ j > i
              /\ p[u][j].kind = "record" /\ p[u][j].cmdBuf = p[t][i].cmdBuf => u = t /\ j = i

\* A caller that failed, which calls queue_dealloca no more, has no buffer that it would have
\* deallocated. (What it releases it gives back all the same.)
DeallocatesAll ==
  \A t \in Thread : Running(t) /\ step[t] = "wait" /\ Failed(t) /\ Op(t).kind = "dealloca" =>
    ~Usable(Op(t).buf)

\* Operation j of thread t has not done its work.
Ahead(t, j) == j > pc[t] \/ (j = pc[t] /\ step[t] \in {"wait", "work"})

\* What the operation of thread t destroys.
Mine(t) == IF Op(t).kind = "releaseCmdBuf" THEN cmdBuf[Op(t).cmdBuf].held ELSE {Op(t).buf}

\* The caller of a buffer is still to give it back; a command buffer is still to be released,
\* or being released; a thread is freeing a buffer.
GivenBackLater(b) ==
  \E t \in Thread : \E j \in DOMAIN prog[t] : GivesBack(prog[t][j], b) /\ Ahead(t, j)
RetiredLater(c) ==
  \E t \in Thread : \E j \in DOMAIN prog[t] :
    Retires(prog[t][j], c) /\ (Ahead(t, j) \/ (j = pc[t] /\ step[t] = "free"))
FreedBy(t, b) == Running(t) /\ step[t] = "free" /\ b \in Mine(t)

\* A live buffer has the references of its command buffers, and one more until its caller
\* gives it back.
Owned ==
  \A b \in Buffer : stage[b] = "live" =>
    \/ refs[b] = Cardinality(Holders(b))
    \/ refs[b] = Cardinality(Holders(b)) + 1 /\ GivenBackLater(b)
Retained == \A c \in CmdBuf : cmdBuf[c].held # {} => RetiredLater(c)
\* Whatever is destroyed and not freed yet is being freed by a thread; nothing is leaked.
BeingFreed ==
  \A b \in Buffer :
    /\ stage[b] # "leaked"
    /\ stage[b] \in {"dying", "forgotten", "unmapped"} => \E t \in Thread : FreedBy(t, b)

\* The inductive invariant, beside Inv, for programs that give back what they take.
Returned == Balanced(prog) /\ Owned /\ Retained /\ BeingFreed

(* Where a thread is in its program. *)
LEMMA Indices ==
  ASSUME Types, NEW t \in Thread
  PROVE  /\ pc[t] \in Nat \ {0} /\ DOMAIN prog[t] \subseteq Nat
         /\ Running(t) => pc[t] \in DOMAIN prog[t] /\ Op(t) = prog[t][pc[t]]
<1>1. prog[t] \in Seq(Operations) /\ pc[t] \in Nat \ {0}
  BY ProgramsAssumption DEF Types
<1>2. DOMAIN prog[t] = 1..Len(prog[t]) /\ Len(prog[t]) \in Nat
  BY <1>1
<1>3. QED
  BY <1>1, <1>2 DEF Running, Op

\* The thread is before the work of an operation that gives something back.
Works(t) ==
  /\ step[t] \in {"wait", "work"}
  /\ \/ Op(t).kind = "releaseCmdBuf"
     \/ Op(t).kind \in {"release", "dealloca"} /\ Usable(Op(t).buf)

(* A step of a thread leaves what is ahead of it ahead, but for the operation it is in. *)
LEMMA AheadStays ==
  ASSUME Types, NEW t \in Thread, Running(t),
         \/ \E s \in Steps : \E r : Goto(t, s, r) /\ (Works(t) => s = "work")
         \/ \E res : Return(t, res) /\ ~Works(t)
  PROVE  /\ Moves(t)
         /\ \A j \in DOMAIN prog[t] : Ahead(t, j) => Ahead(t, j)' \/ (j = pc[t] /\ ~Works(t))
         /\ \A u \in Thread \ {t} : \A j : Ahead(u, j)' <=> Ahead(u, j)
<1>0. pc[t] \in Nat \ {0} /\ DOMAIN prog[t] \subseteq Nat
  BY Indices
<1>1. ASSUME NEW s \in Steps, NEW r, Goto(t, s, r), Works(t) => s = "work"
      PROVE  /\ Moves(t)
             /\ \A j \in DOMAIN prog[t] : Ahead(t, j) => Ahead(t, j)' \/ (j = pc[t] /\ ~Works(t))
  <2>1. Moves(t) /\ step'[t] = s /\ pc' = pc
    BY <1>1, GotoMoves
  <2>2. QED
    BY <2>1, <1>1 DEF Ahead
<1>2. ASSUME NEW res, Return(t, res), ~Works(t)
      PROVE  /\ Moves(t)
             /\ \A j \in DOMAIN prog[t] : Ahead(t, j) => Ahead(t, j)' \/ (j = pc[t] /\ ~Works(t))
  <2>1. Moves(t) /\ step'[t] = "wait"
    BY <1>2, ReturnMoves
  <2>2. pc'[t] = pc[t] + 1
    BY <1>2 DEF Return, Types
  <2>3. \A j \in Nat : j > pc[t] => j > pc[t] + 1 \/ j = pc[t] + 1
    BY <1>0
  <2>4. QED
    BY <1>0, <1>2, <2>1, <2>2, <2>3 DEF Ahead
<1>3. Moves(t)
  BY <1>1, <1>2
<1>4. \A u \in Thread \ {t} : \A j : Ahead(u, j)' <=> Ahead(u, j)
  BY <1>3 DEF Moves, Ahead
<1>5. QED
  BY <1>1, <1>2, <1>3, <1>4

(* So what is given back later still is, but for what the thread gives back now. *)
LEMMA LaterStays ==
  ASSUME Types, NEW t \in Thread, Moves(t), Running(t),
         \A u \in Thread \ {t} : \A j : Ahead(u, j)' <=> Ahead(u, j)
  PROVE  /\ \A b : /\ GivenBackLater(b)
                   /\ \A j \in DOMAIN prog[t] : GivesBack(prog[t][j], b) /\ Ahead(t, j) => Ahead(t, j)'
                   => GivenBackLater(b)'
         /\ \A c : /\ RetiredLater(c)
                   /\ \A j \in DOMAIN prog[t] : Retires(prog[t][j], c) /\ (Ahead(t, j) \/ (j = pc[t] /\ step[t] = "free"))
                         => (Ahead(t, j) \/ (j = pc[t] /\ step[t] = "free"))'
                   => RetiredLater(c)'
<1>1. prog' = prog /\ \A u \in Thread \ {t} : pc'[u] = pc[u] /\ step'[u] = step[u]
  BY DEF Moves
<1>2. ASSUME NEW b, GivenBackLater(b),
             \A j \in DOMAIN prog[t] : GivesBack(prog[t][j], b) /\ Ahead(t, j) => Ahead(t, j)'
      PROVE  GivenBackLater(b)'
  <2>0. PICK u \in Thread : \E j \in DOMAIN prog[u] : GivesBack(prog[u][j], b) /\ Ahead(u, j)
    BY <1>2 DEF GivenBackLater
  <2>1. PICK j \in DOMAIN prog[u] : GivesBack(prog[u][j], b) /\ Ahead(u, j)
    BY <2>0
  <2>2. Ahead(u, j)'
    BY <2>1, <1>2
  <2>3. GivesBack(prog[u][j], b)' /\ j \in DOMAIN prog'[u]
    BY <2>1, <1>1 DEF GivesBack
  <2>4. QED
    BY <2>2, <2>3 DEF GivenBackLater
<1>3. ASSUME NEW c, RetiredLater(c),
             \A j \in DOMAIN prog[t] : Retires(prog[t][j], c) /\ (Ahead(t, j) \/ (j = pc[t] /\ step[t] = "free"))
                         => (Ahead(t, j) \/ (j = pc[t] /\ step[t] = "free"))'
      PROVE  RetiredLater(c)'
  <2>0. PICK u \in Thread : \E j \in DOMAIN prog[u] :
          Retires(prog[u][j], c) /\ (Ahead(u, j) \/ (j = pc[u] /\ step[u] = "free"))
    BY <1>3 DEF RetiredLater
  <2>1. PICK j \in DOMAIN prog[u] :
          Retires(prog[u][j], c) /\ (Ahead(u, j) \/ (j = pc[u] /\ step[u] = "free"))
    BY <2>0
  <2>2. (Ahead(u, j) \/ (j = pc[u] /\ step[u] = "free"))'
    BY <2>1, <1>1, <1>3
  <2>3. Retires(prog[u][j], c)' /\ j \in DOMAIN prog'[u]
    BY <2>1, <1>1 DEF Retires
  <2>4. QED
    BY <2>2, <2>3 DEF RetiredLater
<1>4. QED
  BY <1>2, <1>3

(* Another thread that frees a buffer goes on. *)
LEMMA FreedStays ==
  ASSUME Types, NEW t \in Thread, Moves(t), NEW u \in Thread \ {t}, NEW b, FreedBy(u, b),
         Op(u).kind = "releaseCmdBuf" => cmdBuf[Op(u).cmdBuf].held \subseteq cmdBuf'[Op(u).cmdBuf].held
  PROVE  FreedBy(u, b)'
<1>1. Op(u)' = Op(u) /\ (Running(u)' <=> Running(u)) /\ step'[u] = step[u]
  BY MovesFrame DEF Moves
<1>2. b \in Mine(u)'
  BY <1>1 DEF FreedBy, Mine
<1>3. QED
  BY <1>1, <1>2 DEF FreedBy

(* Steps that leave references and retained buffers alone and free nothing. *)
LEMMA QuietReturned ==
  ASSUME Inv, Returned, NEW t \in Thread, Running(t), step[t] # "free",
         \/ \E s \in Steps \ {"free"} : \E r : Goto(t, s, r) /\ (Works(t) => s = "work")
         \/ \E res : Return(t, res) /\ ~Works(t),
         refs' = refs, stage' = stage, \A c \in CmdBuf : cmdBuf'[c].held = cmdBuf[c].held
  PROVE  Returned'
<1>0. Types /\ pc[t] \in DOMAIN prog[t] /\ Op(t) = prog[t][pc[t]]
  BY Indices DEF Inv
<1>1. /\ Moves(t)
      /\ \A j \in DOMAIN prog[t] : Ahead(t, j) => Ahead(t, j)' \/ (j = pc[t] /\ ~Works(t))
      /\ \A u \in Thread \ {t} : \A j : Ahead(u, j)' <=> Ahead(u, j)
  BY <1>0, AheadStays
<1>2. step'[t] # "free"
  BY <1>0, GotoMoves, ReturnMoves
<1>3. \A b : Holders(b)' = Holders(b)
  <2>1. ~At(t, "releaseCmdBuf", "free") /\ ~At(t, "releaseCmdBuf", "free")'
    BY <1>2 DEF At
  <2>2. \A c : Releasing(c)' <=> Releasing(c)
    BY <1>1, <2>1, MovesFrame
  <2>3. QED
    BY <2>2 DEF Holders
<1>4. Owned'
  <2> SUFFICES ASSUME NEW b \in Buffer, stage[b] = "live", GivenBackLater(b) PROVE GivenBackLater(b)'
    BY <1>3 DEF Returned, Owned
  <2>1. ASSUME NEW j \in DOMAIN prog[t], GivesBack(prog[t][j], b), Ahead(t, j) PROVE Ahead(t, j)'
    <3>1. j = pc[t] => Works(t)
      BY <1>0, <2>1, Indices DEF Works, GivesBack, Ahead, Usable
    <3>2. QED
      BY <1>1, <2>1, <3>1
  <2>2. QED
    BY <1>0, <1>1, <2>1, LaterStays
<1>5. Retained'
  <2> SUFFICES ASSUME NEW c \in CmdBuf, RetiredLater(c) PROVE RetiredLater(c)'
    BY DEF Returned, Retained
  <2>1. ASSUME NEW j \in DOMAIN prog[t], Retires(prog[t][j], c), Ahead(t, j) PROVE Ahead(t, j)'
    <3>1. j = pc[t] => Works(t)
      BY <1>0, <2>1, Indices DEF Works, Retires, Ahead
    <3>2. QED
      BY <1>1, <2>1, <3>1
  <2>2. QED
    BY <1>0, <1>1, <2>1, LaterStays
<1>6. BeingFreed'
  <2> SUFFICES ASSUME NEW b \in Buffer, NEW u \in Thread, FreedBy(u, b) PROVE FreedBy(u, b)'
    BY DEF Returned, BeingFreed
  <2>1. u # t
    BY DEF FreedBy
  <2>2. Op(u).kind = "releaseCmdBuf" => Op(u).cmdBuf \in CmdBuf
    BY <1>0, OpType DEF FreedBy
  <2>3. QED
    BY <1>0, <1>1, <2>1, <2>2, FreedStays
<1>7. Balanced(prog)'
  BY <1>1 DEF Moves, Returned, Balanced, GivesBack, Retires
<1>8. QED
  BY <1>4, <1>5, <1>6, <1>7 DEF Returned

(* The steps that only move a caller. *)
LEMMA MovesReturned ==
  ASSUME Inv, Returned, DeallocatesAll, NEW t \in Thread,
         \/ Wait(t) \/ Skip(t) \/ Signal(t) \/ Finish(t) \/ CreateCmdBuf(t) \/ EndCmdBuf(t)
         \/ SerializeBindings(t) \/ CommandAcquires(t) \/ ExecuteReturns(t)
  PROVE  Returned'
<1>0. Types /\ RestOf(t)
  BY DEF Inv, RestMatches
<1>1. CASE Wait(t)
  <2>1. Running(t) /\ step[t] = "wait" /\ refs' = refs /\ stage' = stage /\ cmdBuf' = cmdBuf
    BY <1>1 DEF Wait, memVars
  <2>2. PICK op : op = Op(t)
    OBVIOUS
  <2>3. /\ op.kind \in {"alloca", "dealloca", "release", "record", "execute", "releaseCmdBuf"}
        /\ op.kind = "record" => Goto(t, "create", op.cmds)
        /\ op.kind = "execute" => Goto(t, "signal", op.signal) \/ Goto(t, "serialize", <<>>)
        /\ op.kind \notin {"record", "execute"} => Goto(t, "work", <<>>)
    <3>1. op \in Operations
      BY <1>0, <2>1, <2>2, OpType
    <3>2. QED
      BY <1>1, <2>2, <3>1 DEF Wait, Operations
  <2>4. \E s \in Steps \ {"free"} : \E r : Goto(t, s, r) /\ (Works(t) => s = "work")
    BY <2>2, <2>3 DEF Works, Steps
  <2>5. QED
    BY <2>1, <2>4, QuietReturned
<1>2. CASE Skip(t)
  <2>1. /\ Running(t) /\ step[t] = "wait" /\ refs' = refs /\ stage' = stage /\ cmdBuf' = cmdBuf
        /\ Return(t, "skipped") /\ Failed(t) /\ Op(t).kind \notin Releases
    BY <1>2 DEF Skip, memVars
  <2>2. ~Works(t)
    BY <2>1 DEF Works, DeallocatesAll, Releases
  <2>3. QED
    BY <2>1, <2>2, QuietReturned
<1>3. CASE Signal(t) \/ Finish(t)
  <2>1. /\ Running(t) /\ step[t] = "signal" /\ refs' = refs /\ stage' = stage /\ cmdBuf' = cmdBuf
        /\ \/ \E r : Goto(t, "signal", r)
           \/ \E res : Return(t, res)
    BY <1>3 DEF Signal, Finish, memVars, ReturnError
  <2>2. ~Works(t)
    BY <2>1 DEF Works
  <2>3. \/ \E s \in Steps \ {"free"} : \E r : Goto(t, s, r) /\ (Works(t) => s = "work")
        \/ \E res : Return(t, res) /\ ~Works(t)
    BY <2>1, <2>2 DEF Steps
  <2>4. QED
    BY <2>1, <2>3, QuietReturned
<1>4. CASE CreateCmdBuf(t) \/ EndCmdBuf(t)
  <2>1. /\ Running(t) /\ step[t] \in {"create", "record"} /\ refs' = refs /\ stage' = stage
        /\ Op(t).kind = "record"
        /\ \/ \E s \in {"record", "signal"} : \E r : Goto(t, s, r)
           \/ \E res : Return(t, res)
    BY <1>4 DEF CreateCmdBuf, EndCmdBuf, memVars, ReturnError, At
  <2>2. PICK c \in CmdBuf : c = Op(t).cmdBuf
    BY <1>0, <2>1, OpType
  <2>3. \/ cmdBuf' = cmdBuf \/ cmdBuf' = [cmdBuf EXCEPT ![c].made = TRUE]
        \/ cmdBuf' = [cmdBuf EXCEPT ![c].dsp = TRUE]
    BY <1>4, <2>2 DEF CreateCmdBuf, EndCmdBuf
  <2>4. \A d \in CmdBuf : cmdBuf[d] \in CmdBufs
    BY <1>0 DEF Types
  <2>5. \A d \in CmdBuf : cmdBuf'[d].held = cmdBuf[d].held
    BY <1>0, <2>3, <2>4 DEF CmdBufs, Types
  <2>6. ~Works(t)
    BY <2>1 DEF Works
  <2>7. \/ \E s \in Steps \ {"free"} : \E r : Goto(t, s, r) /\ (Works(t) => s = "work")
        \/ \E res : Return(t, res) /\ ~Works(t)
    BY <2>1, <2>6 DEF Steps
  <2>8. QED
    BY <2>1, <2>5, <2>7, QuietReturned
<1>5. CASE SerializeBindings(t) \/ CommandAcquires(t) \/ ExecuteReturns(t)
  <2>1. /\ Running(t) /\ step[t] \in {"serialize", "rpc"} /\ refs' = refs /\ stage' = stage /\ cmdBuf' = cmdBuf
    BY <1>5 DEF SerializeBindings, CommandAcquires, ExecuteReturns, DspAcquire, At, memVars
  <2>2. \/ \E s \in {"rpc", "signal"} : \E r : Goto(t, s, r)
        \/ \E res : Return(t, res)
    <3>1. CASE SerializeBindings(t)
      BY <3>1 DEF SerializeBindings, ReturnError
    <3>2. CASE CommandAcquires(t)
      BY <3>2 DEF CommandAcquires
    <3>3. CASE ExecuteReturns(t)
      BY <3>3 DEF ExecuteReturns, ReturnError
    <3>4. QED
      BY <1>5, <3>1, <3>2, <3>3
  <2>3. ~Works(t)
    BY <2>1 DEF Works
  <2>4. \/ \E s \in Steps \ {"free"} : \E r : Goto(t, s, r) /\ (Works(t) => s = "work")
        \/ \E res : Return(t, res) /\ ~Works(t)
    BY <2>2, <2>3 DEF Steps
  <2>5. QED
    BY <2>1, <2>4, QuietReturned
<1>6. QED
  BY <1>1, <1>2, <1>3, <1>4, <1>5

(* Steps of the DSP, and no step. *)
LEMMA StillReturned ==
  ASSUME Returned, UNCHANGED <<refs, stage, prog, pc, step, cmdBuf>>
  PROVE  Returned'
<1>1. /\ \A u, j : Ahead(u, j)' <=> Ahead(u, j)
      /\ \A u : Op(u)' = Op(u) /\ (Running(u)' <=> Running(u))
  BY DEF Ahead, Op, Running
<1>2. \A b : GivenBackLater(b)' <=> GivenBackLater(b)
  BY <1>1 DEF GivenBackLater, GivesBack
<1>3. \A c : RetiredLater(c)' <=> RetiredLater(c)
  BY <1>1 DEF RetiredLater, Retires
<1>4. \A u, b : FreedBy(u, b)' <=> FreedBy(u, b)
  BY <1>1 DEF FreedBy, Mine
<1>5. \A b : Holders(b)' = Holders(b)
  <2>1. \A c : Releasing(c)' <=> Releasing(c)
    BY <1>1 DEF Releasing, At
  <2>2. QED
    BY <2>1 DEF Holders
<1>6. Balanced(prog)'
  BY DEF Returned, Balanced, GivesBack, Retires
<1>7. Owned'
  BY <1>2, <1>5 DEF Returned, Owned
<1>8. Retained'
  BY <1>3 DEF Returned, Retained
<1>9. BeingFreed'
  BY <1>4 DEF Returned, BeingFreed
<1>10. QED
  BY <1>6, <1>7, <1>8, <1>9 DEF Returned

(* The steps of an operation on one buffer a: what they do to the others. *)
LEMMA OneBufferReturned ==
  ASSUME Inv, Returned, NEW t \in Thread, Running(t), step[t] = "work",
         Op(t).kind \in {"alloca", "release", "dealloca"}, NEW a \in Buffer, a = Op(t).buf,
         NEW s \in Steps, NEW r, Goto(t, s, r),
         \A b \in Buffer \ {a} : refs'[b] = refs[b] /\ stage'[b] = stage[b],
         cmdBuf' = cmdBuf,
         stage'[a] = "live" =>
           \/ refs'[a] = Cardinality(Holders(a))
           \/ refs'[a] = Cardinality(Holders(a)) + 1 /\ GivenBackLater(a)',
         stage'[a] # "leaked",
         stage'[a] \in {"dying", "forgotten", "unmapped"} =>
           \/ stage'[a] = stage[a]
           \/ s = "free" /\ Op(t).kind \in {"release", "dealloca"}
  PROVE  Returned'
<1>0. Types /\ pc[t] \in DOMAIN prog[t] /\ Op(t) = prog[t][pc[t]] /\ DOMAIN prog[t] \subseteq Nat
  BY Indices DEF Inv
<1>1. Moves(t) /\ step'[t] = s /\ pc' = pc
  BY <1>0, GotoMoves
<1>2. \A j \in DOMAIN prog[t] : Ahead(t, j) /\ j # pc[t] => Ahead(t, j)'
  BY <1>1 DEF Ahead
<1>3. \A u \in Thread \ {t} : \A j : Ahead(u, j)' <=> Ahead(u, j)
  BY <1>1 DEF Moves, Ahead
<1>4. \A b : Holders(b)' = Holders(b)
  <2>1. ~At(t, "releaseCmdBuf", "free") /\ ~At(t, "releaseCmdBuf", "free")'
    <3>1. Op(t)' = Op(t)
      BY <1>1, MovesFrame
    <3>2. QED
      BY <3>1 DEF At
  <2>2. QED
    BY <1>1, <2>1, MovesFrame
<1>5. Owned'
  <2> SUFFICES ASSUME NEW b \in Buffer, stage'[b] = "live"
               PROVE  \/ refs'[b] = Cardinality(Holders(b))
                      \/ refs'[b] = Cardinality(Holders(b)) + 1 /\ GivenBackLater(b)'
    BY <1>4 DEF Owned
  <2>1. CASE b # a
    <3>1. \/ refs[b] = Cardinality(Holders(b))
          \/ refs[b] = Cardinality(Holders(b)) + 1 /\ GivenBackLater(b)
      BY <2>1 DEF Returned, Owned
    <3>2. ASSUME NEW j \in DOMAIN prog[t], GivesBack(prog[t][j], b), Ahead(t, j) PROVE Ahead(t, j)'
      BY <1>0, <1>2, <2>1, <3>2 DEF GivesBack
    <3>3. GivenBackLater(b) => GivenBackLater(b)'
      BY <1>0, <1>1, <1>3, <3>2, LaterStays
    <3>4. QED
      BY <2>1, <3>1, <3>3
  <2>2. QED
    BY <2>1
<1>6. Retained'
  <2> SUFFICES ASSUME NEW c \in CmdBuf, RetiredLater(c) PROVE RetiredLater(c)'
    BY DEF Returned, Retained
  <2>1. ASSUME NEW j \in DOMAIN prog[t], Retires(prog[t][j], c),
               Ahead(t, j) \/ (j = pc[t] /\ step[t] = "free")
        PROVE  Ahead(t, j)'
    BY <1>0, <1>2, <2>1 DEF Retires
  <2>2. QED
    BY <1>0, <1>1, <1>3, <2>1, LaterStays
<1>7. BeingFreed'
  <2>1. ASSUME NEW b \in Buffer, NEW u \in Thread, FreedBy(u, b) PROVE FreedBy(u, b)'
    <3>1. u # t
      BY <2>1 DEF FreedBy
    <3>2. QED
      BY <1>0, <1>1, <2>1, <3>1, FreedStays
  <2>2. ASSUME s = "free", Op(t).kind \in {"release", "dealloca"} PROVE FreedBy(t, a)'
    <3>1. Op(t)' = Op(t) /\ Running(t)'
      BY <1>1, MovesFrame
    <3>2. QED
      BY <1>1, <2>2, <3>1 DEF FreedBy, Mine
  <2>3. QED
    BY <2>1, <2>2 DEF Returned, BeingFreed
<1>8. Balanced(prog)'
  BY <1>1 DEF Moves, Returned, Balanced, GivesBack, Retires
<1>9. QED
  BY <1>5, <1>6, <1>7, <1>8 DEF Returned

(* queue_alloca: the caller owns the new buffer, and gives it back later. *)
LEMMA AllocaReturned ==
  ASSUME Inv, Returned, NEW t \in Thread, Alloca(t)
  PROVE  Returned'
<1>0. Types /\ References
  BY DEF Inv
<1>1. Running(t) /\ step[t] = "work" /\ Op(t).kind = "alloca" /\ cmdBuf' = cmdBuf
  BY DEF Alloca, At
<1>2. PICK a \in Buffer : a = Op(t).buf
  BY <1>0, <1>1, OpType
<1>3. CASE ReturnError(t) /\ UNCHANGED memVars
  <2>1. ~Works(t)
    BY <1>1 DEF Works
  <2>2. refs' = refs /\ stage' = stage /\ Return(t, "error")
    BY <1>3 DEF memVars, ReturnError
  <2>3. QED
    BY <1>1, <2>1, <2>2, QuietReturned
<1>4. CASE AllocateBuffer(a) /\ Goto(t, "signal", Op(t).signal)
  <2>1. stage[a] = "none" /\ refs' = [refs EXCEPT ![a] = 1] /\ stage' = [stage EXCEPT ![a] = "live"]
    BY <1>4 DEF AllocateBuffer, BufferWrap
  <2>2. /\ refs'[a] = 1 /\ stage'[a] = "live"
        /\ \A b \in Buffer \ {a} : refs'[b] = refs[b] /\ stage'[b] = stage[b]
    BY <1>0, <2>1 DEF Types
  <2>3. Cardinality(Holders(a)) = 0
    <3>1. Cardinality(Holders(a)) \in Nat /\ refs[a] \in Nat
      BY <1>0, HoldersType DEF Types
    <3>2. Cardinality(Holders(a)) <= refs[a] /\ ~(refs[a] > 0)
      BY <1>0, <2>1 DEF References
    <3>3. QED
      BY <3>1, <3>2
  <2>4. GivenBackLater(a)'
    <3>1. pc[t] \in DOMAIN prog[t] /\ Op(t) = prog[t][pc[t]]
      BY <1>0, <1>1, Indices
    <3>2. PICK j \in DOMAIN prog[t] : j > pc[t] /\ GivesBack(prog[t][j], a)
      BY <1>1, <1>2, <3>1 DEF Returned, Balanced
    <3>3. prog' = prog /\ pc' = pc
      BY <1>4 DEF Goto
    <3>4. Ahead(t, j)' /\ GivesBack(prog[t][j], a)'
      BY <3>2, <3>3 DEF Ahead, GivesBack
    <3>5. QED
      BY <3>3, <3>4 DEF GivenBackLater
  <2>5. "signal" \in Steps
    BY DEF Steps
  <2>6. QED
    BY <1>1, <1>2, <1>4, <2>2, <2>3, <2>4, <2>5, OneBufferReturned
<1>5. QED
  BY <1>2, <1>3, <1>4 DEF Alloca

(* queue_dealloca: the thread that destroyed the buffer frees it. *)
LEMMA DeallocaReturned ==
  ASSUME Inv, Returned, NEW t \in Thread, Dealloca(t)
  PROVE  Returned'
<1>0. Types /\ References
  BY DEF Inv
<1>1. Running(t) /\ step[t] = "work" /\ Op(t).kind = "dealloca" /\ cmdBuf' = cmdBuf /\ Goto(t, "free", <<>>)
  BY DEF Dealloca, At
<1>2. PICK a \in Buffer : a = Op(t).buf
  BY <1>0, <1>1, OpType
<1>3. /\ stage'[a] = "dying"
      /\ \A b \in Buffer \ {a} : refs'[b] = refs[b] /\ stage'[b] = stage[b]
  BY <1>0, <1>2 DEF Dealloca, Destroy, Types
<1>4. "free" \in Steps
  BY DEF Steps
<1>5. QED
  BY <1>1, <1>2, <1>3, <1>4, OneBufferReturned

(* iree_hal_buffer_release: what is left are the references of command buffers. *)
LEMMA ReleaseBufferReturned ==
  ASSUME Inv, CallersKeepBuffers, Returned, NEW t \in Thread, ReleaseBuffer(t)
  PROVE  Returned'
<1>0. Types /\ References
  BY DEF Inv
<1>1. Running(t) /\ step[t] = "work" /\ Op(t).kind = "release" /\ cmdBuf' = cmdBuf
  BY DEF ReleaseBuffer, At
<1>2. PICK a \in Buffer : a = Op(t).buf
  BY <1>0, <1>1, OpType
<1>3. CASE ~Usable(a)
  <2>1. Goto(t, "signal", Op(t).signal) /\ refs' = refs /\ stage' = stage
    BY <1>2, <1>3 DEF ReleaseBuffer
  <2>2. ~Works(t)
    BY <1>1, <1>2, <1>3 DEF Works
  <2>3. "signal" \in Steps \ {"free"}
    BY DEF Steps
  <2>4. QED
    BY <1>1, <2>1, <2>2, <2>3, QuietReturned
<1>4. CASE Usable(a)
  <2>1. Drop({a}) /\ Goto(t, "free", <<>>) /\ stage[a] = "live"
    BY <1>2, <1>4 DEF ReleaseBuffer, Usable
  <2>2. refs[a] > Cardinality(Holders(a)) /\ refs[a] \in Nat /\ Cardinality(Holders(a)) \in Nat
    BY <1>0, <1>1, <1>2, <1>4, HoldersType DEF CallersKeepBuffers, At, Types
  <2>3. refs[a] = Cardinality(Holders(a)) + 1
    BY <2>1, <2>2 DEF Returned, Owned
  <2>4. /\ refs' = [b \in Buffer |-> IF b \in {a} THEN refs[b] - 1 ELSE refs[b]]
        /\ stage' = [b \in Buffer |-> IF b \in {a} /\ refs[b] = 1 THEN "dying" ELSE stage[b]]
    BY <2>1 DEF Drop
  <2>5. /\ refs'[a] = refs[a] - 1 /\ stage'[a] \in {"live", "dying"}
        /\ \A b \in Buffer \ {a} : refs'[b] = refs[b] /\ stage'[b] = stage[b]
    BY <2>1, <2>4
  <2>6. refs'[a] = Cardinality(Holders(a))
    BY <2>2, <2>3, <2>5
  <2>7. "free" \in Steps
    BY DEF Steps
  <2>8. QED
    BY <1>1, <1>2, <2>1, <2>5, <2>6, <2>7, OneBufferReturned
<1>5. QED
  BY <1>3, <1>4

(* A destroyed buffer is not used by a command on the DSP: nothing is leaked. *)
LEMMA DyingIsUnused ==
  ASSUME Inv, CallersKeepBuffers, NEW a \in Buffer, stage[a] = "dying"
  PROVE  ~(pinned[fdOf[a]] > 0)
<1> SUFFICES ASSUME pinned[fdOf[a]] > 0 PROVE FALSE
  OBVIOUS
<1>1. fdOf[a] \in Fd /\ registered[fdOf[a]] = a
  BY DEF Inv, Registration
<1>2. PICK u \in Thread : inUse[u] = fdOf[a]
  <2>1. pinned[fdOf[a]] = Cardinality({u \in Thread : inUse[u] = fdOf[a]})
    BY <1>1 DEF Inv, Executions
  <2>2. {u \in Thread : inUse[u] = fdOf[a]} # {}
    BY <2>1, FS_EmptySet
  <2>3. QED
    BY <2>2
<1>3. At(u, "execute", "rpc") /\ \E b \in Given(u) : fdOf[b] = fdOf[a]
  <2>1. inUse[u] # None
    BY <1>1, <1>2
  <2>2. QED
    BY <1>2, <2>1 DEF Inv, Executions
<1>4. PICK b \in Given(u) : fdOf[b] = fdOf[a]
  BY <1>3
<1>5. b \in Buffer /\ stage[b] = "live"
  BY <1>3, GivenIsLive
<1>6. registered[fdOf[b]] = b
  BY <1>5 DEF Inv, Registration
<1>7. QED
  BY <1>1, <1>4, <1>5, <1>6

(* The steps of mem_alloc_release, by the thread that destroyed the buffer. *)
LEMMA FreeBufferReturned ==
  ASSUME Inv, CallersKeepBuffers, Returned, NEW t \in Thread, FreeBuffer(t)
  PROVE  Returned'
<1>0. Types
  BY DEF Inv
<1>1. Running(t) /\ step[t] = "free" /\ UNCHANGED <<prog, pc, step, cmdBuf>>
  BY DEF FreeBuffer, qVars
<1>2. PICK a \in Dying(t) : FreeStep(a)
  BY DEF FreeBuffer
<1>3. a \in Mine(t) /\ a \in Buffer
  <2>1. a \in Mine(t)
    BY <1>2 DEF Dying, Mine
  <2>2. Op(t).kind \in {"dealloca", "release", "releaseCmdBuf"}
    BY <1>1 DEF Inv, RestMatches, RestOf
  <2>3. Op(t).kind = "releaseCmdBuf" => cmdBuf[Op(t).cmdBuf].held \subseteq Buffer
    BY <1>0, <1>1, OpType DEF Types, CmdBufs
  <2>4. Op(t).kind # "releaseCmdBuf" => Op(t).buf \in Buffer
    BY <1>0, <1>1, <2>2, OpType
  <2>5. QED
    BY <2>1, <2>3, <2>4 DEF Mine
<1>4. /\ refs' = refs /\ stage[a] # "live" /\ stage'[a] \notin {"live", "leaked"}
      /\ \A b \in Buffer \ {a} : stage'[b] = stage[b]
  <2>1. CASE Forget(a)
    <3>1. stage[a] = "dying" /\ refs' = refs
      BY <2>1 DEF Forget
    <3>2. stage' = [stage EXCEPT ![a] = "forgotten"]
      BY <1>3, <2>1, <3>1, DyingIsUnused DEF Forget
    <3>3. QED
      BY <1>0, <1>3, <3>1, <3>2 DEF Types
  <2>2. CASE Munmap(a) \/ RpcmemFree(a)
    BY <1>0, <1>3, <2>2 DEF Munmap, RpcmemFree, Types
  <2>3. QED
    BY <1>2, <2>1, <2>2 DEF FreeStep
<1>5. /\ \A u, j : Ahead(u, j)' <=> Ahead(u, j)
      /\ \A u : Op(u)' = Op(u) /\ (Running(u)' <=> Running(u))
  BY <1>1 DEF Ahead, Op, Running
<1>6. \A b : GivenBackLater(b)' <=> GivenBackLater(b)
  BY <1>1, <1>5 DEF GivenBackLater, GivesBack
<1>7. \A c : RetiredLater(c)' <=> RetiredLater(c)
  BY <1>1, <1>5 DEF RetiredLater, Retires
<1>8. \A u, b : FreedBy(u, b)' <=> FreedBy(u, b)
  BY <1>1, <1>5 DEF FreedBy, Mine
<1>9. \A b : Holders(b)' = Holders(b)
  <2>1. \A c : Releasing(c)' <=> Releasing(c)
    BY <1>1, <1>5 DEF Releasing, At
  <2>2. QED
    BY <1>1, <2>1 DEF Holders
<1>10. Balanced(prog)'
  BY <1>1 DEF Returned, Balanced, GivesBack, Retires
<1>11. Owned'
  BY <1>4, <1>6, <1>9 DEF Returned, Owned
<1>12. Retained'
  BY <1>1, <1>7 DEF Returned, Retained
<1>13. BeingFreed'
  <2>1. FreedBy(t, a)'
    BY <1>1, <1>3, <1>8 DEF FreedBy
  <2>2. QED
    BY <1>4, <1>8, <2>1 DEF Returned, BeingFreed
<1>14. QED
  BY <1>10, <1>11, <1>12, <1>13 DEF Returned

(* Only one thread records and releases a command buffer that retains something. *)
LEMMA OneReleaser ==
  ASSUME Inv, Returned, NEW c \in CmdBuf, cmdBuf[c].held # {},
         NEW t \in Thread, Running(t), Retires(Op(t), c),
         NEW u \in Thread, Running(u), Retires(Op(u), c)
  PROVE  t = u
<1>1. RecordedBuffers(c) # {}
  BY DEF Inv, References, RecordingOf, Named
<1>2. PICK v \in Thread : \E i \in DOMAIN prog[v] : prog[v][i].kind = "record" /\ prog[v][i].cmdBuf = c
  BY <1>1 DEF RecordedBuffers
<1>3. PICK i \in DOMAIN prog[v] : prog[v][i].kind = "record" /\ prog[v][i].cmdBuf = c
  BY <1>2
<1>4. /\ pc[t] \in DOMAIN prog[t] /\ Op(t) = prog[t][pc[t]]
      /\ pc[u] \in DOMAIN prog[u] /\ Op(u) = prog[u][pc[u]]
  BY Indices DEF Inv
<1>5. \A x \in Thread : \A j \in DOMAIN prog[x] : Retires(prog[x][j], c) => x = v
  BY <1>3 DEF Returned, Balanced
<1>6. QED
  BY <1>4, <1>5

(* All is freed that the operation destroyed; a released command buffer is gone. *)
LEMMA FreeDoneReturned ==
  ASSUME Inv, Returned, NEW t \in Thread, FreeDone(t)
  PROVE  Returned'
<1>0. Types /\ RestOf(t) /\ pc[t] \in DOMAIN prog[t] /\ Op(t) = prog[t][pc[t]]
  BY Indices DEF Inv, RestMatches, FreeDone
<1>1. /\ Running(t) /\ step[t] = "free" /\ Dying(t) = {} /\ refs' = refs /\ stage' = stage
      /\ Goto(t, "signal", Op(t).signal)
      /\ cmdBuf' = IF Op(t).kind = "releaseCmdBuf" THEN [cmdBuf EXCEPT ![Op(t).cmdBuf] = NoCmdBuf] ELSE cmdBuf
  BY DEF FreeDone, memVars
<1>2. Moves(t) /\ step'[t] = "signal" /\ pc' = pc
  BY <1>0, <1>1, GotoMoves DEF Steps
<1>3. \A u \in Thread : \A j : Ahead(u, j)' <=> Ahead(u, j)
  BY <1>1, <1>2 DEF Moves, Ahead
<1>4. \A u \in Thread \ {t} : Op(u)' = Op(u) /\ (Running(u)' <=> Running(u)) /\ step'[u] = step[u]
  BY <1>2, MovesFrame DEF Moves
<1>5. ASSUME NEW c \in CmdBuf
      PROVE  \/ Retires(Op(t), c) /\ cmdBuf'[c].held = {}
             \/ ~Retires(Op(t), c) /\ cmdBuf'[c] = cmdBuf[c]
  <2>1. CASE Retires(Op(t), c)
    BY <1>0, <1>1, <2>1 DEF Retires, Types, NoCmdBuf
  <2>2. CASE ~Retires(Op(t), c)
    BY <1>0, <1>1, <2>2 DEF Retires, Types
  <2>3. QED
    BY <2>1, <2>2
<1>6. \A b : Holders(b)' = Holders(b)
  <2> SUFFICES ASSUME NEW b, NEW c \in CmdBuf
               PROVE  (b \in cmdBuf'[c].held /\ ~Releasing(c)') <=> (b \in cmdBuf[c].held /\ ~Releasing(c))
    BY DEF Holders
  <2>1. CASE Retires(Op(t), c)
    <3>1. Releasing(c)
      BY <1>1, <2>1 DEF Releasing, At, Retires
    <3>2. QED
      BY <1>5, <2>1, <3>1
  <2>2. CASE ~Retires(Op(t), c)
    <3>1. Releasing(c)' <=> Releasing(c)
      BY <1>1, <1>2, <1>4, <2>2 DEF Releasing, At, Retires
    <3>2. QED
      BY <1>5, <2>2, <3>1
  <2>3. QED
    BY <2>1, <2>2
<1>7. Owned'
  <2>1. \A b : GivenBackLater(b) => GivenBackLater(b)'
    BY <1>1, <1>2, <1>0, <1>3, LaterStays
  <2>2. QED
    BY <1>1, <1>6, <2>1 DEF Returned, Owned
<1>8. Retained'
  <2> SUFFICES ASSUME NEW c \in CmdBuf, cmdBuf'[c].held # {} PROVE RetiredLater(c)'
    BY DEF Retained
  <2>1. ~Retires(Op(t), c) /\ RetiredLater(c)
    BY <1>5 DEF Returned, Retained
  <2>2. ASSUME NEW j \in DOMAIN prog[t], Retires(prog[t][j], c),
               Ahead(t, j) \/ (j = pc[t] /\ step[t] = "free")
        PROVE  Ahead(t, j)'
    BY <1>0, <1>3, <2>1, <2>2
  <2>3. QED
    BY <1>0, <1>1, <1>2, <1>3, <2>1, <2>2, LaterStays
<1>9. BeingFreed'
  <2> SUFFICES ASSUME NEW b \in Buffer, stage[b] \in {"dying", "forgotten", "unmapped"}
               PROVE  \E u \in Thread : FreedBy(u, b)'
    BY <1>1 DEF Returned, BeingFreed
  <2>1. PICK u \in Thread : FreedBy(u, b)
    BY DEF Returned, BeingFreed
  <2>2. u # t
    <3>1. b \notin Mine(t)
      BY <1>1 DEF Dying, Mine, Freed, Usable
    <3>2. QED
      BY <2>1, <3>1 DEF FreedBy
  <2>3. Op(u).kind = "releaseCmdBuf" => cmdBuf[Op(u).cmdBuf].held \subseteq cmdBuf'[Op(u).cmdBuf].held
    <3> SUFFICES ASSUME Op(u).kind = "releaseCmdBuf"
                 PROVE  cmdBuf[Op(u).cmdBuf].held \subseteq cmdBuf'[Op(u).cmdBuf].held
      OBVIOUS
    <3>1. PICK c \in CmdBuf : c = Op(u).cmdBuf
      BY <1>0, <2>1, OpType DEF FreedBy
    <3>2. Running(u) /\ Retires(Op(u), c) /\ cmdBuf[c].held # {}
      BY <2>1, <3>1 DEF FreedBy, Retires, Mine
    <3>3. ~Retires(Op(t), c)
      BY <1>1, <2>2, <3>2, OneReleaser
    <3>4. QED
      BY <1>5, <3>1, <3>3
  <2>4. QED
    BY <1>0, <1>2, <2>1, <2>2, <2>3, FreedStays
<1>10. Balanced(prog)'
  BY <1>2 DEF Moves, Returned, Balanced, GivesBack, Retires
<1>11. QED
  BY <1>7, <1>8, <1>9, <1>10 DEF Returned

(* A recorded command: the references are those of a command buffer that is released later. *)
LEMMA RecordCommandReturned ==
  ASSUME Inv, Returned, NEW t \in Thread, RecordCommand(t)
  PROVE  Returned'
<1>0. Types /\ RestOf(t) /\ pc[t] \in DOMAIN prog[t] /\ Op(t) = prog[t][pc[t]]
  BY Indices DEF Inv, RestMatches, RecordCommand, At
<1>1. /\ Running(t) /\ step[t] = "record" /\ Op(t).kind = "record" /\ rest[t] # <<>> /\ stage' = stage
  BY DEF RecordCommand, At
<1>2. PICK c \in CmdBuf : c = Op(t).cmdBuf
  BY <1>0, <1>1, OpType
<1>3. PICK bufs \in SUBSET Buffer : bufs = Head(rest[t])
  BY <1>0, <1>1 DEF RestOf
<1>4. ~Works(t)
  BY <1>1 DEF Works
<1>5. CASE Return(t, "error") /\ UNCHANGED <<cmdBuf, refs>>
  BY <1>1, <1>4, <1>5, QuietReturned
<1> DEFINE cb == Recorded(cmdBuf[c], bufs, Op(t).retained)
<1>6. CASE /\ cmdBuf' = [cmdBuf EXCEPT ![c] = cb]
           /\ refs' = Retain(cb.held \ cmdBuf[c].held)
           /\ Goto(t, "record", Tail(rest[t]))
  <2> DEFINE new == IF Op(t).retained THEN bufs \ cmdBuf[c].held ELSE {}
  <2>1. /\ cmdBuf'[c].held = cmdBuf[c].held \cup new
        /\ \A d \in CmdBuf \ {c} : cmdBuf'[d] = cmdBuf[d]
        /\ \A b \in Buffer : refs'[b] = IF b \in new THEN refs[b] + 1 ELSE refs[b]
        /\ \A b \in new : b \notin cmdBuf[c].held
    <3>1. cmdBuf[c] \in CmdBufs
      BY <1>0 DEF Types
    <3>2. cb.held = cmdBuf[c].held \cup new
      BY <3>1 DEF Recorded, CmdBufs
    <3>3. cmdBuf'[c] = cb /\ \A d \in CmdBuf \ {c} : cmdBuf'[d] = cmdBuf[d]
      BY <1>0, <1>6 DEF Types
    <3>4. cb.held \ cmdBuf[c].held = new
      BY <3>2
    <3>5. \A b \in Buffer : refs'[b] = IF b \in new THEN refs[b] + 1 ELSE refs[b]
      BY <1>6, <3>4 DEF Retain
    <3>6. QED
      BY <3>2, <3>3, <3>5
  <2> HIDE DEF new, cb
  <2>2. Moves(t) /\ step'[t] = "record" /\ pc' = pc
    BY <1>0, <1>6, GotoMoves DEF Steps
  <2>3. \A u \in Thread : \A j : Ahead(u, j)' <=> Ahead(u, j)
    BY <1>1, <2>2 DEF Moves, Ahead
  <2>4. ~Releasing(c)
    <3> SUFFICES ASSUME NEW u \in Thread, Running(u), Retires(Op(u), c) PROVE FALSE
      BY DEF Releasing, At, Retires
    <3>1. pc[u] \in DOMAIN prog[u] /\ Op(u) = prog[u][pc[u]]
      BY <1>0, Indices
    <3>2. u = t
      BY <1>0, <1>1, <1>2, <3>1 DEF Returned, Balanced
    <3>3. QED
      BY <1>1, <3>2 DEF Retires
  <2>5. \A d : Releasing(d)' <=> Releasing(d)
    <3>1. ~At(t, "releaseCmdBuf", "free") /\ ~At(t, "releaseCmdBuf", "free")'
      BY <1>1, <2>2 DEF At
    <3>2. QED
      BY <2>2, <3>1, MovesFrame
  <2>6. Owned'
    <3> SUFFICES ASSUME NEW b \in Buffer, stage[b] = "live"
                 PROVE  \/ refs'[b] = Cardinality(Holders(b)')
                        \/ refs'[b] = Cardinality(Holders(b)') + 1 /\ GivenBackLater(b)'
      BY <1>1 DEF Owned
    <3>1. GivenBackLater(b) => GivenBackLater(b)'
      BY <1>0, <1>1, <2>2, <2>3, LaterStays
    <3>2. IsFiniteSet(Holders(b)) /\ Cardinality(Holders(b)) \in Nat /\ refs[b] \in Nat
      BY <1>0, HoldersType DEF Types
    <3>3. \/ refs[b] = Cardinality(Holders(b))
          \/ refs[b] = Cardinality(Holders(b)) + 1 /\ GivenBackLater(b)
      BY DEF Returned, Owned
    <3>4. CASE b \in new
      <4>1. Holders(b)' = Holders(b) \cup {c} /\ c \notin Holders(b)
        BY <2>1, <2>4, <2>5, <3>4 DEF Holders
      <4>2. Cardinality(Holders(b) \cup {c}) = Cardinality(Holders(b)) + 1
        BY <3>2, <4>1, FS_AddElement
      <4>3. Cardinality(Holders(b)') = Cardinality(Holders(b)) + 1 /\ refs'[b] = refs[b] + 1
        BY <2>1, <3>4, <4>1, <4>2
      <4>4. QED
        BY <3>1, <3>2, <3>3, <4>3
    <3>5. CASE b \notin new
      <4>1. Holders(b)' = Holders(b)
        BY <2>1, <2>5, <3>5 DEF Holders
      <4>2. refs'[b] = refs[b]
        BY <2>1, <3>5
      <4>3. QED
        BY <3>1, <3>3, <4>1, <4>2
    <3>6. QED
      BY <3>4, <3>5
  <2>7. Retained'
    <3> SUFFICES ASSUME NEW d \in CmdBuf, cmdBuf'[d].held # {} PROVE RetiredLater(d)'
      BY DEF Retained
    <3>1. CASE d = c
      <4>1. PICK j \in DOMAIN prog[t] : j > pc[t] /\ Retires(prog[t][j], c)
        BY <1>0, <1>1, <1>2 DEF Returned, Balanced
      <4>2. Ahead(t, j)' /\ Retires(prog[t][j], c)' /\ prog' = prog
        BY <2>2, <2>3, <4>1 DEF Ahead, Retires, Moves
      <4>3. QED
        BY <3>1, <4>2 DEF RetiredLater
    <3>2. CASE d # c
      <4>1. RetiredLater(d)
        BY <2>1, <3>2 DEF Returned, Retained
      <4>2. QED
        BY <1>0, <1>1, <2>2, <2>3, <4>1, LaterStays
    <3>3. QED
      BY <3>1, <3>2
  <2>8. BeingFreed'
    <3> SUFFICES ASSUME NEW b \in Buffer, NEW u \in Thread, FreedBy(u, b) PROVE FreedBy(u, b)'
      BY <1>1 DEF Returned, BeingFreed
    <3>1. u # t
      BY <1>1 DEF FreedBy
    <3>2. Op(u).kind = "releaseCmdBuf" => Op(u).cmdBuf \in CmdBuf
      BY <1>0, OpType DEF FreedBy
    <3>3. \A d \in CmdBuf : cmdBuf[d].held \subseteq cmdBuf'[d].held
      BY <2>1
    <3>4. QED
      BY <1>0, <2>2, <3>1, <3>2, <3>3, FreedStays
  <2>9. Balanced(prog)'
    BY <2>2 DEF Moves, Returned, Balanced, GivesBack, Retires
  <2>10. QED
    BY <2>6, <2>7, <2>8, <2>9 DEF Returned
<1>7. \/ Return(t, "error") /\ UNCHANGED <<cmdBuf, refs>>
      \/ /\ cmdBuf' = [cmdBuf EXCEPT ![c] = cb]
         /\ refs' = Retain(cb.held \ cmdBuf[c].held)
         /\ Goto(t, "record", Tail(rest[t]))
  BY <1>2, <1>3 DEF RecordCommand, ReturnError
<1>8. QED
  BY <1>5, <1>6, <1>7

(* The last release of a command buffer: its references go, and the thread frees what they
   kept alive. *)
LEMMA ReleaseCmdBufReturned ==
  ASSUME Inv, CallersKeepBuffers, Returned, NEW t \in Thread, ReleaseCmdBuf(t)
  PROVE  Returned'
<1>0. /\ Types /\ References /\ pc[t] \in DOMAIN prog[t] /\ Op(t) = prog[t][pc[t]]
  BY Indices DEF Inv, ReleaseCmdBuf, At
<1>1. Running(t) /\ step[t] = "work" /\ Op(t).kind = "releaseCmdBuf"
  BY DEF ReleaseCmdBuf, At
<1>2. PICK c \in CmdBuf : c = Op(t).cmdBuf
  BY <1>0, <1>1, OpType
<1>3. ~Releasing(c)
  BY <1>1, <1>2 DEF CallersKeepBuffers, At
<1>4. PICK H \in SUBSET Buffer : H = cmdBuf[c].held
  BY <1>0 DEF Types, CmdBufs
<1>5. Drop(H) /\ cmdBuf' = [cmdBuf EXCEPT ![c].dsp = FALSE] /\ Goto(t, "free", <<>>)
  BY <1>2, <1>4 DEF ReleaseCmdBuf
<1>6. \A d \in CmdBuf : cmdBuf'[d].held = cmdBuf[d].held
  <2>1. \A d \in CmdBuf : cmdBuf[d] \in CmdBufs
    BY <1>0 DEF Types
  <2>2. QED
    BY <1>0, <1>5, <2>1 DEF CmdBufs, Types
<1>7. Moves(t) /\ step'[t] = "free" /\ pc' = pc
  BY <1>0, <1>5, GotoMoves DEF Steps
<1>8. /\ Op(t)' = Op(t) /\ Running(t)'
      /\ \A u \in Thread \ {t} : Op(u)' = Op(u) /\ \A k, s : At(u, k, s)' <=> At(u, k, s)
  BY <1>1, <1>7, MovesFrame
<1>9. /\ \A j \in DOMAIN prog[t] : Ahead(t, j) => Ahead(t, j)' \/ j = pc[t]
      /\ \A u \in Thread \ {t} : \A j : Ahead(u, j)' <=> Ahead(u, j)
  BY <1>7 DEF Moves, Ahead
<1>10. /\ \A b \in Buffer : refs'[b] = IF b \in H THEN refs[b] - 1 ELSE refs[b]
       /\ \A b \in Buffer : stage'[b] = IF b \in H /\ refs[b] = 1 THEN "dying" ELSE stage[b]
  BY <1>5 DEF Drop
<1>11. Owned'
  <2> SUFFICES ASSUME NEW b \in Buffer, stage'[b] = "live"
               PROVE  \/ refs'[b] = Cardinality(Holders(b)')
                      \/ refs'[b] = Cardinality(Holders(b)') + 1 /\ GivenBackLater(b)'
    BY DEF Owned
  <2>1. stage[b] = "live"
    BY <1>10
  <2>2. IsFiniteSet(Holders(b)) /\ Cardinality(Holders(b)) \in Nat /\ refs[b] \in Nat
    BY <1>0, HoldersType DEF Types
  <2>3. \/ refs[b] = Cardinality(Holders(b))
        \/ refs[b] = Cardinality(Holders(b)) + 1 /\ GivenBackLater(b)
    BY <2>1 DEF Returned, Owned
  <2>4. GivenBackLater(b) => GivenBackLater(b)'
    <3>1. ASSUME NEW j \in DOMAIN prog[t], GivesBack(prog[t][j], b), Ahead(t, j) PROVE Ahead(t, j)'
      BY <1>0, <1>1, <1>9, <3>1 DEF GivesBack
    <3>2. QED
      BY <1>0, <1>1, <1>7, <1>9, <3>1, LaterStays
  <2>5. Releasing(c)' /\ \A d \in CmdBuf \ {c} : Releasing(d)' <=> Releasing(d)
    <3>1. Releasing(c)'
      BY <1>1, <1>2, <1>7, <1>8 DEF Releasing, At
    <3>2. ~At(t, "releaseCmdBuf", "free")
      BY <1>1 DEF At
    <3>3. \A d \in CmdBuf \ {c} : Releasing(d)' <=> Releasing(d)
      BY <1>2, <1>8, <3>2 DEF Releasing
    <3>4. QED
      BY <3>1, <3>3
  <2>6. Holders(b)' = Holders(b) \ {c}
    BY <1>6, <2>5 DEF Holders
  <2>7. CASE b \in H
    <3>1. c \in Holders(b)
      BY <1>3, <1>4, <2>7 DEF Holders
    <3>2. Cardinality(Holders(b) \ {c}) = Cardinality(Holders(b)) - 1
      <4>1. ASSUME NEW S, IsFiniteSet(S), c \in S PROVE Cardinality(S \ {c}) = Cardinality(S) - 1
        BY <4>1, FS_RemoveElement
      <4>2. QED
        BY <2>2, <3>1, <4>1
    <3>3. Cardinality(Holders(b)') = Cardinality(Holders(b)) - 1 /\ refs'[b] = refs[b] - 1
      BY <1>10, <2>6, <2>7, <3>2
    <3>4. QED
      BY <2>2, <2>3, <2>4, <3>3
  <2>8. CASE b \notin H
    <3>1. Holders(b)' = Holders(b) /\ refs'[b] = refs[b]
      BY <1>4, <1>10, <2>6, <2>8 DEF Holders
    <3>2. QED
      BY <2>3, <2>4, <3>1
  <2>9. QED
    BY <2>7, <2>8
<1>12. Retained'
  <2> SUFFICES ASSUME NEW d \in CmdBuf, RetiredLater(d) PROVE RetiredLater(d)'
    BY <1>6 DEF Returned, Retained
  <2>1. ASSUME NEW j \in DOMAIN prog[t], Retires(prog[t][j], d),
               Ahead(t, j) \/ (j = pc[t] /\ step[t] = "free")
        PROVE  (Ahead(t, j) \/ (j = pc[t] /\ step[t] = "free"))'
    BY <1>7, <1>9, <2>1
  <2>2. QED
    BY <1>0, <1>1, <1>7, <1>9, <2>1, LaterStays
<1>13. BeingFreed'
  <2>1. ASSUME NEW b \in Buffer, NEW u \in Thread, FreedBy(u, b) PROVE FreedBy(u, b)'
    <3>1. u # t
      BY <1>1, <2>1 DEF FreedBy
    <3>2. Op(u).kind = "releaseCmdBuf" => Op(u).cmdBuf \in CmdBuf
      BY <1>0, <2>1, OpType DEF FreedBy
    <3>3. QED
      BY <1>0, <1>6, <1>7, <2>1, <3>1, <3>2, FreedStays
  <2>2. \A b \in H : FreedBy(t, b)'
    <3>1. Mine(t)' = H
      BY <1>1, <1>2, <1>4, <1>6, <1>8 DEF Mine
    <3>2. QED
      BY <1>7, <1>8, <3>1 DEF FreedBy
  <2>3. \A b \in Buffer : stage[b] # "leaked"
    BY DEF Returned, BeingFreed
  <2>4. \A b \in Buffer : stage'[b] = stage[b] \/ (b \in H /\ stage'[b] = "dying")
    BY <1>10
  <2>5. QED
    BY <2>1, <2>2, <2>3, <2>4 DEF Returned, BeingFreed
<1>14. Balanced(prog)'
  BY <1>7 DEF Moves, Returned, Balanced, GivesBack, Retires
<1>15. QED
  BY <1>11, <1>12, <1>13, <1>14 DEF Returned

(* The step of the induction. *)
LEMMA NextReturned ==
  ASSUME Inv, CallersKeepBuffers, DeallocatesAll, Returned, [Next]_vars
  PROVE  Returned'
<1>1. CASE vars' = vars
  BY <1>1, StillReturned DEF vars, memVars, qVars
<1>2. ASSUME NEW t \in Thread, ThreadStep(t) PROVE Returned'
  <2>1. CASE \/ Wait(t) \/ Skip(t) \/ Signal(t) \/ Finish(t) \/ CreateCmdBuf(t) \/ EndCmdBuf(t)
             \/ SerializeBindings(t) \/ CommandAcquires(t) \/ ExecuteReturns(t)
    BY <2>1, MovesReturned
  <2>2. CASE Alloca(t)
    BY <2>2, AllocaReturned
  <2>3. CASE Dealloca(t)
    BY <2>3, DeallocaReturned
  <2>4. CASE ReleaseBuffer(t)
    BY <2>4, ReleaseBufferReturned
  <2>5. CASE FreeBuffer(t)
    BY <2>5, FreeBufferReturned
  <2>6. CASE FreeDone(t)
    BY <2>6, FreeDoneReturned
  <2>7. CASE RecordCommand(t)
    BY <2>7, RecordCommandReturned
  <2>8. CASE ReleaseCmdBuf(t)
    BY <2>8, ReleaseCmdBufReturned
  <2>9. CASE CommandReleases(t)
    BY <2>9, StillReturned DEF CommandReleases, DspRelease
  <2>10. QED
    BY <1>2, <2>1, <2>2, <2>3, <2>4, <2>5, <2>6, <2>7, <2>8, <2>9 DEF ThreadStep
<1>3. ASSUME NEW f \in Fd, Evict(f) PROVE Returned'
  BY <1>3, StillReturned DEF Evict, DspEvict, qVars
<1>4. CASE DspCrash
  BY <1>4, StillReturned DEF DspCrash
<1>5. QED
  BY <1>1, <1>2, <1>3, <1>4 DEF Next

(* All memory is freed in the end: a program that gives back what it takes leaves no buffer, no
   registered descriptor and no mapping on the DSP behind when every caller is through, however
   many of its operations failed or the DSP crashed, if the callers keep their contract. *)
THEOREM NothingLeftBehindHolds ==
  ASSUME \A p \in Programs : Balanced(p)
  PROVE  Spec /\ []CallersKeepBuffers /\ []DeallocatesAll => []NothingLeftBehind
<1>1. Init => Returned
  <2> SUFFICES ASSUME Init PROVE Returned
    OBVIOUS
  <2>1. Balanced(prog)
    BY DEF Init
  <2>2. /\ \A b \in Buffer : stage[b] = "none"
        /\ \A c \in CmdBuf : cmdBuf[c].held = {}
    BY DEF Init, MemInit, NoCmdBuf
  <2>3. QED
    BY <2>1, <2>2 DEF Returned, Owned, Retained, BeingFreed
<1>2. Inv /\ CallersKeepBuffers /\ DeallocatesAll /\ Returned /\ [Next]_vars => Returned'
  BY NextReturned
<1>3. Inv /\ Returned => NothingLeftBehind
  <2> SUFFICES ASSUME Inv, Returned, \A t \in Thread : Done(t)
               PROVE  /\ \A f \in Fd : registered[f] = None /\ resident[f] = None
                      /\ \A b \in Buffer : stage[b] \in {"none", "freed"}
    BY DEF NothingLeftBehind
  <2>0. Types /\ References
    BY DEF Inv
  <2>1. ASSUME NEW t \in Thread, NEW j \in DOMAIN prog[t] PROVE ~Ahead(t, j) /\ j # pc[t]
    <3>1. prog[t] \in Seq(Operations) /\ pc[t] \in Nat
      BY <2>0, ProgramsAssumption DEF Types
    <3>2. j \in 1..Len(prog[t]) /\ Len(prog[t]) \in Nat
      BY <3>1
    <3>3. ~(pc[t] <= Len(prog[t]))
      BY DEF Done, Running
    <3>4. j < pc[t]
      BY <3>1, <3>2, <3>3
    <3>5. QED
      BY <3>1, <3>2, <3>4 DEF Ahead
  <2>2. \A c \in CmdBuf : cmdBuf[c].held = {}
    BY <2>1 DEF Returned, Retained, RetiredLater
  <2>3. \A b \in Buffer : stage[b] # "live"
    <3> SUFFICES ASSUME NEW b \in Buffer, stage[b] = "live" PROVE FALSE
      OBVIOUS
    <3>1. Cardinality(Holders(b)) = 0
      <4>1. Holders(b) = {}
        BY <2>2 DEF Holders
      <4>2. QED
        BY <4>1, FS_EmptySet
    <3>2. refs[b] = 0
      BY <2>1, <3>1 DEF Returned, Owned, GivenBackLater
    <3>3. refs[b] > 0
      BY <2>0 DEF References
    <3>4. QED
      BY <3>2, <3>3
  <2>4. \A b \in Buffer : stage[b] \in {"none", "freed"}
    <3>1. \A t \in Thread, b \in Buffer : ~FreedBy(t, b)
      BY DEF FreedBy, Done
    <3>2. \A b \in Buffer : stage[b] \in Stages
      BY <2>0 DEF Types
    <3>3. QED
      BY <2>3, <3>1, <3>2 DEF Returned, BeingFreed, Stages
  <2>5. \A f \in Fd : registered[f] = None
    <3> SUFFICES ASSUME NEW f \in Fd, registered[f] # None PROVE FALSE
      OBVIOUS
    <3>1. registered[f] \in Buffer /\ stage[registered[f]] \in {"live", "dying", "forgotten", "leaked"}
      BY <2>0 DEF Types, Inv, Registration
    <3>2. QED
      BY <2>4, <3>1
  <2>6. \A f \in Fd : resident[f] = None
    BY <2>5 DEF Inv, Mapping
  <2>7. QED
    BY <2>4, <2>5, <2>6
<1>4. Spec /\ []CallersKeepBuffers => []Inv
  BY InvHolds
<1>5. QED
  BY <1>1, <1>2, <1>3, <1>4, PTL DEF Spec
============================================================================

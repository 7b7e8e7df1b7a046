--------------------------- MODULE CmdExecProofs ---------------------------
(***************************************************************************)
(* CmdExec: any command buffers, allocations, budget, number of task slots *)
(* and size of the VTCM pool.                                              *)
(***************************************************************************)
EXTENDS CmdExec, WeightedSumProofs, SequenceTheorems

USE FdAssumption, AllocSizeAssumption, SizesAssumption, NamesAssumption

Commands == [kind : {"dispatch", "barrier", "copy", "fill", "invalid"},
             refs : Seq(Fd \cup {BadRef}),
             vtcm : Nat \cup {All}, hmx : BOOLEAN]

\* Where the master is in its code, the call of wait_one left aside.
here == IF pc = "wait" THEN back ELSE pc

TaskRecords == [cmd : 0 .. Len(program), inFlight : BOOLEAN,
                state : {"RUNNING", "SUCCEEDED", "FAILED"}, part : SUBSET Granules]

\* The types of what is not a counter.
Types ==
  /\ program \in Programs
  /\ reliable \in BOOLEAN
  /\ idx \in 1 .. Len(program) + 1
  /\ pc \in Labels /\ back \in Labels
  /\ asleep \in BOOLEAN
  /\ slot \in Slots
  /\ operand \in 1 .. 2
  /\ tasks \in [Slots -> TaskRecords]
  /\ refs \in [Fd -> Int]
  /\ vtcmInUse \in Int
  /\ status \in {"SUCCESS", "EFAILED"}
  /\ err \in {"SUCCESS", "EFAILED", "EBADITEM", "ENOMEMORY", "ENOHEAP"}
  /\ failed \subseteq 1 .. Len(program)

\* Each label is reached with the command that it is for.
Control ==
  /\ pc = "wait" => back \in {"slot", "prepare", "vtcm", "barrier", "drain", "finalDrain"}
  /\ here \in {"slot", "prepare", "vtcm", "launch", "abort"} =>
       idx <= Len(program) /\ cmd.kind = "dispatch"
  /\ here = "barrier" => idx <= Len(program) /\ cmd.kind = "barrier"
  /\ here \in {"acquire", "drain", "retry"} =>
       idx <= Len(program) /\ cmd.kind \in {"copy", "fill"} /\ operand <= Len(cmd.refs)
  /\ here = "kernel" => idx > 1 /\ program[idx - 1].kind = "dispatch"
  /\ here = "inline" => idx > 1 /\ program[idx - 1].kind \in {"copy", "fill"}
  /\ here = "retry" => numInFlight = 0
  /\ err # "SUCCESS" => here \in {"finalDrain", "end"}
  /\ err = "SUCCESS" /\ here = "finalDrain" => idx > Len(program)

\* The slot that the current dispatch is prepared in is its own.
SlotMatches ==
  /\ here \in {"prepare", "vtcm", "launch", "kernel", "abort"} => ~ tasks[slot].inFlight
  /\ here \in {"vtcm", "launch", "abort"} => tasks[slot].cmd = idx
  /\ here = "kernel" => tasks[slot].cmd = idx - 1
  /\ here \in {"vtcm", "abort"} => tasks[slot].part = {}

\* The tasks in flight are different dispatches, started since the last barrier.
TasksMatch ==
  /\ \A t \in InFlight :
       /\ tasks[t].cmd \in 1 .. idx - 1
       /\ program[tasks[t].cmd].kind = "dispatch"
       /\ \A k \in tasks[t].cmd .. idx - 1 : program[k].kind # "barrier"
       /\ here \in {"kernel", "inline"} => tasks[t].cmd < idx - 1
  /\ \A t, u \in InFlight : t # u => tasks[t].cmd # tasks[u].cmd

\* Where a failure is known: in the status, or in a task that is not finished yet.
FailuresMatch ==
  /\ status = "EFAILED" => failed # {}
  /\ failed # {} => status = "EFAILED" \/ \E t \in InFlight : tasks[t].state = "FAILED"
  /\ \A t \in InFlight : tasks[t].state = "FAILED" => failed # {}
  /\ err = "EFAILED" => status = "EFAILED"

\* The inductive invariant.
Inv ==
  /\ Types /\ Control /\ SlotMatches /\ TasksMatch /\ FailuresMatch
  /\ CompletionsMatch /\ PartitionsSound /\ PinnedByWork /\ GivesUpOnlyOversized

----------------------------------------------------------------------------
(* Lemmas about the operators *)

(* A non-empty set of numbers has a least element: the first free slot exists, and the
   first reference that does not resolve. *)
LEMMA LeastExists ==
  ASSUME NEW T \in SUBSET Nat, T # {}
  PROVE  \E x \in T : \A y \in T : x <= y
<1>1. PICK x \in T : \A y \in T : ~ (<<y, x>> \in OpToRel(<, Nat))
  BY NatLessThanWellFounded, WFMin
<1>2. \A y \in T : ~ (y < x) BY <1>1 DEF OpToRel
<1> QED BY <1>2

(* The slots and the granules are finite sets. *)
LEMMA SlotsFinite ==
  /\ IsFiniteSet(Slots) /\ Cardinality(Slots) = MaxConcurrent
  /\ IsFiniteSet(Granules) /\ Cardinality(Granules) = VtcmPool
BY FS_Interval DEF Slots, Granules

(* A recorded command is a record with a finite sequence of references. *)
LEMMA CommandType ==
  ASSUME program \in Programs
  PROVE  /\ Len(program) \in Nat
         /\ \A i \in 1 .. Len(program) :
              /\ program[i] \in Commands
              /\ program[i].kind = "copy" => Len(program[i].refs) = 2
              /\ program[i].kind = "fill" => Len(program[i].refs) = 1
<1>1. program \in Seq(Commands) BY ProgramsAssumption DEF Commands
<1>2. DOMAIN program = 1 .. Len(program) /\ Len(program) \in Nat BY <1>1
<1> QED BY <1>1, <1>2, OperandsAssumption

(* A sequence of references uses a buffer finitely often. *)
LEMMA OccurrencesType ==
  ASSUME NEW s \in Seq(Fd \cup {BadRef}), NEW fd \in Fd
  PROVE  Occurrences(s, fd) \in Nat
<1>1. IsFiniteSet(DOMAIN s) BY FS_Interval
<1> QED BY <1>1, FS_Subset, FS_CardinalityType DEF Occurrences

(* The uses of a prefix grow by the uses of the next reference, up to those of the whole
   sequence. *)
LEMMA OccurrencesPrefix ==
  ASSUME NEW s \in Seq(Fd \cup {BadRef}), NEW fd \in Fd
  PROVE  /\ Occurrences(SubSeq(s, 1, 0), fd) = 0
         /\ Occurrences(SubSeq(s, 1, Len(s)), fd) = Occurrences(s, fd)
         /\ \A n \in 1 .. Len(s) :
              /\ Occurrences(SubSeq(s, 1, n - 1), fd) \in Nat
              /\ Occurrences(<<s[n]>>, fd) \in Nat
              /\ Occurrences(SubSeq(s, 1, n), fd)
                   = Occurrences(SubSeq(s, 1, n - 1), fd) + Occurrences(<<s[n]>>, fd)
<1> DEFINE at(n) == {i \in 1 .. n : s[i] = fd}
<1>1. ASSUME NEW n \in 0 .. Len(s)
      PROVE  /\ Occurrences(SubSeq(s, 1, n), fd) = Cardinality(at(n))
             /\ IsFiniteSet(at(n)) /\ Cardinality(at(n)) \in Nat
  <2>1. \A i \in 1 .. n : s[i] \in Fd \cup {BadRef} OBVIOUS
  <2>2. /\ SubSeq(s, 1, n) \in Seq(Fd \cup {BadRef})
        /\ Len(SubSeq(s, 1, n)) = n
        /\ \A i \in 1 .. n : SubSeq(s, 1, n)[i] = s[i]
    BY <2>1, SubSeqProperties
  <2>3. DOMAIN SubSeq(s, 1, n) = 1 .. n BY <2>2
  <2>4. {i \in DOMAIN SubSeq(s, 1, n) : SubSeq(s, 1, n)[i] = fd} = at(n) BY <2>2, <2>3
  <2>5. IsFiniteSet(1 .. n) BY FS_Interval
  <2>6. IsFiniteSet(at(n)) /\ Cardinality(at(n)) \in Nat
    BY <2>5, FS_Subset, FS_CardinalityType
  <2> QED BY <2>4, <2>6 DEF Occurrences
<1>2. at(0) = {} OBVIOUS
<1>3. Occurrences(SubSeq(s, 1, 0), fd) = 0 BY <1>1, <1>2, FS_EmptySet
<1>4. SubSeq(s, 1, Len(s)) = s BY SubSeqFull
<1>5. ASSUME NEW n \in 1 .. Len(s)
      PROVE  /\ Occurrences(SubSeq(s, 1, n - 1), fd) \in Nat
             /\ Occurrences(<<s[n]>>, fd) \in Nat
             /\ Occurrences(SubSeq(s, 1, n), fd)
                  = Occurrences(SubSeq(s, 1, n - 1), fd) + Occurrences(<<s[n]>>, fd)
  <2>1. n - 1 \in 0 .. Len(s) /\ n \in 0 .. Len(s) /\ n \notin at(n - 1) OBVIOUS
  <2>2. CASE s[n] = fd
    <3>1. at(n) = at(n - 1) \cup {n} BY <2>2
    <3>2. {i \in DOMAIN <<s[n]>> : <<s[n]>>[i] = fd} = {1} BY <2>2
    <3>3. Occurrences(<<s[n]>>, fd) = 1 BY <3>2, FS_Singleton DEF Occurrences
    <3>4. Cardinality(at(n)) = Cardinality(at(n - 1)) + 1
      BY <2>1, <1>1, <3>1, FS_AddElement, ZenonT(30)
    <3> HIDE DEF at
    <3> QED BY <1>1, <2>1, <3>3, <3>4
  <2>3. CASE s[n] # fd
    <3>1. at(n) = at(n - 1) BY <2>3
    <3>2. {i \in DOMAIN <<s[n]>> : <<s[n]>>[i] = fd} = {} BY <2>3
    <3>3. Occurrences(<<s[n]>>, fd) = 0 BY <3>2, FS_EmptySet DEF Occurrences
    <3> HIDE DEF at
    <3> QED BY <1>1, <2>1, <3>1, <3>3
  <2> QED BY <2>2, <2>3
<1> QED BY <1>3, <1>4, <1>5

----------------------------------------------------------------------------
(* How the sums change *)

\* What task t pins of fd, and what all of them pin.
Weight(fd) ==
  [t \in Slots |-> IF tasks[t].inFlight \/ (t = slot /\ Preparing)
                   THEN Occurrences(program[tasks[t].cmd].refs, fd) ELSE 0]
DispatchUses(fd) == SumOver(Weight(fd), Slots)

\* What the copy or fill at hand pins of fd.
InlineUses(fd) ==
  CASE pc \in {"acquire", "drain", "retry"} \/ (pc = "wait" /\ back = "drain") ->
         Occurrences(SubSeq(program[idx].refs, 1, operand - 1), fd)
    [] pc = "inline" -> Occurrences(program[idx - 1].refs, fd)
    [] OTHER -> 0

Parts == [t \in Slots |-> Cardinality(tasks[t].part)]

(* UsesOf is the sum of the two. *)
LEMMA UsesSplit == \A fd \in Fd : UsesOf(fd) = DispatchUses(fd) + InlineUses(fd)
BY DEF UsesOf, DispatchUses, InlineUses, Weight

(* Preparing is being at one of four labels. *)
LEMMA PreparingHere ==
  Control => (Preparing <=> here \in {"vtcm", "launch", "kernel", "abort"})
BY DEF Control, Preparing, here

(* A task that holds buffers is one of the program's commands. *)
LEMMA HolderType ==
  ASSUME Types, Control, SlotMatches, TasksMatch, NEW t \in Slots,
         tasks[t].inFlight \/ (t = slot /\ Preparing)
  PROVE  /\ tasks[t].cmd \in 1 .. Len(program)
         /\ program[tasks[t].cmd] \in Commands
<1>1. Len(program) \in Nat BY CommandType DEF Types
<1>2. tasks[t].cmd \in 1 .. Len(program)
  <2>1. CASE tasks[t].inFlight
    BY <1>1, <2>1 DEF Types, TasksMatch, InFlight
  <2>2. CASE t = slot /\ Preparing
    <3>1. here \in {"vtcm", "launch", "kernel", "abort"} BY <2>2, PreparingHere
    <3>2. CASE here = "kernel"
      BY <1>1, <2>2, <3>2 DEF Types, Control, SlotMatches
    <3>3. CASE here # "kernel"
      BY <1>1, <2>2, <3>1, <3>3 DEF Types, Control, SlotMatches
    <3> QED BY <3>2, <3>3
  <2> QED BY <2>1, <2>2
<1> QED BY <1>2, CommandType DEF Types

(* The weights are natural numbers. *)
LEMMA WeightType ==
  ASSUME Types, Control, SlotMatches, TasksMatch, NEW fd \in Fd
  PROVE  /\ \A t \in Slots : Weight(fd)[t] \in Nat
         /\ DispatchUses(fd) \in Nat
<1>1. ASSUME NEW t \in Slots PROVE Weight(fd)[t] \in Nat
  <2>1. CASE tasks[t].inFlight \/ (t = slot /\ Preparing)
    <3>1. program[tasks[t].cmd].refs \in Seq(Fd \cup {BadRef})
      BY <2>1, HolderType DEF Commands
    <3> QED BY <2>1, <3>1, OccurrencesType DEF Weight
  <2>2. CASE ~ (tasks[t].inFlight \/ (t = slot /\ Preparing))
    BY <2>2 DEF Weight
  <2> QED BY <2>1, <2>2
<1> QED BY <1>1, SumType, SlotsFinite DEF DispatchUses

(* When one task's weight changes, the sum changes by as much. *)
LEMMA DispatchUsesChange ==
  ASSUME Types, Control, SlotMatches, TasksMatch, NEW fd \in Fd, NEW x \in Slots,
         Weight(fd)'[x] \in Nat,
         \A t \in Slots \ {x} : Weight(fd)'[t] = Weight(fd)[t]
  PROVE  DispatchUses(fd)' = DispatchUses(fd) - Weight(fd)[x] + Weight(fd)'[x]
<1>1. \A t \in Slots : Weight(fd)[t] \in Nat /\ Weight(fd)'[t] \in Nat BY WeightType
<1>2. SumOver(Weight(fd)', Slots) + Weight(fd)[x] = SumOver(Weight(fd), Slots) + Weight(fd)'[x]
  BY <1>1, SumUpdate, SlotsFinite
<1>3. SumOver(Weight(fd)', Slots) \in Nat /\ SumOver(Weight(fd), Slots) \in Nat
  BY <1>1, SumType, SlotsFinite
<1>4. DispatchUses(fd)' = SumOver(Weight(fd)', Slots) BY DEF DispatchUses, Slots
<1> HIDE DEF Weight
<1> QED BY <1>1, <1>2, <1>3, <1>4 DEF DispatchUses

(* When no task's weight changes, the sum does not either. *)
LEMMA DispatchUsesSame ==
  ASSUME NEW fd \in Fd, \A t \in Slots : Weight(fd)'[t] = Weight(fd)[t]
  PROVE  DispatchUses(fd)' = DispatchUses(fd)
BY SumSame DEF DispatchUses, Slots

\* A step that leaves the tasks, the counters and the failures alone, and does not start
\* or end the preparation of a dispatch.
Quiet ==
  /\ UNCHANGED <<input, tasks, vtcmInUse, numInFlight, numCompleted, status, failed>>
  /\ \/ slot' = slot /\ (Preparing' <=> Preparing)
     \/ ~ Preparing /\ ~ Preparing'

(* Such a step preserves what is said about the tasks alone. *)
LEMMA QuietStep ==
  ASSUME Inv, Quiet
  PROVE  /\ PartitionsSound'
         /\ \A fd \in Fd : DispatchUses(fd)' = DispatchUses(fd)
         /\ InFlight' = InFlight
         /\ numCompleted' = Cardinality({t \in Slots : Completed(t)})'
         /\ numInFlight' = Cardinality(InFlight)'
<1>1. PartitionsSound' BY DEF Inv, Quiet, PartitionsSound
<1>2. ASSUME NEW fd \in Fd PROVE DispatchUses(fd)' = DispatchUses(fd)
  <2>1. \A t \in Slots : Weight(fd)'[t] = Weight(fd)[t] BY DEF Quiet, input, Weight
  <2> QED BY <2>1, DispatchUsesSame
<1>3. InFlight' = InFlight /\ {t \in Slots : Completed(t)}' = {t \in Slots : Completed(t)}
  BY DEF Quiet, InFlight, Completed
<1>4. /\ numCompleted' = Cardinality({t \in Slots : Completed(t)})'
      /\ numInFlight' = Cardinality(InFlight)'
  BY <1>3 DEF Inv, Quiet, CompletionsMatch
<1> QED BY <1>1, <1>2, <1>3, <1>4

(* The same for the next state. *)
LEMMA UsesSplitNext == \A fd \in Fd : UsesOf(fd)' = DispatchUses(fd)' + InlineUses(fd)'
BY DEF UsesOf, DispatchUses, InlineUses, Weight

(* The counters are bounded by the number of slots, and the count is 0 only when nothing
   is in flight. *)
LEMMA CountersType ==
  ASSUME CompletionsMatch
  PROVE  /\ numInFlight \in 0 .. MaxConcurrent /\ numCompleted \in 0 .. MaxConcurrent
         /\ numInFlight = 0 <=> InFlight = {}
         /\ IsFiniteSet(InFlight) /\ IsFiniteSet({t \in Slots : Completed(t)})
         /\ numInFlight = MaxConcurrent => InFlight = Slots
<1>1. InFlight \in SUBSET Slots /\ {t \in Slots : Completed(t)} \in SUBSET Slots
  BY DEF InFlight
<1>2. /\ IsFiniteSet(InFlight) /\ Cardinality(InFlight) <= MaxConcurrent
      /\ Cardinality(InFlight) = MaxConcurrent => InFlight = Slots
  BY <1>1, FS_Subset, SlotsFinite
<1>3. /\ IsFiniteSet({t \in Slots : Completed(t)})
      /\ Cardinality({t \in Slots : Completed(t)}) <= MaxConcurrent
  BY <1>1, FS_Subset, SlotsFinite
<1>4. Cardinality(InFlight) \in Nat /\ Cardinality({t \in Slots : Completed(t)}) \in Nat
  BY <1>2, <1>3, FS_CardinalityType
<1>5. Cardinality(InFlight) = 0 <=> InFlight = {} BY <1>2, FS_EmptySet
<1> QED BY <1>2, <1>3, <1>4, <1>5 DEF CompletionsMatch

----------------------------------------------------------------------------
(* Steps of the master that leave the tasks alone *)

(* exec_cmds enters the walk, or returns for want of memory. *)
LEMMA StartInv == Inv /\ Start => Inv'
<1> SUFFICES ASSUME Inv, Start PROVE Inv' OBVIOUS
<1>0. /\ Types /\ Control /\ SlotMatches /\ TasksMatch /\ FailuresMatch
      /\ CompletionsMatch /\ PinnedByWork /\ GivesUpOnlyOversized
  BY DEF Inv
<1>1. Len(program) \in Nat /\ numInFlight \in Nat /\ (numInFlight = 0 => InFlight = {})
  BY <1>0, CommandType, CountersType DEF Types
<1>2. Quiet BY <1>0 DEF Start, Goto, Return, Quiet, Preparing, Control, here, input
<1>3. /\ PartitionsSound' /\ InFlight' = InFlight
      /\ \A fd \in Fd : DispatchUses(fd)' = DispatchUses(fd)
      /\ numCompleted' = Cardinality({t \in Slots : Completed(t)})'
      /\ numInFlight' = Cardinality(InFlight)'
  BY <1>2, QuietStep
<1>4. Types' BY <1>0, <1>1 DEF Start, Goto, Return, Types, Control, here, Labels, input, Slots,
  TaskRecords, Granules
<1>5. Control' BY <1>0, <1>1 DEF Start, Goto, Return, Types, Control, here, cmd, input
<1>6. SlotMatches' BY <1>0, <1>1 DEF Start, Goto, Return, Types, Control, SlotMatches, here
<1>7. TasksMatch' BY <1>0, <1>1, <1>3 DEF Start, Goto, Return, Types, Control, TasksMatch, here, input
<1>8. FailuresMatch' BY <1>0, <1>3 DEF Start, Goto, Return, Types, FailuresMatch
<1>9. CompletionsMatch' BY <1>0, <1>3 DEF Start, Goto, Return, CompletionsMatch
<1>10. ASSUME NEW fd \in Fd PROVE refs'[fd] = UsesOf(fd)'
  <2>1. refs[fd] = DispatchUses(fd) + InlineUses(fd) BY <1>0, UsesSplit DEF PinnedByWork
  <2>2. InlineUses(fd)' = InlineUses(fd) BY <1>0 DEF Start, Goto, Return, InlineUses, Control, here, input
  <2> QED BY <1>3, <2>1, <2>2, UsesSplitNext DEF Start, Goto, Return
<1>11. GivesUpOnlyOversized'
  BY <1>0 DEF Start, Goto, Return, Types, GivesUpOnlyOversized, Control, here,
     cmd, input
<1> QED BY <1>3, <1>4, <1>5, <1>6, <1>7, <1>8, <1>9, <1>10, <1>11 DEF Inv, PinnedByWork

(* A copy that is short of budget waits until nothing is in flight. *)
LEMMA DrainInv == Inv /\ Drain => Inv'
<1> SUFFICES ASSUME Inv, Drain PROVE Inv' OBVIOUS
<1>0. /\ Types /\ Control /\ SlotMatches /\ TasksMatch /\ FailuresMatch
      /\ CompletionsMatch /\ PinnedByWork /\ GivesUpOnlyOversized
  BY DEF Inv
<1>1. Len(program) \in Nat /\ numInFlight \in Nat /\ (numInFlight = 0 => InFlight = {})
  BY <1>0, CommandType, CountersType DEF Types
<1>2. Quiet BY <1>0 DEF Drain, CallWait, Goto, Quiet, Preparing, Control, here, input
<1>3. /\ PartitionsSound' /\ InFlight' = InFlight
      /\ \A fd \in Fd : DispatchUses(fd)' = DispatchUses(fd)
      /\ numCompleted' = Cardinality({t \in Slots : Completed(t)})'
      /\ numInFlight' = Cardinality(InFlight)'
  BY <1>2, QuietStep
<1>4. Types' BY <1>0, <1>1 DEF Drain, CallWait, Goto, Types, Control, here, Labels, input, Slots,
  TaskRecords, Granules
<1>5. Control' BY <1>0, <1>1 DEF Drain, CallWait, Goto, Types, Control, here, cmd, input
<1>6. SlotMatches' BY <1>0, <1>1 DEF Drain, CallWait, Goto, Types, Control, SlotMatches, here
<1>7. TasksMatch' BY <1>0, <1>1, <1>3 DEF Drain, CallWait, Goto, Types, Control, TasksMatch, here, input
<1>8. FailuresMatch' BY <1>0, <1>3 DEF Drain, CallWait, Goto, Types, FailuresMatch
<1>9. CompletionsMatch' BY <1>0, <1>3 DEF Drain, CallWait, Goto, CompletionsMatch
<1>10. ASSUME NEW fd \in Fd PROVE refs'[fd] = UsesOf(fd)'
  <2>1. refs[fd] = DispatchUses(fd) + InlineUses(fd) BY <1>0, UsesSplit DEF PinnedByWork
  <2>2. InlineUses(fd)' = InlineUses(fd) BY <1>0 DEF Drain, CallWait, Goto, InlineUses, Control, here, input
  <2> QED BY <1>3, <2>1, <2>2, UsesSplitNext DEF Drain, CallWait, Goto
<1>11. GivesUpOnlyOversized'
  BY <1>0 DEF Drain, CallWait, Goto, Types, GivesUpOnlyOversized, Control, here,
     cmd, input
<1> QED BY <1>3, <1>4, <1>5, <1>6, <1>7, <1>8, <1>9, <1>10, <1>11 DEF Inv, PinnedByWork

(* The execution ends when nothing is in flight. *)
LEMMA FinalDrainInv == Inv /\ FinalDrain => Inv'
<1> SUFFICES ASSUME Inv, FinalDrain PROVE Inv' OBVIOUS
<1>0. /\ Types /\ Control /\ SlotMatches /\ TasksMatch /\ FailuresMatch
      /\ CompletionsMatch /\ PinnedByWork /\ GivesUpOnlyOversized
  BY DEF Inv
<1>1. Len(program) \in Nat /\ numInFlight \in Nat /\ (numInFlight = 0 => InFlight = {})
  BY <1>0, CommandType, CountersType DEF Types
<1>2. Quiet BY <1>0 DEF FinalDrain, CallWait, Goto, Quiet, Preparing, Control, here, input
<1>3. /\ PartitionsSound' /\ InFlight' = InFlight
      /\ \A fd \in Fd : DispatchUses(fd)' = DispatchUses(fd)
      /\ numCompleted' = Cardinality({t \in Slots : Completed(t)})'
      /\ numInFlight' = Cardinality(InFlight)'
  BY <1>2, QuietStep
<1>4. Types' BY <1>0, <1>1 DEF FinalDrain, CallWait, Goto, Types, Control, here, Labels, input, Slots,
  TaskRecords, Granules
<1>5. Control' BY <1>0, <1>1 DEF FinalDrain, CallWait, Goto, Types, Control, here, cmd, input
<1>6. SlotMatches' BY <1>0, <1>1 DEF FinalDrain, CallWait, Goto, Types, Control, SlotMatches, here
<1>7. TasksMatch' BY <1>0, <1>1, <1>3 DEF FinalDrain, CallWait, Goto, Types, Control, TasksMatch, here, input
<1>8. FailuresMatch' BY <1>0, <1>3 DEF FinalDrain, CallWait, Goto, Types, FailuresMatch
<1>9. CompletionsMatch' BY <1>0, <1>3 DEF FinalDrain, CallWait, Goto, CompletionsMatch
<1>10. ASSUME NEW fd \in Fd PROVE refs'[fd] = UsesOf(fd)'
  <2>1. refs[fd] = DispatchUses(fd) + InlineUses(fd) BY <1>0, UsesSplit DEF PinnedByWork
  <2>2. InlineUses(fd)' = InlineUses(fd) BY <1>0 DEF FinalDrain, CallWait, Goto, InlineUses, Control, here, input
  <2> QED BY <1>3, <2>1, <2>2, UsesSplitNext DEF FinalDrain, CallWait, Goto
<1>11. GivesUpOnlyOversized'
  BY <1>0 DEF FinalDrain, CallWait, Goto, Types, GivesUpOnlyOversized, Control, here,
     cmd, input
<1> QED BY <1>3, <1>4, <1>5, <1>6, <1>7, <1>8, <1>9, <1>10, <1>11 DEF Inv, PinnedByWork

(* The master falls asleep only when no completion is pending. *)
LEMMA WaitSleepInv == Inv /\ WaitSleep => Inv'
<1> SUFFICES ASSUME Inv, WaitSleep PROVE Inv' OBVIOUS
<1>0. /\ Types /\ Control /\ SlotMatches /\ TasksMatch /\ FailuresMatch
      /\ CompletionsMatch /\ PinnedByWork /\ GivesUpOnlyOversized
  BY DEF Inv
<1>1. Len(program) \in Nat /\ numInFlight \in Nat /\ (numInFlight = 0 => InFlight = {})
  BY <1>0, CommandType, CountersType DEF Types
<1>2. Quiet BY <1>0 DEF WaitSleep, Quiet, Preparing, Control, here, input
<1>3. /\ PartitionsSound' /\ InFlight' = InFlight
      /\ \A fd \in Fd : DispatchUses(fd)' = DispatchUses(fd)
      /\ numCompleted' = Cardinality({t \in Slots : Completed(t)})'
      /\ numInFlight' = Cardinality(InFlight)'
  BY <1>2, QuietStep
<1>4. Types' BY <1>0, <1>1 DEF WaitSleep, Types, Control, here, Labels, input, Slots,
  TaskRecords, Granules
<1>5. Control' BY <1>0, <1>1 DEF WaitSleep, Types, Control, here, cmd, input
<1>6. SlotMatches' BY <1>0, <1>1 DEF WaitSleep, Types, Control, SlotMatches, here
<1>7. TasksMatch' BY <1>0, <1>1, <1>3 DEF WaitSleep, Types, Control, TasksMatch, here, input
<1>8. FailuresMatch' BY <1>0, <1>3 DEF WaitSleep, Types, FailuresMatch
<1>9. CompletionsMatch' BY <1>0, <1>3 DEF WaitSleep, CompletionsMatch
<1>10. ASSUME NEW fd \in Fd PROVE refs'[fd] = UsesOf(fd)'
  <2>1. refs[fd] = DispatchUses(fd) + InlineUses(fd) BY <1>0, UsesSplit DEF PinnedByWork
  <2>2. InlineUses(fd)' = InlineUses(fd) BY <1>0 DEF WaitSleep, InlineUses, Control, here, input
  <2> QED BY <1>3, <2>1, <2>2, UsesSplitNext DEF WaitSleep
<1>11. GivesUpOnlyOversized'
  BY <1>0 DEF WaitSleep, Types, GivesUpOnlyOversized, Control, here,
     cmd, input
<1> QED BY <1>3, <1>4, <1>5, <1>6, <1>7, <1>8, <1>9, <1>10, <1>11 DEF Inv, PinnedByWork

(* A barrier is passed when nothing is in flight. *)
LEMMA BarrierInv == Inv /\ Barrier => Inv'
<1> SUFFICES ASSUME Inv, Barrier PROVE Inv' OBVIOUS
<1>0. /\ Types /\ Control /\ SlotMatches /\ TasksMatch /\ FailuresMatch
      /\ CompletionsMatch /\ PinnedByWork /\ GivesUpOnlyOversized
  BY DEF Inv
<1>1. Len(program) \in Nat /\ numInFlight \in Nat /\ (numInFlight = 0 => InFlight = {})
  BY <1>0, CommandType, CountersType DEF Types
<1>2. Quiet BY <1>0 DEF Barrier, CallWait, Goto, Quiet, Preparing, Control, here, input
<1>3. /\ PartitionsSound' /\ InFlight' = InFlight
      /\ \A fd \in Fd : DispatchUses(fd)' = DispatchUses(fd)
      /\ numCompleted' = Cardinality({t \in Slots : Completed(t)})'
      /\ numInFlight' = Cardinality(InFlight)'
  BY <1>2, QuietStep
<1>4. Types' BY <1>0, <1>1 DEF Barrier, CallWait, Goto, Types, Control, here, Labels, input, Slots,
  TaskRecords, Granules
<1>5. Control' BY <1>0, <1>1 DEF Barrier, CallWait, Goto, Types, Control, here, cmd, input
<1>6. SlotMatches' BY <1>0, <1>1 DEF Barrier, CallWait, Goto, Types, Control, SlotMatches, here
<1>7. TasksMatch' BY <1>0, <1>1, <1>3 DEF Barrier, CallWait, Goto, Types, Control, TasksMatch, here, input
<1>8. FailuresMatch' BY <1>0, <1>3 DEF Barrier, CallWait, Goto, Types, FailuresMatch
<1>9. CompletionsMatch' BY <1>0, <1>3 DEF Barrier, CallWait, Goto, CompletionsMatch
<1>10. ASSUME NEW fd \in Fd PROVE refs'[fd] = UsesOf(fd)'
  <2>1. refs[fd] = DispatchUses(fd) + InlineUses(fd) BY <1>0, UsesSplit DEF PinnedByWork
  <2>2. InlineUses(fd)' = InlineUses(fd) BY <1>0 DEF Barrier, CallWait, Goto, InlineUses, Control, here, input
  <2> QED BY <1>3, <2>1, <2>2, UsesSplitNext DEF Barrier, CallWait, Goto
<1>11. GivesUpOnlyOversized'
  BY <1>0 DEF Barrier, CallWait, Goto, Types, GivesUpOnlyOversized, Control, here,
     cmd, input
<1> QED BY <1>3, <1>4, <1>5, <1>6, <1>7, <1>8, <1>9, <1>10, <1>11 DEF Inv, PinnedByWork

(* The top of the loop selects the label for the kind of the command. *)
LEMMA WalkInv == Inv /\ Walk => Inv'
<1> SUFFICES ASSUME Inv, Walk PROVE Inv' OBVIOUS
<1> USE DEF Walk, Goto, Return
<1>0. /\ Types /\ Control /\ SlotMatches /\ TasksMatch /\ FailuresMatch
      /\ CompletionsMatch /\ PinnedByWork /\ GivesUpOnlyOversized
  BY DEF Inv
<1>1. Len(program) \in Nat /\ numInFlight \in Nat
  BY <1>0, CommandType, CountersType DEF Types
<1>a. \/ idx <= Len(program) /\ cmd.kind = "dispatch" /\ pc' = "slot" /\ err' = err
      \/ idx <= Len(program) /\ cmd.kind = "barrier" /\ pc' = "barrier" /\ err' = err
      \/ /\ idx <= Len(program) /\ cmd.kind \in {"copy", "fill"} /\ Len(cmd.refs) >= 1
         /\ pc' = "acquire" /\ err' = err
      \/ idx > Len(program) /\ pc' = "finalDrain" /\ err' = "SUCCESS"
      \/ pc' = "finalDrain" /\ err' \in {"EFAILED", "EBADITEM"} /\ (err' = "EFAILED" => status = "EFAILED")
  <2>1. CASE idx > Len(program) BY <2>1
  <2>2. CASE idx <= Len(program)
    <3>1. idx \in 1 .. Len(program) BY <1>0, <1>1, <2>2 DEF Types
    <3>2. /\ cmd.kind \in {"dispatch", "barrier", "copy", "fill", "invalid"}
          /\ cmd.kind = "copy" => Len(cmd.refs) = 2
          /\ cmd.kind = "fill" => Len(cmd.refs) = 1
      BY <1>0, <3>1, CommandType DEF Types, Commands, cmd
    <3>3. ~ (idx > Len(program)) BY <1>1, <3>1
    <3>4. CASE status # "SUCCESS" BY <1>0, <3>3, <3>4 DEF Types
    <3>5. CASE status = "SUCCESS" /\ cmd.kind = "invalid" BY <3>3, <3>5
    <3>6. CASE status = "SUCCESS" /\ cmd.kind # "invalid"
      <4>1. pc' = Entry(cmd.kind) /\ err' = err BY <3>3, <3>6
      <4> HIDE DEF Walk
      <4>2. CASE cmd.kind = "dispatch" BY <2>2, <4>1, <4>2 DEF Entry
      <4>3. CASE cmd.kind = "barrier" BY <2>2, <4>1, <4>3 DEF Entry
      <4>4. CASE cmd.kind \in {"copy", "fill"}
        <5>0. Len(cmd.refs) = 2 \/ Len(cmd.refs) = 1 BY <3>2, <4>4
        <5>1. Len(cmd.refs) >= 1 BY <5>0
        <5>2. pc' = "acquire" BY <4>1, <4>4 DEF Entry
        <5> QED BY <2>2, <4>1, <4>4, <5>1, <5>2
      <4> QED BY <3>2, <3>6, <4>2, <4>3, <4>4
    <3> QED BY <3>4, <3>5, <3>6
  <2> QED BY <1>0, <1>1, <2>1, <2>2 DEF Types
<1>2. Quiet BY <1>0, <1>a DEF Quiet, Preparing, Control, here, input
<1>3. /\ PartitionsSound' /\ InFlight' = InFlight
      /\ \A fd \in Fd : DispatchUses(fd)' = DispatchUses(fd)
      /\ numCompleted' = Cardinality({t \in Slots : Completed(t)})'
      /\ numInFlight' = Cardinality(InFlight)'
  BY <1>2, QuietStep
<1>b. pc = "walk" /\ operand' = 1
      /\ UNCHANGED <<input, idx, slot, tasks, numInFlight, numCompleted, vtcmInUse, refs,
                 status, failed, back, asleep>>
  OBVIOUS
<1> HIDE DEF Walk
<1>4. Types' BY <1>0, <1>1, <1>a, <1>b DEF Types, Labels, input, Slots,
  TaskRecords, Granules
<1>5. Control' BY <1>0, <1>1, <1>a, <1>b DEF Types, Control, here, cmd, input
<1>6. SlotMatches' BY <1>0, <1>a, <1>b DEF SlotMatches, here
<1>7. TasksMatch' BY <1>0, <1>3, <1>a, <1>b DEF TasksMatch, here, input
<1>8. FailuresMatch'
  BY <1>0, <1>3, <1>a, <1>b DEF FailuresMatch
<1>9. CompletionsMatch' BY <1>0, <1>3, <1>a, <1>b DEF CompletionsMatch
<1>10. ASSUME NEW fd \in Fd PROVE refs'[fd] = UsesOf(fd)'
  <2>1. refs[fd] = DispatchUses(fd) + InlineUses(fd) BY <1>0, UsesSplit DEF PinnedByWork
  <2>2. InlineUses(fd) = 0 BY <1>b DEF InlineUses
  <2>3. InlineUses(fd)' = 0
    <3>1. CASE pc' = "acquire"
      <4>1. idx \in 1 .. Len(program) BY <1>0, <1>1, <1>a, <3>1 DEF Types
      <4>2. program[idx].refs \in Seq(Fd \cup {BadRef})
        BY <1>0, <4>1, CommandType DEF Types, Commands
      <4>3. Occurrences(SubSeq(program[idx].refs, 1, 0), fd) = 0
        BY <4>2, OccurrencesPrefix
      <4>4. operand' - 1 = 0 BY <1>b
      <4> QED BY <1>b, <3>1, <4>3, <4>4 DEF InlineUses, input
    <3>2. CASE pc' # "acquire" BY <1>a, <3>2 DEF InlineUses
    <3> QED BY <3>1, <3>2
  <2> QED BY <1>b, <1>3, <2>1, <2>2, <2>3, UsesSplitNext
<1>11. GivesUpOnlyOversized'
  BY <1>0, <1>a, <1>b DEF GivesUpOnlyOversized, Control, here
<1> QED BY <1>3, <1>4, <1>5, <1>6, <1>7, <1>8, <1>9, <1>10, <1>11 DEF Inv, PinnedByWork

(* When the count says that a slot is free, the first free one exists: the assert of
   exec_dispatch cannot fail. *)
LEMMA FreeSlotExists ==
  ASSUME Types, CompletionsMatch, numInFlight < MaxConcurrent
  PROVE  \E t \in Slots : ~ tasks[t].inFlight /\ \A u \in 1 .. t - 1 : tasks[u].inFlight
<1> DEFINE free == {t \in Slots : ~ tasks[t].inFlight}
<1>1. free # {} /\ free \in SUBSET Nat
  <2>1. InFlight # Slots
    <3>1. Cardinality(InFlight) < MaxConcurrent /\ Cardinality(Slots) = MaxConcurrent
      BY SlotsFinite DEF CompletionsMatch
    <3> QED BY <3>1
  <2> QED BY <2>1 DEF InFlight, Slots
<1>2. PICK t \in free : \A u \in free : t <= u BY <1>1, LeastExists
<1>3. \A u \in 1 .. t - 1 : u \in Slots /\ u \notin free BY <1>2 DEF Slots
<1> QED BY <1>2, <1>3

(* exec_dispatch picks a slot that is not in flight. *)
LEMMA PickSlotInv == Inv /\ PickSlot => Inv'
<1> SUFFICES ASSUME Inv, PickSlot PROVE Inv' OBVIOUS
<1>0. /\ Types /\ Control /\ SlotMatches /\ TasksMatch /\ FailuresMatch
      /\ CompletionsMatch /\ PinnedByWork /\ GivesUpOnlyOversized
  BY DEF Inv
<1>1. Len(program) \in Nat /\ numInFlight \in 0 .. MaxConcurrent
  BY <1>0, CommandType, CountersType DEF Types
<1>a. \/ /\ pc' = "wait" /\ back' = "slot" /\ slot' = slot /\ numInFlight > 0
      \/ /\ pc' = "prepare" /\ slot' \in Slots /\ ~ tasks[slot'].inFlight /\ back' = back
  <2>1. CASE numInFlight >= MaxConcurrent BY <1>1, <2>1 DEF PickSlot, CallWait
  <2>2. CASE ~ (numInFlight >= MaxConcurrent)
    <3>1. \E t \in Slots : ~ tasks[t].inFlight /\ \A u \in 1 .. t - 1 : tasks[u].inFlight
      BY <1>0, <1>1, <2>2, FreeSlotExists
    <3> QED BY <2>2, <3>1 DEF PickSlot, Goto
  <2> QED BY <2>1, <2>2
<1>b. pc = "slot"
      /\ UNCHANGED <<input, idx, operand, tasks, numInFlight, numCompleted, vtcmInUse, refs,
                 status, err, failed, asleep>>
  BY DEF PickSlot, Goto, CallWait
<1>2. Quiet BY <1>0, <1>a, <1>b DEF Quiet, Preparing
<1>3. /\ PartitionsSound' /\ InFlight' = InFlight
      /\ \A fd \in Fd : DispatchUses(fd)' = DispatchUses(fd)
      /\ numCompleted' = Cardinality({t \in Slots : Completed(t)})'
      /\ numInFlight' = Cardinality(InFlight)'
  BY <1>2, QuietStep
<1>4. Types' BY <1>0, <1>a, <1>b DEF Types, Labels, input,
  TaskRecords, Granules
<1>5. Control' BY <1>0, <1>a, <1>b DEF Control, here, cmd, input
<1>6. SlotMatches' BY <1>0, <1>a, <1>b DEF SlotMatches, here
<1>7. TasksMatch' BY <1>0, <1>3, <1>a, <1>b DEF TasksMatch, here, input
<1>8. FailuresMatch' BY <1>0, <1>3, <1>b DEF FailuresMatch
<1>9. CompletionsMatch' BY <1>0, <1>3, <1>a, <1>b DEF CompletionsMatch
<1>10. ASSUME NEW fd \in Fd PROVE refs'[fd] = UsesOf(fd)'
  <2>1. refs[fd] = DispatchUses(fd) + InlineUses(fd) BY <1>0, UsesSplit DEF PinnedByWork
  <2>2. InlineUses(fd)' = InlineUses(fd) BY <1>a, <1>b DEF InlineUses
  <2> QED BY <1>3, <1>b, <2>1, <2>2, UsesSplitNext
<1>11. GivesUpOnlyOversized'
  BY <1>0, <1>a, <1>b DEF GivesUpOnlyOversized, Control, here
<1> QED BY <1>3, <1>4, <1>5, <1>6, <1>7, <1>8, <1>9, <1>10, <1>11 DEF Inv, PinnedByWork

(* A copy or fill that ran gives back its operands. *)
LEMMA InlineInv == Inv /\ Inline => Inv'
<1> SUFFICES ASSUME Inv, Inline PROVE Inv' OBVIOUS
<1>0. /\ Types /\ Control /\ SlotMatches /\ TasksMatch /\ FailuresMatch
      /\ CompletionsMatch /\ PinnedByWork /\ GivesUpOnlyOversized
  BY DEF Inv
<1>1. Len(program) \in Nat BY <1>0, CommandType DEF Types
<1>a. /\ pc = "inline" /\ pc' = "walk" /\ refs' = Released(refs, program[idx - 1].refs)
      /\ UNCHANGED <<back, asleep, input, idx, slot, operand, tasks, numInFlight,
                     numCompleted, vtcmInUse, status, err, failed>>
  BY DEF Inline, Goto
<1>2. Quiet BY <1>a DEF Quiet, Preparing
<1>3. /\ PartitionsSound' /\ InFlight' = InFlight
      /\ \A fd \in Fd : DispatchUses(fd)' = DispatchUses(fd)
      /\ numCompleted' = Cardinality({t \in Slots : Completed(t)})'
      /\ numInFlight' = Cardinality(InFlight)'
  BY <1>2, QuietStep
<1>b. program[idx - 1].refs \in Seq(Fd \cup {BadRef})
  <2>1. idx - 1 \in 1 .. Len(program) BY <1>0, <1>1, <1>a DEF Types, Control, here
  <2> QED BY <1>0, <2>1, CommandType DEF Types, Commands
<1>c. \A fd \in Fd : refs'[fd] = refs[fd] - Occurrences(program[idx - 1].refs, fd)
  BY <1>a DEF Released
<1>d. refs' \in [Fd -> Int]
  <2>1. \A fd \in Fd : Occurrences(program[idx - 1].refs, fd) \in Nat BY <1>b, OccurrencesType
  <2> QED BY <1>0, <1>a, <2>1 DEF Released, Types
<1>4. Types' BY <1>0, <1>a, <1>d DEF Types, Labels, input,
  TaskRecords, Granules
<1>5. Control' BY <1>0, <1>a DEF Control, here, cmd, input
<1>6. SlotMatches' BY <1>a DEF SlotMatches, here
<1>7. TasksMatch' BY <1>0, <1>3, <1>a DEF TasksMatch, here, input
<1>8. FailuresMatch' BY <1>0, <1>3, <1>a DEF FailuresMatch
<1>9. CompletionsMatch' BY <1>0, <1>3, <1>a DEF CompletionsMatch
<1>10. ASSUME NEW fd \in Fd PROVE refs'[fd] = UsesOf(fd)'
  <2>1. refs[fd] = DispatchUses(fd) + InlineUses(fd) BY <1>0, UsesSplit DEF PinnedByWork
  <2>2. InlineUses(fd) = Occurrences(program[idx - 1].refs, fd) BY <1>a DEF InlineUses
  <2>3. InlineUses(fd)' = 0 BY <1>a DEF InlineUses
  <2>4. DispatchUses(fd) \in Nat /\ Occurrences(program[idx - 1].refs, fd) \in Nat
    BY <1>0, <1>b, WeightType, OccurrencesType
  <2> QED BY <1>3, <1>c, <2>1, <2>2, <2>3, <2>4, UsesSplitNext
<1>11. GivesUpOnlyOversized' BY <1>0, <1>a DEF GivesUpOnlyOversized, Control, here
<1> QED BY <1>3, <1>4, <1>5, <1>6, <1>7, <1>8, <1>9, <1>10, <1>11 DEF Inv, PinnedByWork

----------------------------------------------------------------------------
(* Acquiring buffers *)

(* What an acquire returns. *)
LEMMA AcquireCodesType ==
  ASSUME NEW s, NEW pinned, NEW code \in AcquireCodes(s, pinned)
  PROVE  code \in {"SUCCESS", "EBADITEM", "EWOULDBLOCK", "ENOMEMORY"}
BY DEF AcquireCodes

(* Unless the platform fails, an acquire is short of budget only when what is pinned and
   the references together exceed the budget, and finally so only when nothing is pinned. *)
LEMMA AcquireReliable ==
  ASSUME reliable, NEW s \in Seq(Fd \cup {BadRef}), NEW pinned \in SUBSET Fd,
         NEW code \in AcquireCodes(s, pinned), code \in {"EWOULDBLOCK", "ENOMEMORY"}
  PROVE  /\ SumOver(AllocSize, pinned \cup ({s[i] : i \in DOMAIN s} \ {BadRef})) > Budget
         /\ code = "ENOMEMORY" => pinned = {}
<1> DEFINE bad == {i \in DOMAIN s : ~ Resolves(s, i, pinned)}
           first == CHOOSE i \in bad : \A j \in bad : i <= j
           heldAt(i) == pinned \cup Prefix(s, i - 1)
           full(i) == IF heldAt(i) # {} THEN "EWOULDBLOCK" ELSE "ENOMEMORY"
           all == pinned \cup ({s[i] : i \in DOMAIN s} \ {BadRef})
<1>1. code = IF bad = {} THEN "SUCCESS"
             ELSE IF s[first] = BadRef THEN "EBADITEM" ELSE full(first)
  BY DEF AcquireCodes
<1>2. bad # {} /\ s[first] # BadRef /\ code = full(first) BY <1>1
<1>3. DOMAIN s = 1 .. Len(s) /\ Len(s) \in Nat OBVIOUS
<1>4. \E i \in bad : \A j \in bad : i <= j
  <2>1. bad \in SUBSET Nat BY <1>3
  <2> HIDE DEF bad
  <2> QED BY <1>2, <2>1, LeastExists
<1>5. first \in bad /\ \A j \in bad : first <= j
  <2> HIDE DEF bad
  <2> QED BY <1>4
<1>6. first \in 1 .. Len(s) BY <1>3, <1>5
<1> HIDE DEF first
<1>7. \A j \in 1 .. first : s[j] # BadRef
  <2> SUFFICES ASSUME NEW j \in 1 .. first PROVE s[j] # BadRef OBVIOUS
  <2>1. CASE j = first BY <1>2, <2>1
  <2>2. CASE j # first
    <3>1. j \in DOMAIN s /\ j \notin bad BY <1>3, <1>5, <1>6, <2>2
    <3> QED BY <3>1 DEF Resolves
  <2> QED BY <2>1, <2>2
<1>8. pinned \cup Prefix(s, first) \in SUBSET all
  BY <1>3, <1>6, <1>7 DEF Prefix
<1>9. all \in SUBSET Fd BY <1>3
<1>10. IsFiniteSet(all) /\ \A x \in all : AllocSize[x] \in Nat BY <1>9, FS_Subset
<1>11. /\ SumOver(AllocSize, pinned \cup Prefix(s, first)) <= SumOver(AllocSize, all)
       /\ SumOver(AllocSize, all) \in Nat
  BY <1>8, <1>10, SumMonotone, SumType
<1>12. ~ (SumOver(AllocSize, pinned \cup Prefix(s, first)) <= Budget)
  BY <1>2, <1>5 DEF Resolves
<1>13. SumOver(AllocSize, pinned \cup Prefix(s, first)) \in Nat
  <2>1. IsFiniteSet(pinned \cup Prefix(s, first)) BY <1>8, <1>10, FS_Subset
  <2> QED BY <1>8, <1>10, <2>1, SumType
<1>14. SumOver(AllocSize, all) > Budget BY <1>11, <1>12, <1>13
<1>15. code = "ENOMEMORY" => pinned = {} BY <1>2
<1> QED BY <1>14, <1>15

(* Acquiring and releasing keep the reference counts numbers. *)
LEMMA RefsType ==
  ASSUME refs \in [Fd -> Int], NEW s \in Seq(Fd \cup {BadRef})
  PROVE  /\ [fd \in Fd |-> refs[fd] + Occurrences(s, fd)] \in [Fd -> Int]
         /\ Released(refs, s) \in [Fd -> Int]
<1>1. \A fd \in Fd : Occurrences(s, fd) \in Nat BY OccurrencesType
<1> QED BY <1>1 DEF Released

(* What the copy or fill at hand pins is a natural number. *)
LEMMA InlineUsesType ==
  ASSUME Types, Control, NEW fd \in Fd
  PROVE  InlineUses(fd) \in Nat
<1>1. Types /\ Control /\ Len(program) \in Nat BY CommandType DEF Types
<1>2. CASE here \in {"acquire", "drain", "retry"}
  <2>1. idx \in 1 .. Len(program) /\ operand \in 1 .. Len(program[idx].refs)
    BY <1>1, <1>2 DEF Types, Control, cmd
  <2>2. program[idx].refs \in Seq(Fd \cup {BadRef})
    BY <1>1, <2>1, CommandType DEF Types, Commands
  <2>3. Occurrences(SubSeq(program[idx].refs, 1, operand - 1), fd) \in Nat
    BY <2>1, <2>2, OccurrencesPrefix
  <2> QED BY <1>1, <1>2, <2>3 DEF InlineUses, Control, here
<1>3. CASE here = "inline"
  <2>1. idx - 1 \in 1 .. Len(program) BY <1>1, <1>3 DEF Types, Control
  <2>2. program[idx - 1].refs \in Seq(Fd \cup {BadRef})
    BY <1>1, <2>1, CommandType DEF Types, Commands
  <2>3. Occurrences(program[idx - 1].refs, fd) \in Nat BY <2>2, OccurrencesType
  <2>4. pc = "inline" BY <1>1, <1>3 DEF Control, here
  <2> QED BY <2>3, <2>4 DEF InlineUses
<1>4. CASE here \notin {"acquire", "drain", "retry", "inline"}
  BY <1>1, <1>4 DEF InlineUses, Control, here
<1> QED BY <1>2, <1>3, <1>4

(* With nothing in flight and no dispatch prepared, only the copy or fill pins buffers. *)
LEMMA IdlePins ==
  ASSUME Inv, numInFlight = 0, ~ Preparing, NEW fd \in Fd
  PROVE  refs[fd] = InlineUses(fd)
<1>1. InFlight = {} BY CountersType DEF Inv
<1>2. \A t \in Slots : Weight(fd)[t] = 0 BY <1>1 DEF Weight, InFlight
<1>3. DispatchUses(fd) = 0 BY <1>2, SumZero, SlotsFinite DEF DispatchUses
<1>4. refs[fd] = DispatchUses(fd) + InlineUses(fd) BY UsesSplit DEF Inv, PinnedByWork
<1>5. refs[fd] \in Int BY DEF Inv, Types
<1>6. InlineUses(fd) \in Int BY InlineUsesType DEF Inv
<1> QED BY <1>3, <1>4, <1>6

----------------------------------------------------------------------------
(* Steps of a dispatch *)

(* The updates of a task slot that the steps make. *)
LEMMA TasksUpdate ==
  ASSUME tasks \in [Slots -> TaskRecords], NEW t \in Slots
  PROVE  /\ [tasks EXCEPT ![t].inFlight = TRUE, ![t].state = "RUNNING"]
              \in [Slots -> TaskRecords]
         /\ \A s \in {"SUCCEEDED", "FAILED"} :
              [tasks EXCEPT ![t].state = s] \in [Slots -> TaskRecords]
         /\ \A s \in {"RUNNING", "SUCCEEDED", "FAILED"} :
              [tasks EXCEPT ![t].inFlight = FALSE, ![t].part = {}, ![t].state = s]
                \in [Slots -> TaskRecords]
         /\ \A i \in 0 .. Len(program) :
              [tasks EXCEPT ![t].cmd = i, ![t].part = {}] \in [Slots -> TaskRecords]
         /\ \A part \in SUBSET Granules :
              [tasks EXCEPT ![t].part = part] \in [Slots -> TaskRecords]
BY DEF TaskRecords

(* The dispatch is submitted to a worker or run on the master; either way its slot keeps
   what it holds. *)
LEMMA LaunchInv == Inv /\ Launch => Inv'
<1> SUFFICES ASSUME Inv, Launch PROVE Inv' OBVIOUS
<1>0. /\ Types /\ Control /\ SlotMatches /\ TasksMatch /\ FailuresMatch
      /\ CompletionsMatch /\ PartitionsSound /\ PinnedByWork /\ GivesUpOnlyOversized
  BY DEF Inv
<1>1. /\ Len(program) \in Nat /\ idx \in 1 .. Len(program) /\ slot \in Slots
      /\ numInFlight \in Nat
  BY <1>0, CommandType, CountersType DEF Types, Control, here, Launch
<1>2. /\ pc = "launch" /\ here = "launch" /\ ~ tasks[slot].inFlight /\ tasks[slot].cmd = idx
      /\ cmd.kind = "dispatch" /\ program[idx].kind = "dispatch" /\ err = "SUCCESS"
  BY <1>0 DEF Launch, here, SlotMatches, Control, cmd
<1>3. /\ idx' = idx + 1 /\ back' = back /\ asleep' = asleep
      /\ UNCHANGED <<input, program, reliable, slot, operand, numCompleted, vtcmInUse, refs,
                     status, err, failed>>
  BY DEF Launch, Goto, input
<1>4. \/ pc' = "kernel" /\ tasks' = tasks /\ numInFlight' = numInFlight
      \/ /\ pc' = "walk" /\ numInFlight' = numInFlight + 1
         /\ tasks' = [tasks EXCEPT ![slot].inFlight = TRUE, ![slot].state = "RUNNING"]
  BY DEF Launch, Goto
<1>5. \A t \in Slots :
        /\ tasks'[t].cmd = tasks[t].cmd /\ tasks'[t].part = tasks[t].part
        /\ t # slot => tasks'[t] = tasks[t]
        /\ pc' = "kernel" => tasks'[t] = tasks[t]
        /\ pc' = "walk" /\ t = slot => tasks'[t].inFlight /\ tasks'[t].state = "RUNNING"
  BY <1>0, <1>1, <1>4 DEF Types, TaskRecords
<1>6. Types'
  <2>1. TaskRecords' = TaskRecords BY <1>3 DEF TaskRecords, Granules
  <2>3. tasks' \in [Slots -> TaskRecords] BY <1>0, <1>1, <1>4, TasksUpdate, ZenonT(30) DEF Types
  <2>2. idx' \in 1 .. Len(program) + 1 /\ pc' \in Labels BY <1>1, <1>3, <1>4 DEF Labels
  <2> QED BY <1>0, <1>3, <2>1, <2>2, <2>3 DEF Types, Slots
<1>7. InFlight' = IF pc' = "walk" THEN InFlight \cup {slot} ELSE InFlight
  BY <1>0, <1>1, <1>4, <1>5 DEF InFlight
<1>8. {t \in Slots : Completed(t)}' = {t \in Slots : Completed(t)}
  BY <1>2, <1>4, <1>5 DEF Completed
<1>9. CompletionsMatch'
  <2>1. slot \notin InFlight /\ IsFiniteSet(InFlight)
    BY <1>0, <1>2, CountersType DEF InFlight
  <2>2. Cardinality(InFlight \cup {slot}) = Cardinality(InFlight) + 1
    BY <2>1, FS_AddElement
  <2> QED BY <1>0, <1>3, <1>4, <1>7, <1>8, <2>2 DEF CompletionsMatch
<1>10. Control' BY <1>0, <1>1, <1>2, <1>3, <1>4 DEF Control, here
<1>11. SlotMatches' BY <1>1, <1>2, <1>3, <1>4 DEF SlotMatches, here
<1>12. TasksMatch'
  <2>1. ASSUME NEW t \in InFlight'
        PROVE  /\ tasks'[t].cmd \in 1 .. idx' - 1
               /\ program'[tasks'[t].cmd].kind = "dispatch"
               /\ \A k \in tasks'[t].cmd .. idx' - 1 : program'[k].kind # "barrier"
               /\ here' \in {"kernel", "inline"} => tasks'[t].cmd < idx' - 1
    <3>0. t \in Slots BY <2>1 DEF InFlight, Slots
    <3>1. CASE t = slot BY <1>1, <1>2, <1>3, <1>4, <1>5, <1>7, <3>1, <2>1, SMTT(30) DEF here, InFlight
    <3>2. CASE t # slot
      <4>1. t \in InFlight BY <1>7, <3>2
      <4>2. \A k \in tasks[t].cmd .. idx : program[k].kind # "barrier"
        BY <1>0, <1>1, <1>2, <4>1 DEF TasksMatch
      <4> QED BY <1>0, <1>1, <1>3, <1>5, <3>0, <4>1, <4>2 DEF TasksMatch
    <3> QED BY <3>1, <3>2
  <2>2. ASSUME NEW t \in InFlight', NEW u \in InFlight', t # u
        PROVE  tasks'[t].cmd # tasks'[u].cmd
    BY <1>0, <1>1, <1>2, <1>5, <1>7, <2>2 DEF TasksMatch, InFlight
  <2> QED BY <2>1, <2>2 DEF TasksMatch
<1>13. FailuresMatch'
  BY <1>0, <1>1, <1>2, <1>3, <1>5, <1>7 DEF FailuresMatch, InFlight
<1>14. PartitionsSound'
  <2>1. \A t \in Slots : Parts'[t] = Parts[t] BY <1>5 DEF Parts, Slots
  <2>2. SumOver(Parts', Slots) = SumOver(Parts, Slots) BY <2>1, SumSame
  <2>3. vtcmInUse' = SumOver([t \in Slots |-> Cardinality(tasks[t].part)], Slots)'
    BY <1>0, <1>3, <2>2 DEF PartitionsSound, Parts
  <2>4. \A t \in Slots : tasks'[t].part # {} =>
                           tasks'[t].inFlight \/ (t = slot' /\ Preparing')
    BY <1>0, <1>2, <1>3, <1>4, <1>5 DEF PartitionsSound, Preparing
  <2>5. \A t, u \in Slots : t # u => tasks'[t].part \cap tasks'[u].part = {}
    BY <1>0, <1>5 DEF PartitionsSound
  <2> QED BY <2>3, <2>4, <2>5 DEF PartitionsSound
<1>15. ASSUME NEW fd \in Fd PROVE refs'[fd] = UsesOf(fd)'
  <2>1. refs[fd] = DispatchUses(fd) + InlineUses(fd) BY <1>0, UsesSplit DEF PinnedByWork
  <2>2. InlineUses(fd)' = InlineUses(fd) BY <1>2, <1>4 DEF InlineUses
  <2>3. ASSUME NEW t \in Slots PROVE Weight(fd)'[t] = Weight(fd)[t]
    BY <1>1, <1>2, <1>3, <1>4, <1>5 DEF Weight, Preparing
  <2>4. DispatchUses(fd)' = DispatchUses(fd) BY <2>3, DispatchUsesSame
  <2> QED BY <1>3, <2>1, <2>2, <2>4, UsesSplitNext
<1>16. GivesUpOnlyOversized' BY <1>2, <1>3, <1>4 DEF GivesUpOnlyOversized
<1> QED BY <1>6, <1>9, <1>10, <1>11, <1>12, <1>13, <1>14, <1>15, <1>16 DEF Inv, PinnedByWork

(* Finishing a dispatch gives back exactly what its slot holds: its buffers and its
   partition. *)
LEMMA FinishStep ==
  ASSUME Types, Control, SlotMatches, TasksMatch, PartitionsSound,
         NEW t \in Slots, NEW state \in {"SUCCEEDED", "FAILED"}, FinishDispatch(t, state),
         tasks[t].inFlight \/ (t = slot /\ Preparing),
         program' = program, slot' = slot,
         ~ (t = slot /\ Preparing'), t # slot => (Preparing' <=> Preparing)
  PROVE  /\ PartitionsSound'
         /\ tasks' \in [Slots -> TaskRecords] /\ refs' \in [Fd -> Int] /\ vtcmInUse' \in Int
         /\ status' \in {"SUCCESS", "EFAILED"}
         /\ \A u \in Slots \ {t} : tasks'[u] = tasks[u]
         /\ ~ tasks'[t].inFlight
         /\ \A fd \in Fd : /\ DispatchUses(fd)' \in Int
                          /\ refs'[fd] - DispatchUses(fd)' = refs[fd] - DispatchUses(fd)
<1>1. /\ tasks' \in [Slots -> TaskRecords]
      /\ \A u \in Slots \ {t} : tasks'[u] = tasks[u]
      /\ ~ tasks'[t].inFlight /\ tasks'[t].part = {}
  <2>1. tasks' \in [Slots -> TaskRecords] BY TasksUpdate DEF Types, FinishDispatch
  <2> QED BY <2>1 DEF Types, FinishDispatch, TaskRecords
<1>2. status' \in {"SUCCESS", "EFAILED"} BY DEF Types, FinishDispatch
<1>3. program[tasks[t].cmd].refs \in Seq(Fd \cup {BadRef}) BY HolderType DEF Commands
<1>4. refs' \in [Fd -> Int] BY <1>3, RefsType DEF Types, FinishDispatch
<1>5. \A u \in Slots : Parts[u] \in Nat /\ Parts'[u] \in Nat
  <2>1. ASSUME NEW u \in Slots PROVE Cardinality(tasks[u].part) \in Nat
    <3>1. tasks[u].part \in SUBSET Granules BY DEF Types, TaskRecords
    <3> QED BY <3>1, SlotsFinite, FS_Subset, FS_CardinalityType
  <2>2. ASSUME NEW u \in Slots PROVE Cardinality(tasks'[u].part) \in Nat
    <3>1. tasks'[u].part \in SUBSET Granules BY <1>1 DEF TaskRecords
    <3> QED BY <3>1, SlotsFinite, FS_Subset, FS_CardinalityType
  <2> QED BY <2>1, <2>2 DEF Parts, Slots
<1>6. \A u \in Slots \ {t} : Parts[u] = Parts'[u] BY <1>1 DEF Parts, Slots
<1>7. Parts'[t] = 0 /\ Parts[t] = Cardinality(tasks[t].part)
  BY <1>1, FS_EmptySet DEF Parts, Slots
<1>8. SumOver(Parts', Slots) + Parts[t] = SumOver(Parts, Slots) + Parts'[t]
  <2> HIDE DEF Parts
  <2> QED BY <1>5, <1>6, SumUpdate, SlotsFinite
<1>9. SumOver(Parts', Slots) \in Nat /\ SumOver(Parts, Slots) \in Nat
  <2> HIDE DEF Parts
  <2> QED BY <1>5, SumType, SlotsFinite
<1>10. vtcmInUse = SumOver(Parts, Slots) /\ vtcmInUse' = vtcmInUse - Parts[t]
  BY <1>7 DEF PartitionsSound, Parts, FinishDispatch
<1>11. vtcmInUse' = SumOver(Parts', Slots) /\ vtcmInUse' \in Int
  BY <1>5, <1>7, <1>8, <1>9, <1>10
<1>12. PartitionsSound'
  <2>1. vtcmInUse' = SumOver([u \in Slots |-> Cardinality(tasks[u].part)], Slots)'
    BY <1>11 DEF Parts, Slots
  <2>2. \A u, v \in Slots : u # v => tasks'[u].part \cap tasks'[v].part = {}
    BY <1>1 DEF PartitionsSound
  <2>3. \A u \in Slots : tasks'[u].part # {} =>
                           tasks'[u].inFlight \/ (u = slot' /\ Preparing')
    BY <1>1 DEF PartitionsSound
  <2> QED BY <2>1, <2>2, <2>3 DEF PartitionsSound, Slots
<1>13. ASSUME NEW fd \in Fd
       PROVE  /\ DispatchUses(fd)' \in Int
              /\ refs'[fd] - DispatchUses(fd)' = refs[fd] - DispatchUses(fd)
  <2>1. Weight(fd)'[t] = 0 BY <1>1 DEF Weight, Slots
  <2>2. \A u \in Slots \ {t} : Weight(fd)'[u] = Weight(fd)[u] BY <1>1 DEF Weight, Slots
  <2>3. DispatchUses(fd)' = DispatchUses(fd) - Weight(fd)[t] + Weight(fd)'[t]
    BY <2>1, <2>2, DispatchUsesChange
  <2>4. Weight(fd)[t] = Occurrences(program[tasks[t].cmd].refs, fd) BY DEF Weight
  <2>5. refs'[fd] = refs[fd] - Weight(fd)[t] BY <2>4 DEF FinishDispatch, Released
  <2>6. Weight(fd)[t] \in Nat /\ DispatchUses(fd) \in Nat /\ refs[fd] \in Int
    BY WeightType DEF Types
  <2> QED BY <2>1, <2>3, <2>5, <2>6
<1> QED BY <1>1, <1>2, <1>4, <1>11, <1>12, <1>13

(* A kernel that ran on the master is finished at once. *)
LEMMA KernelInv == Inv /\ Kernel => Inv'
<1> SUFFICES ASSUME Inv, Kernel PROVE Inv' OBVIOUS
<1>0. /\ Types /\ Control /\ SlotMatches /\ TasksMatch /\ FailuresMatch
      /\ CompletionsMatch /\ PartitionsSound /\ PinnedByWork /\ GivesUpOnlyOversized
  BY DEF Inv
<1>1. Len(program) \in Nat /\ slot \in Slots BY <1>0, CommandType DEF Types
<1>2. /\ pc = "kernel" /\ here = "kernel" /\ ~ tasks[slot].inFlight /\ Preparing
      /\ err = "SUCCESS" /\ idx - 1 \in 1 .. Len(program)
  BY <1>0, <1>1 DEF Kernel, here, SlotMatches, Control, Preparing, Types
<1>3. PICK state \in {"SUCCEEDED", "FAILED"} :
        /\ FinishDispatch(slot, state)
        /\ failed' = IF state = "FAILED" THEN failed \cup {idx - 1} ELSE failed
  BY DEF Kernel
<1>4. /\ back' = back /\ asleep' = asleep /\ program' = program /\ reliable' = reliable
      /\ UNCHANGED <<idx, slot, operand, numInFlight, numCompleted>>
  BY DEF Kernel, Goto, Return, input
<1>5. \/ status' = "SUCCESS" /\ pc' = "walk" /\ err' = err
      \/ status' # "SUCCESS" /\ pc' = "finalDrain" /\ err' = status'
  BY DEF Kernel, Goto, Return
<1>6. ~ Preparing' BY <1>5 DEF Preparing
<1>7. /\ PartitionsSound'
      /\ tasks' \in [Slots -> TaskRecords] /\ refs' \in [Fd -> Int] /\ vtcmInUse' \in Int
      /\ status' \in {"SUCCESS", "EFAILED"}
      /\ \A u \in Slots \ {slot} : tasks'[u] = tasks[u]
      /\ ~ tasks'[slot].inFlight
      /\ \A fd \in Fd : /\ DispatchUses(fd)' \in Int
                       /\ refs'[fd] - DispatchUses(fd)' = refs[fd] - DispatchUses(fd)
  BY <1>0, <1>1, <1>2, <1>3, <1>4, <1>6, FinishStep
<1>8. InFlight' = InFlight
  BY <1>2, <1>7 DEF InFlight, Slots
<1>9. {t \in Slots : Completed(t)}' = {t \in Slots : Completed(t)}
  BY <1>2, <1>7 DEF Completed, Slots
<1>10. \A t \in InFlight : t # slot /\ t \in Slots /\ tasks'[t] = tasks[t]
  BY <1>2, <1>7 DEF InFlight
<1>11. Types'
  <2>1. TaskRecords' = TaskRecords BY <1>4 DEF TaskRecords, Granules
  <2>2. pc' \in Labels /\ err' \in {"SUCCESS", "EFAILED"} BY <1>2, <1>5, <1>7 DEF Labels
  <2>3. failed' \subseteq 1 .. Len(program) BY <1>0, <1>2, <1>3 DEF Types
  <2> QED BY <1>0, <1>4, <1>7, <2>1, <2>2, <2>3 DEF Types, Slots
<1>12. Control' BY <1>2, <1>5 DEF Control, here
<1>13. SlotMatches' BY <1>5 DEF SlotMatches, here
<1>14. TasksMatch' BY <1>0, <1>4, <1>5, <1>8, <1>10 DEF TasksMatch, here
<1>15. FailuresMatch'
  <2>1. CASE state = "FAILED"
    BY <1>3, <1>5, <2>1 DEF FailuresMatch, FinishDispatch
  <2>2. CASE state # "FAILED"
    <3>1. status' = status /\ failed' = failed BY <1>3, <2>2 DEF FinishDispatch
    <3>2. err' = "EFAILED" => status' = "EFAILED" BY <1>2, <1>5, <1>7
    <3> QED BY <1>0, <1>8, <1>10, <3>1, <3>2 DEF FailuresMatch
  <2> QED BY <2>1, <2>2
<1>16. CompletionsMatch' BY <1>0, <1>4, <1>5, <1>8, <1>9 DEF CompletionsMatch
<1>17. ASSUME NEW fd \in Fd PROVE refs'[fd] = UsesOf(fd)'
  <2>1. refs[fd] = DispatchUses(fd) + InlineUses(fd) BY <1>0, UsesSplit DEF PinnedByWork
  <2>2. InlineUses(fd)' = 0 /\ InlineUses(fd) = 0 BY <1>2, <1>5 DEF InlineUses
  <2>3. DispatchUses(fd) \in Nat /\ refs'[fd] \in Int /\ refs[fd] \in Int
    BY <1>0, <1>7, WeightType DEF Types
  <2> QED BY <1>7, <2>1, <2>2, <2>3, UsesSplitNext
<1>18. GivesUpOnlyOversized' BY <1>2, <1>5, <1>7 DEF GivesUpOnlyOversized
<1> QED BY <1>7, <1>11, <1>12, <1>13, <1>14, <1>15, <1>16, <1>17, <1>18 DEF Inv, PinnedByWork

(* The master takes one completion and finishes the first completed task. *)
LEMMA WaitTakeInv == Inv /\ WaitTake => Inv'
<1> SUFFICES ASSUME Inv, WaitTake PROVE Inv' OBVIOUS
<1>0. /\ Types /\ Control /\ SlotMatches /\ TasksMatch /\ FailuresMatch
      /\ CompletionsMatch /\ PartitionsSound /\ PinnedByWork /\ GivesUpOnlyOversized
  BY DEF Inv
<1>1. PICK t \in Slots : Completed(t) /\ FinishDispatch(t, tasks[t].state)
  BY DEF WaitTake
<1>2. /\ pc = "wait" /\ ~ asleep /\ pc' = back
      /\ back \in {"slot", "prepare", "vtcm", "barrier", "drain", "finalDrain"}
      /\ numCompleted' = numCompleted - 1 /\ numInFlight' = numInFlight - 1
      /\ program' = program /\ reliable' = reliable
      /\ UNCHANGED <<idx, back, asleep, slot, operand, err, failed>>
  BY <1>0 DEF WaitTake, Control, input
<1>3. tasks[t].inFlight /\ tasks[t].state \in {"SUCCEEDED", "FAILED"}
  BY <1>0, <1>1 DEF Completed, Types, TaskRecords
<1>4. here' = here /\ (Preparing' <=> Preparing) BY <1>2 DEF here, Preparing
<1>5. Preparing => t # slot BY <1>0, <1>3, PreparingHere DEF SlotMatches
<1>6. /\ PartitionsSound'
      /\ tasks' \in [Slots -> TaskRecords] /\ refs' \in [Fd -> Int] /\ vtcmInUse' \in Int
      /\ status' \in {"SUCCESS", "EFAILED"}
      /\ \A u \in Slots \ {t} : tasks'[u] = tasks[u]
      /\ ~ tasks'[t].inFlight
      /\ \A fd \in Fd : /\ DispatchUses(fd)' \in Int
                       /\ refs'[fd] - DispatchUses(fd)' = refs[fd] - DispatchUses(fd)
  BY <1>0, <1>1, <1>2, <1>3, <1>4, <1>5, FinishStep
<1>7. InFlight' = InFlight \ {t} /\ t \in InFlight
  BY <1>3, <1>6 DEF InFlight, Slots
<1>8. {u \in Slots : Completed(u)}' = {u \in Slots : Completed(u)} \ {t}
  BY <1>6 DEF Completed, Slots
<1>9. CompletionsMatch'
  <2>1. IsFiniteSet(InFlight) /\ IsFiniteSet({u \in Slots : Completed(u)})
    BY <1>0, CountersType
  <2>2. t \in {u \in Slots : Completed(u)} BY <1>1
  <2>3. Cardinality(InFlight \ {t}) = Cardinality(InFlight) - 1
    BY <1>7, <2>1, FS_RemoveElement
  <2>4. Cardinality({u \in Slots : Completed(u)} \ {t})
          = Cardinality({u \in Slots : Completed(u)}) - 1
    BY <2>1, <2>2, FS_RemoveElement
  <2> QED BY <1>0, <1>2, <1>7, <1>8, <2>3, <2>4 DEF CompletionsMatch
<1>10. Types'
  <2>1. TaskRecords' = TaskRecords BY <1>2 DEF TaskRecords, Granules
  <2> QED BY <1>0, <1>2, <1>6, <2>1 DEF Types, Slots
<1>11. Control' BY <1>0, <1>2, <1>4 DEF Control, here, cmd
<1>12. SlotMatches'
  <2>1. here \in {"prepare", "vtcm"} => slot # t BY <1>0, <1>3 DEF SlotMatches
  <2> QED BY <1>0, <1>2, <1>4, <1>6, <2>1 DEF SlotMatches, here, Types
<1>13. TasksMatch' BY <1>0, <1>2, <1>4, <1>6, <1>7 DEF TasksMatch, InFlight
<1>14. FailuresMatch'
  <2>1. \A u \in InFlight' : u \in InFlight /\ tasks'[u] = tasks[u]
    BY <1>6, <1>7 DEF InFlight
  <2>2. CASE tasks[t].state = "FAILED"
    BY <1>0, <1>1, <1>2, <1>7, <2>2 DEF FailuresMatch, FinishDispatch
  <2>3. CASE tasks[t].state # "FAILED"
    <3>1. status' = status BY <1>1, <2>3 DEF FinishDispatch
    <3>2. \A u \in InFlight : tasks[u].state = "FAILED" => u \in InFlight'
      BY <1>7, <2>3
    <3> QED BY <1>0, <1>2, <2>1, <3>1, <3>2 DEF FailuresMatch
  <2> QED BY <2>2, <2>3
<1>15. ASSUME NEW fd \in Fd PROVE refs'[fd] = UsesOf(fd)'
  <2>1. refs[fd] = DispatchUses(fd) + InlineUses(fd) BY <1>0, UsesSplit DEF PinnedByWork
  <2>2. InlineUses(fd)' = InlineUses(fd) BY <1>2 DEF InlineUses
  <2>3. DispatchUses(fd) \in Nat /\ refs'[fd] \in Int /\ refs[fd] \in Int
    BY <1>0, <1>6, WeightType DEF Types
  <2>4. InlineUses(fd) = refs[fd] - DispatchUses(fd) /\ InlineUses(fd) \in Int
    <3>1. InlineUses(fd) \in Int BY <1>0, InlineUsesType
    <3> QED BY <2>1, <2>3, <3>1
  <2> QED BY <1>6, <2>2, <2>3, <2>4, UsesSplitNext
<1>16. GivesUpOnlyOversized' BY <1>0, <1>2 DEF GivesUpOnlyOversized, cmd
<1> QED BY <1>6, <1>9, <1>10, <1>11, <1>12, <1>13, <1>14, <1>15, <1>16 DEF Inv, PinnedByWork

(* A worker publishes its completion: the counter, the state and the wake-up together. *)
LEMMA WorkerInv == ASSUME Inv, NEW t \in Slots, Worker(t) PROVE Inv'
<1>0. /\ Types /\ Control /\ SlotMatches /\ TasksMatch /\ FailuresMatch
      /\ CompletionsMatch /\ PartitionsSound /\ PinnedByWork /\ GivesUpOnlyOversized
  BY DEF Inv
<1>1. PICK state \in {"SUCCEEDED", "FAILED"} :
        /\ tasks' = [tasks EXCEPT ![t].state = state]
        /\ failed' = IF state = "FAILED" THEN failed \cup {tasks[t].cmd} ELSE failed
  BY DEF Worker
<1>2. /\ tasks[t].inFlight /\ tasks[t].state = "RUNNING" /\ pc # "abort"
      /\ numCompleted' = numCompleted + 1 /\ asleep' = FALSE
      /\ program' = program /\ reliable' = reliable
      /\ UNCHANGED <<idx, pc, back, slot, operand, numInFlight, vtcmInUse, refs, status, err>>
  BY DEF Worker, input
<1>3. /\ tasks' \in [Slots -> TaskRecords]
      /\ \A u \in Slots : /\ tasks'[u].cmd = tasks[u].cmd /\ tasks'[u].part = tasks[u].part
                          /\ tasks'[u].inFlight = tasks[u].inFlight
                          /\ tasks'[u].state = IF u = t THEN state ELSE tasks[u].state
  <2>1. tasks' \in [Slots -> TaskRecords] BY <1>0, <1>1, TasksUpdate DEF Types
  <2> QED BY <1>0, <1>1, <2>1 DEF Types, TaskRecords
<1>4. here' = here /\ (Preparing' <=> Preparing) BY <1>2 DEF here, Preparing
<1>5. InFlight' = InFlight /\ t \in InFlight BY <1>2, <1>3 DEF InFlight, Slots
<1>6. {u \in Slots : Completed(u)}' = {u \in Slots : Completed(u)} \cup {t}
  BY <1>2, <1>3 DEF Completed, Slots
<1>7. CompletionsMatch'
  <2>1. IsFiniteSet({u \in Slots : Completed(u)}) /\ t \notin {u \in Slots : Completed(u)}
    BY <1>0, <1>2, CountersType DEF Completed
  <2>2. Cardinality({u \in Slots : Completed(u)} \cup {t})
          = Cardinality({u \in Slots : Completed(u)}) + 1
    BY <2>1, FS_AddElement
  <2> QED BY <1>0, <1>2, <1>5, <1>6, <2>2 DEF CompletionsMatch
<1>8. Types'
  <2>1. TaskRecords' = TaskRecords BY <1>2 DEF TaskRecords, Granules
  <2>2. tasks[t].cmd \in 1 .. Len(program) BY <1>0, <1>2, HolderType
  <2>3. failed' \subseteq 1 .. Len(program) BY <1>0, <1>1, <2>2 DEF Types
  <2> QED BY <1>0, <1>2, <1>3, <2>1, <2>3 DEF Types, Slots
<1>9. Control' BY <1>0, <1>2, <1>4 DEF Control, cmd
<1>10. SlotMatches' BY <1>0, <1>2, <1>3, <1>4 DEF SlotMatches, Types
<1>11. TasksMatch' BY <1>0, <1>2, <1>3, <1>4, <1>5 DEF TasksMatch, InFlight
<1>12. FailuresMatch'
  <2>1. CASE state = "FAILED"
    <3>1. failed' # {} BY <1>1, <2>1
    <3>2. tasks'[t].state = "FAILED" BY <1>3, <2>1
    <3> QED BY <1>0, <1>2, <1>5, <3>1, <3>2 DEF FailuresMatch
  <2>2. CASE state # "FAILED"
    <3>1. failed' = failed BY <1>1, <2>2
    <3>2. \A u \in InFlight : tasks'[u].state = "FAILED" <=> tasks[u].state = "FAILED"
      BY <1>2, <1>3, <2>2 DEF InFlight
    <3> QED BY <1>0, <1>2, <1>5, <3>1, <3>2 DEF FailuresMatch
  <2> QED BY <2>1, <2>2
<1>13. PartitionsSound'
  <2>1. \A u \in Slots : Parts'[u] = Parts[u] BY <1>3 DEF Parts, Slots
  <2>2. SumOver(Parts', Slots) = SumOver(Parts, Slots) BY <2>1, SumSame
  <2>3. vtcmInUse' = SumOver([u \in Slots |-> Cardinality(tasks[u].part)], Slots)'
    BY <1>0, <1>2, <2>2 DEF PartitionsSound, Parts
  <2>4. \A u \in Slots : tasks'[u].part # {} =>
                           tasks'[u].inFlight \/ (u = slot' /\ Preparing')
    BY <1>0, <1>2, <1>3, <1>4 DEF PartitionsSound
  <2>5. \A u, v \in Slots : u # v => tasks'[u].part \cap tasks'[v].part = {}
    BY <1>0, <1>3 DEF PartitionsSound
  <2> QED BY <2>3, <2>4, <2>5 DEF PartitionsSound
<1>14. ASSUME NEW fd \in Fd PROVE refs'[fd] = UsesOf(fd)'
  <2>1. refs[fd] = DispatchUses(fd) + InlineUses(fd) BY <1>0, UsesSplit DEF PinnedByWork
  <2>2. InlineUses(fd)' = InlineUses(fd) BY <1>2 DEF InlineUses
  <2>3. \A u \in Slots : Weight(fd)'[u] = Weight(fd)[u] BY <1>2, <1>3, <1>4 DEF Weight
  <2>4. DispatchUses(fd)' = DispatchUses(fd) BY <2>3, DispatchUsesSame
  <2> QED BY <1>2, <2>1, <2>2, <2>4, UsesSplitNext
<1>15. GivesUpOnlyOversized' BY <1>0, <1>2 DEF GivesUpOnlyOversized, cmd
<1> QED BY <1>7, <1>8, <1>9, <1>10, <1>11, <1>12, <1>13, <1>14, <1>15 DEF Inv, PinnedByWork

(* prepare_dispatch: either all bindings are acquired, or none. It gives up for want of
   budget only when nothing is pinned but its own bindings. *)
LEMMA PrepareInv == Inv /\ Prepare => Inv'
<1> SUFFICES ASSUME Inv, Prepare PROVE Inv' OBVIOUS
<1>0. /\ Types /\ Control /\ SlotMatches /\ TasksMatch /\ FailuresMatch
      /\ CompletionsMatch /\ PartitionsSound /\ PinnedByWork /\ GivesUpOnlyOversized
  BY DEF Inv
<1>1. /\ Len(program) \in Nat /\ slot \in Slots /\ numInFlight \in Nat
  BY <1>0, CommandType, CountersType DEF Types
<1>2. /\ pc = "prepare" /\ here = "prepare" /\ ~ tasks[slot].inFlight /\ ~ Preparing
      /\ err = "SUCCESS" /\ idx \in 1 .. Len(program) /\ cmd.kind = "dispatch"
  BY <1>0, <1>1 DEF Prepare, here, SlotMatches, Control, Preparing, Types
<1>3. cmd.refs \in Seq(Fd \cup {BadRef}) BY <1>0, <1>2, CommandType DEF Types, cmd, Commands
<1>4. /\ program' = program /\ reliable' = reliable /\ asleep' = asleep
      /\ UNCHANGED <<input, idx, slot, operand, numInFlight, numCompleted, vtcmInUse, status,
                     failed>>
  BY DEF Prepare, Goto, CallWait, Return, input
<1>5. PICK code \in AcquireCodes(cmd.refs, Pinned) :
        \/ /\ code = "SUCCESS" /\ pc' = "vtcm" /\ back' = back /\ err' = err /\ Acquire(cmd.refs)
           /\ tasks' = [tasks EXCEPT ![slot].cmd = idx, ![slot].part = {}]
        \/ /\ pc' = "wait" /\ back' = "prepare" /\ err' = err /\ numInFlight > 0
           /\ refs' = refs /\ tasks' = tasks
        \/ /\ pc' = "finalDrain" /\ back' = back /\ refs' = refs /\ tasks' = tasks
           /\ \/ err' = "ENOHEAP"
              \/ code = "EWOULDBLOCK" /\ err' = "ENOMEMORY" /\ ~ (numInFlight > 0)
              \/ code \in {"EBADITEM", "ENOMEMORY"} /\ err' = code
  <2>1. PICK code \in AcquireCodes(cmd.refs, Pinned) :
     \/ /\ code = "SUCCESS"
        /\ Goto("prepare", "vtcm")
        /\ Acquire(cmd.refs)
        /\ tasks' = [tasks EXCEPT ![slot].cmd = idx, ![slot].part = {}]
        /\ UNCHANGED err
     \/ /\ code = "EWOULDBLOCK" /\ CanWait
        /\ CallWait("prepare")
        /\ UNCHANGED <<refs, tasks, err>>
     \/ /\ code # "SUCCESS" /\ ~ (code = "EWOULDBLOCK" /\ CanWait)
        /\ Return(IF code = "EWOULDBLOCK" THEN "ENOMEMORY" ELSE code)
        /\ UNCHANGED <<refs, tasks>>
     \/ Return("ENOHEAP") /\ UNCHANGED <<refs, tasks>>
    BY DEF Prepare
  <2>2. code \in {"SUCCESS", "EBADITEM", "EWOULDBLOCK", "ENOMEMORY"} BY AcquireCodesType
  <2> WITNESS code \in AcquireCodes(cmd.refs, Pinned)
  <2> QED BY <2>1, <2>2 DEF Goto, CallWait, Return, CanWait
<1>6. CASE code = "SUCCESS" /\ pc' = "vtcm" /\ back' = back /\ err' = err /\ Acquire(cmd.refs)
           /\ tasks' = [tasks EXCEPT ![slot].cmd = idx, ![slot].part = {}]
  <2>1. /\ tasks' \in [Slots -> TaskRecords]
        /\ \A t \in Slots \ {slot} : tasks'[t] = tasks[t]
        /\ tasks'[slot].cmd = idx /\ tasks'[slot].part = {} /\ ~ tasks'[slot].inFlight
    <3>1. idx \in 0 .. Len(program) BY <1>1, <1>2
    <3>2. tasks' \in [Slots -> TaskRecords] BY <1>0, <1>1, <1>6, <3>1, TasksUpdate DEF Types
    <3> QED BY <1>0, <1>1, <1>2, <1>6, <3>2 DEF Types, TaskRecords
  <2>2. InFlight' = InFlight /\ \A t \in InFlight : t \in Slots \ {slot}
    BY <1>2, <2>1 DEF InFlight, Slots
  <2>3. {t \in Slots : Completed(t)}' = {t \in Slots : Completed(t)}
    BY <1>2, <2>1 DEF Completed, Slots
  <2>4. tasks[slot].part = {} BY <1>0, <1>1, <1>2 DEF PartitionsSound
  <2>5. \A t \in Slots : tasks'[t].part = tasks[t].part BY <2>1, <2>4
  <2>6. Preparing' /\ here' = "vtcm" BY <1>6 DEF Preparing, here
  <2>7. Types'
    <3>1. TaskRecords' = TaskRecords BY <1>4 DEF TaskRecords, Granules
    <3>2. refs' \in [Fd -> Int] BY <1>0, <1>3, <1>6, RefsType DEF Types, Acquire
    <3> QED BY <1>0, <1>4, <1>6, <2>1, <3>1, <3>2 DEF Types, Slots, Labels
  <2>8. Control' BY <1>2, <1>4, <1>6, <2>6 DEF Control, cmd
  <2>9. SlotMatches' BY <1>4, <2>1, <2>6 DEF SlotMatches
  <2>10. TasksMatch' BY <1>0, <1>4, <2>1, <2>2, <2>6 DEF TasksMatch
  <2>11. FailuresMatch' BY <1>0, <1>4, <1>6, <2>1, <2>2 DEF FailuresMatch
  <2>12. CompletionsMatch' BY <1>0, <1>4, <1>6, <2>2, <2>3 DEF CompletionsMatch
  <2>13. PartitionsSound'
    <3>1. \A t \in Slots : Parts'[t] = Parts[t] BY <2>5 DEF Parts, Slots
    <3>2. SumOver(Parts', Slots) = SumOver(Parts, Slots) BY <3>1, SumSame
    <3>3. vtcmInUse' = SumOver([t \in Slots |-> Cardinality(tasks[t].part)], Slots)'
      BY <1>0, <1>4, <3>2 DEF PartitionsSound, Parts
    <3>4. \A t \in Slots : tasks'[t].part # {} =>
                             tasks'[t].inFlight \/ (t = slot' /\ Preparing')
      BY <1>0, <1>4, <2>1, <2>6 DEF PartitionsSound
    <3>5. \A t, u \in Slots : t # u => tasks'[t].part \cap tasks'[u].part = {}
      BY <1>0, <2>5 DEF PartitionsSound
    <3> QED BY <3>3, <3>4, <3>5 DEF PartitionsSound
  <2>14. ASSUME NEW fd \in Fd PROVE refs'[fd] = UsesOf(fd)'
    <3>1. refs[fd] = DispatchUses(fd) + InlineUses(fd) BY <1>0, UsesSplit DEF PinnedByWork
    <3>2. InlineUses(fd)' = 0 /\ InlineUses(fd) = 0 BY <1>2, <1>6 DEF InlineUses
    <3>3. Weight(fd)[slot] = 0 BY <1>1, <1>2 DEF Weight
    <3>4. Weight(fd)'[slot] = Occurrences(cmd.refs, fd)
      BY <1>1, <1>4, <2>1, <2>6 DEF Weight, cmd, Slots
    <3>5. \A t \in Slots \ {slot} : Weight(fd)'[t] = Weight(fd)[t]
      BY <1>4, <2>1 DEF Weight, Slots
    <3>6. Occurrences(cmd.refs, fd) \in Nat /\ DispatchUses(fd) \in Nat
      BY <1>0, <1>3, OccurrencesType, WeightType
    <3>7. DispatchUses(fd)' = DispatchUses(fd) - Weight(fd)[slot] + Weight(fd)'[slot]
      BY <1>0, <1>1, <3>4, <3>5, <3>6, DispatchUsesChange
    <3>8. refs'[fd] = refs[fd] + Occurrences(cmd.refs, fd) BY <1>6 DEF Acquire
    <3> QED BY <3>1, <3>2, <3>3, <3>4, <3>6, <3>7, <3>8, UsesSplitNext
  <2>15. GivesUpOnlyOversized' BY <1>2, <1>6 DEF GivesUpOnlyOversized
  <2> QED BY <2>7, <2>8, <2>9, <2>10, <2>11, <2>12, <2>13, <2>14, <2>15 DEF Inv, PinnedByWork
<1>7. CASE /\ pc' \in {"wait", "finalDrain"} /\ refs' = refs /\ tasks' = tasks
           /\ pc' = "wait" => back' = "prepare" /\ err' = err /\ numInFlight > 0
           /\ pc' = "finalDrain" =>
                /\ back' = back
                /\ \/ err' = "ENOHEAP"
                   \/ code = "EWOULDBLOCK" /\ err' = "ENOMEMORY" /\ ~ (numInFlight > 0)
                   \/ code \in {"EBADITEM", "ENOMEMORY"} /\ err' = code
  <2>1. Quiet BY <1>2, <1>4, <1>7 DEF Quiet, Preparing
  <2>2. /\ PartitionsSound' /\ InFlight' = InFlight
        /\ \A fd \in Fd : DispatchUses(fd)' = DispatchUses(fd)
        /\ numCompleted' = Cardinality({t \in Slots : Completed(t)})'
        /\ numInFlight' = Cardinality(InFlight)'
    BY <2>1, QuietStep
  <2>3. Types' BY <1>0, <1>4, <1>7 DEF Types, Labels, TaskRecords, Granules
  <2>4. Control' BY <1>2, <1>4, <1>7 DEF Control, here, cmd
  <2>5. SlotMatches' BY <1>2, <1>4, <1>7 DEF SlotMatches, here
  <2>6. TasksMatch' BY <1>0, <1>4, <1>7, <2>2 DEF TasksMatch, here
  <2>7. FailuresMatch' BY <1>0, <1>2, <1>4, <1>7, <2>2 DEF FailuresMatch
  <2>8. CompletionsMatch' BY <1>0, <1>4, <1>7, <2>2 DEF CompletionsMatch
  <2>9. ASSUME NEW fd \in Fd PROVE refs'[fd] = UsesOf(fd)'
    <3>1. refs[fd] = DispatchUses(fd) + InlineUses(fd) BY <1>0, UsesSplit DEF PinnedByWork
    <3>2. InlineUses(fd)' = InlineUses(fd) BY <1>2, <1>7 DEF InlineUses
    <3> QED BY <1>7, <2>2, <3>1, <3>2, UsesSplitNext
  <2>10. GivesUpOnlyOversized'
    <3>1. CASE ~ (reliable /\ err' = "ENOMEMORY")
      BY <1>4, <1>7, <3>1 DEF GivesUpOnlyOversized
    <3>2. CASE reliable /\ err' = "ENOMEMORY"
      <4>1. code \in {"EWOULDBLOCK", "ENOMEMORY"} BY <1>2, <1>7, <3>2
      <4>2. Pinned \in SUBSET Fd BY DEF Pinned
      <4>3. /\ SumOver(AllocSize, Pinned \cup ({cmd.refs[i] : i \in DOMAIN cmd.refs} \ {BadRef}))
                 > Budget
            /\ code = "ENOMEMORY" => Pinned = {}
        BY <1>3, <3>2, <4>1, <4>2, AcquireReliable
      <4>4. code = "EWOULDBLOCK" => Pinned = {}
        <5>1. code = "EWOULDBLOCK" => numInFlight = 0 BY <1>1, <1>2, <1>7, <3>2
        <5>2. \A fd \in Fd : InlineUses(fd) = 0 BY <1>2 DEF InlineUses
        <5>3. code = "EWOULDBLOCK" => \A fd \in Fd : refs[fd] = 0
          BY <1>2, <5>1, <5>2, IdlePins
        <5> QED BY <5>3 DEF Pinned
      <4>5. SumOver(AllocSize, {cmd.refs[i] : i \in DOMAIN cmd.refs} \ {BadRef}) > Budget
        BY <4>1, <4>3, <4>4
      <4> QED BY <1>4, <1>7, <4>5 DEF GivesUpOnlyOversized, cmd
    <3> QED BY <3>1, <3>2
  <2> QED BY <2>2, <2>3, <2>4, <2>5, <2>6, <2>7, <2>8, <2>9, <2>10 DEF Inv, PinnedByWork
<1> QED BY <1>5, <1>6, <1>7

(* An idle pool has room for every partition that fits the pool at all. *)
LEMMA IdlePoolFits ==
  ASSUME Inv, here = "vtcm", numInFlight = 0, NEW n \in 1 .. VtcmPool
  PROVE  FreeBlocks(n) # {}
<1>1. InFlight = {} BY CountersType DEF Inv
<1>2. \A t \in Slots : tasks[t].part = {}
  BY <1>1 DEF Inv, PartitionsSound, SlotMatches, InFlight
<1>3. FreeGranules = Granules BY <1>2 DEF FreeGranules
<1>4. 1 .. (1 + n - 1) \subseteq Granules BY DEF Granules
<1>5. Cardinality(1 .. (1 + n - 1)) = n BY FS_Interval
<1>6. 1 \in Granules BY DEF Granules
<1> QED BY <1>3, <1>4, <1>5, <1>6 DEF FreeBlocks

(* The partition of a dispatch is carved out of free granules, and the DSP process aborts
   only for a dispatch that no pool of this size can serve. *)
LEMMA AcquireVtcmInv == Inv /\ AcquireVtcm => Inv'
<1> SUFFICES ASSUME Inv, AcquireVtcm PROVE Inv' OBVIOUS
<1>0. /\ Types /\ Control /\ SlotMatches /\ TasksMatch /\ FailuresMatch
      /\ CompletionsMatch /\ PartitionsSound /\ PinnedByWork /\ GivesUpOnlyOversized
  BY DEF Inv
<1>1. Len(program) \in Nat /\ slot \in Slots /\ numInFlight \in Nat
  BY <1>0, CommandType, CountersType DEF Types
<1>2. /\ pc = "vtcm" /\ here = "vtcm" /\ ~ tasks[slot].inFlight /\ Preparing
      /\ tasks[slot].cmd = idx /\ tasks[slot].part = {}
      /\ err = "SUCCESS" /\ idx \in 1 .. Len(program) /\ cmd.kind = "dispatch"
  BY <1>0, <1>1 DEF AcquireVtcm, here, SlotMatches, Control, Preparing, Types
<1> DEFINE size == PartitionSize(cmd)
<1>3. size \in Nat /\ (size > VtcmPool => cmd.vtcm # All /\ cmd.vtcm > VtcmPool)
  <2>1. cmd.vtcm \in Nat \cup {All} BY <1>0, <1>2, CommandType DEF Types, cmd, Commands
  <2> QED BY <2>1 DEF PartitionSize
<1> HIDE DEF size
<1>4. /\ program' = program /\ reliable' = reliable /\ asleep' = asleep
      /\ UNCHANGED <<input, idx, slot, operand, numInFlight, numCompleted, refs, status, err,
                     failed>>
  BY DEF AcquireVtcm, Goto, CallWait, input
<1>5. \/ /\ pc' = "abort" /\ back' = back /\ tasks' = tasks /\ vtcmInUse' = vtcmInUse
         /\ size > VtcmPool
      \/ pc' = "launch" /\ back' = back /\ tasks' = tasks /\ vtcmInUse' = vtcmInUse
      \/ /\ pc' = "launch" /\ back' = back /\ vtcmInUse' = vtcmInUse + size
         /\ \E part \in FreeBlocks(size) : tasks' = [tasks EXCEPT ![slot].part = part]
      \/ /\ pc' = "wait" /\ back' = "vtcm" /\ tasks' = tasks /\ vtcmInUse' = vtcmInUse
         /\ numInFlight > 0
  <2>1. CASE /\ cmd.vtcm # All /\ size > VtcmPool
             /\ Goto("vtcm", "abort")
             /\ UNCHANGED <<tasks, vtcmInUse>>
    BY <2>1 DEF Goto
  <2>2. CASE /\ size = 0
             /\ Goto("vtcm", "launch")
             /\ UNCHANGED <<tasks, vtcmInUse>>
    BY <2>2 DEF Goto
  <2>3. CASE /\ size > 0
             /\ \E part \in FreeBlocks(size) : tasks' = [tasks EXCEPT ![slot].part = part]
             /\ vtcmInUse' = vtcmInUse + size
             /\ Goto("vtcm", "launch")
    BY <2>3 DEF Goto
  <2>4. CASE /\ 0 < size /\ size <= VtcmPool
             /\ FreeBlocks(size) = {}
             /\ IF CanWait THEN CallWait("vtcm") ELSE Goto("vtcm", "abort")
             /\ UNCHANGED <<tasks, vtcmInUse>>
    <3>1. size \in 1 .. VtcmPool BY <1>3, <2>4
    <3>2. numInFlight # 0 BY <1>2, <2>4, <3>1, IdlePoolFits
    <3> QED BY <1>1, <2>4, <3>2 DEF CanWait, CallWait
  <2> QED BY <2>1, <2>2, <2>3, <2>4 DEF AcquireVtcm, size
<1>6. Preparing' /\ here' \in {"vtcm", "launch", "abort"} BY <1>5 DEF Preparing, here
<1>7. /\ tasks' \in [Slots -> TaskRecords] /\ vtcmInUse' \in Int
      /\ \A t \in Slots : /\ tasks'[t].cmd = tasks[t].cmd
                          /\ tasks'[t].inFlight = tasks[t].inFlight
                          /\ tasks'[t].state = tasks[t].state
                          /\ t # slot => tasks'[t].part = tasks[t].part
      /\ pc' # "launch" => tasks'[slot].part = {}
      /\ \/ vtcmInUse' = vtcmInUse /\ tasks'[slot].part = tasks[slot].part
         \/ vtcmInUse' = vtcmInUse + size /\ tasks'[slot].part \in FreeBlocks(size)
  <2>1. CASE tasks' = tasks /\ vtcmInUse' = vtcmInUse
    BY <1>0, <1>2, <2>1 DEF Types
  <2>2. CASE /\ pc' = "launch" /\ vtcmInUse' = vtcmInUse + size
             /\ \E part \in FreeBlocks(size) : tasks' = [tasks EXCEPT ![slot].part = part]
    <3>1. PICK part \in FreeBlocks(size) : tasks' = [tasks EXCEPT ![slot].part = part]
      BY <2>2
    <3>2. part \in SUBSET Granules BY DEF FreeBlocks, FreeGranules
    <3>3. tasks' \in [Slots -> TaskRecords] BY <1>0, <1>1, <3>1, <3>2, TasksUpdate DEF Types
    <3>4. vtcmInUse' \in Int BY <1>0, <1>3, <2>2 DEF Types
    <3>5. tasks'[slot].part = part BY <1>0, <1>1, <3>1 DEF Types, TaskRecords
    <3> QED BY <1>0, <1>1, <2>2, <3>1, <3>3, <3>4, <3>5 DEF Types, TaskRecords
  <2> QED BY <1>5, <2>1, <2>2
<1>8. InFlight' = InFlight BY <1>7 DEF InFlight, Slots
<1>9. {t \in Slots : Completed(t)}' = {t \in Slots : Completed(t)}
  BY <1>7 DEF Completed, Slots
<1>10. Types'
  <2>1. TaskRecords' = TaskRecords BY <1>4 DEF TaskRecords, Granules
  <2>2. pc' \in Labels /\ back' \in Labels BY <1>0, <1>5 DEF Types, Labels
  <2> QED BY <1>0, <1>4, <1>7, <2>1, <2>2 DEF Types, Slots
<1>11. Control'
  BY <1>0, <1>2, <1>4, <1>5, <1>6 DEF Control, cmd
<1>12. SlotMatches' BY <1>1, <1>2, <1>4, <1>5, <1>6, <1>7 DEF SlotMatches, here
<1>13. TasksMatch' BY <1>0, <1>4, <1>6, <1>7, <1>8 DEF TasksMatch, InFlight
<1>14. FailuresMatch' BY <1>0, <1>4, <1>7, <1>8 DEF FailuresMatch, InFlight
<1>15. CompletionsMatch' BY <1>0, <1>4, <1>5, <1>8, <1>9 DEF CompletionsMatch
<1>16. PartitionsSound'
  <2>1. \A t \in Slots : tasks'[t].part # {} =>
                           tasks'[t].inFlight \/ (t = slot' /\ Preparing')
    BY <1>0, <1>4, <1>6, <1>7 DEF PartitionsSound
  <2>2. CASE vtcmInUse' = vtcmInUse /\ tasks'[slot].part = tasks[slot].part
    <3>1. \A t \in Slots : tasks'[t].part = tasks[t].part BY <1>7, <2>2
    <3>2. \A t \in Slots : Parts'[t] = Parts[t] BY <3>1 DEF Parts, Slots
    <3>3. SumOver(Parts', Slots) = SumOver(Parts, Slots) BY <3>2, SumSame
    <3>4. vtcmInUse' = SumOver([t \in Slots |-> Cardinality(tasks[t].part)], Slots)'
      BY <1>0, <2>2, <3>3 DEF PartitionsSound, Parts
    <3>5. \A t, u \in Slots : t # u => tasks'[t].part \cap tasks'[u].part = {}
      BY <1>0, <3>1 DEF PartitionsSound
    <3> QED BY <2>1, <3>4, <3>5 DEF PartitionsSound
  <2>3. CASE vtcmInUse' = vtcmInUse + size /\ tasks'[slot].part \in FreeBlocks(size)
    <3>1. tasks'[slot].part \subseteq FreeGranules /\ Cardinality(tasks'[slot].part) = size
      BY <2>3 DEF FreeBlocks
    <3>2. \A t \in Slots : tasks'[slot].part \cap tasks[t].part = {}
      BY <3>1 DEF FreeGranules
    <3>3. \A t, u \in Slots : t # u => tasks'[t].part \cap tasks'[u].part = {}
      BY <1>0, <1>7, <3>2 DEF PartitionsSound
    <3>4. Parts'[slot] = size /\ Parts[slot] = 0
      BY <1>1, <1>2, <3>1, FS_EmptySet DEF Parts, Slots
    <3>5. \A t \in Slots \ {slot} : Parts[t] = Parts'[t] BY <1>7 DEF Parts, Slots
    <3>6. \A t \in Slots : Parts[t] \in Nat /\ Parts'[t] \in Nat
      <4>1. \A t \in Slots : Parts[t] \in Nat
        <5>1. \A t \in Slots : tasks[t].part \in SUBSET Granules
          BY <1>0 DEF Types, TaskRecords
        <5>2. \A t \in Slots : Cardinality(tasks[t].part) \in Nat
          BY <5>1, SlotsFinite, FS_Subset, FS_CardinalityType
        <5> QED BY <5>2 DEF Parts
      <4> QED BY <1>3, <3>4, <3>5, <4>1
    <3>7. SumOver(Parts', Slots) + Parts[slot] = SumOver(Parts, Slots) + Parts'[slot]
      <4> HIDE DEF Parts
      <4> QED BY <1>1, <3>5, <3>6, SumUpdate, SlotsFinite
    <3>8. SumOver(Parts', Slots) \in Nat /\ SumOver(Parts, Slots) \in Nat
      <4> HIDE DEF Parts
      <4> QED BY <3>6, SumType, SlotsFinite
    <3>9. vtcmInUse = SumOver(Parts, Slots) BY <1>0 DEF PartitionsSound, Parts
    <3>10. vtcmInUse' = SumOver(Parts', Slots) BY <1>3, <2>3, <3>4, <3>7, <3>8, <3>9
    <3>11. vtcmInUse' = SumOver([t \in Slots |-> Cardinality(tasks[t].part)], Slots)'
      BY <3>10 DEF Parts, Slots
    <3> QED BY <2>1, <3>3, <3>11 DEF PartitionsSound
  <2> QED BY <1>7, <2>2, <2>3
<1>17. ASSUME NEW fd \in Fd PROVE refs'[fd] = UsesOf(fd)'
  <2>1. refs[fd] = DispatchUses(fd) + InlineUses(fd) BY <1>0, UsesSplit DEF PinnedByWork
  <2>2. InlineUses(fd)' = InlineUses(fd) BY <1>2, <1>5 DEF InlineUses
  <2>3. \A t \in Slots : Weight(fd)'[t] = Weight(fd)[t]
    BY <1>2, <1>4, <1>6, <1>7 DEF Weight
  <2>4. DispatchUses(fd)' = DispatchUses(fd) BY <2>3, DispatchUsesSame
  <2> QED BY <1>4, <2>1, <2>2, <2>4, UsesSplitNext
<1>18. GivesUpOnlyOversized'
  BY <1>2, <1>3, <1>4, <1>5 DEF GivesUpOnlyOversized, cmd
<1> QED BY <1>10, <1>11, <1>12, <1>13, <1>14, <1>15, <1>16, <1>17, <1>18 DEF Inv, PinnedByWork

(* A buffer that a prefix uses is one of the references. *)
LEMMA OccursIn ==
  ASSUME NEW s \in Seq(Fd \cup {BadRef}), NEW fd \in Fd, NEW n \in 1 .. Len(s),
         Occurrences(SubSeq(s, 1, n - 1), fd) # 0
  PROVE  fd \in {s[i] : i \in DOMAIN s}
<1> SUFFICES ASSUME fd \notin {s[i] : i \in DOMAIN s} PROVE FALSE OBVIOUS
<1>1. \A i \in 1 .. n - 1 : s[i] \in Fd \cup {BadRef} /\ i \in DOMAIN s OBVIOUS
<1>2. /\ Len(SubSeq(s, 1, n - 1)) = n - 1 /\ SubSeq(s, 1, n - 1) \in Seq(Fd \cup {BadRef})
      /\ \A i \in 1 .. n - 1 : SubSeq(s, 1, n - 1)[i] = s[i]
  BY <1>1, SubSeqProperties
<1>3. DOMAIN SubSeq(s, 1, n - 1) = 1 .. n - 1 BY <1>2
<1>4. {i \in DOMAIN SubSeq(s, 1, n - 1) : SubSeq(s, 1, n - 1)[i] = fd} = {}
  BY <1>1, <1>2, <1>3
<1> QED BY <1>4, FS_EmptySet DEF Occurrences

(* exec_copy and exec_fill: an operand is acquired, or all of them are given back. They
   give up for want of budget only when nothing is pinned but their own operands. *)
LEMMA AcquireOperandInv ==
  ASSUME Inv, NEW from \in {"acquire", "retry"}, AcquireOperand(from)
  PROVE  Inv'
<1>0. /\ Types /\ Control /\ SlotMatches /\ TasksMatch /\ FailuresMatch
      /\ CompletionsMatch /\ PartitionsSound /\ PinnedByWork /\ GivesUpOnlyOversized
  BY DEF Inv
<1>1. Len(program) \in Nat /\ numInFlight \in Nat
  BY <1>0, CommandType, CountersType DEF Types
<1> DEFINE s == cmd.refs
<1>2. /\ pc = from /\ here = from /\ ~ Preparing /\ err = "SUCCESS"
      /\ idx \in 1 .. Len(program) /\ cmd.kind \in {"copy", "fill"}
      /\ operand \in 1 .. 2 /\ operand <= Len(s) /\ (from = "retry" => numInFlight = 0)
  BY <1>0, <1>1 DEF AcquireOperand, here, Control, Preparing, Types
<1>3. s \in Seq(Fd \cup {BadRef}) /\ Len(s) \in {1, 2}
  BY <1>0, <1>2, CommandType DEF Types, cmd, Commands
<1>4. operand \in 1 .. Len(s) /\ <<s[operand]>> \in Seq(Fd \cup {BadRef})
  <2>1. operand \in 1 .. Len(s) BY <1>2, <1>3
  <2>2. s[operand] \in Fd \cup {BadRef} BY <1>3, <2>1
  <2> QED BY <2>1, <2>2
<1>5. /\ program' = program /\ reliable' = reliable /\ asleep' = asleep /\ back' = back
      /\ UNCHANGED <<input, slot, tasks, numInFlight, numCompleted, vtcmInUse, status, failed>>
  BY DEF AcquireOperand, Goto, Return, input
<1>6. PICK code \in AcquireCodes(<<s[operand]>>, Pinned) :
        \/ /\ code = "SUCCESS" /\ Acquire(<<s[operand]>>) /\ err' = err
           /\ pc' = IF operand = Len(s) THEN "inline" ELSE "acquire"
           /\ operand' = IF operand = Len(s) THEN operand ELSE operand + 1
           /\ idx' = IF operand = Len(s) THEN idx + 1 ELSE idx
        \/ /\ pc' = "drain" /\ refs' = refs /\ operand' = operand /\ idx' = idx /\ err' = err
        \/ /\ code # "SUCCESS" /\ ~ (code = "EWOULDBLOCK" /\ from = "acquire")
           /\ pc' = "finalDrain" /\ refs' = Released(refs, SubSeq(s, 1, operand - 1))
           /\ err' = IF code = "EWOULDBLOCK" THEN "ENOMEMORY" ELSE code
           /\ operand' = operand /\ idx' = idx
  BY DEF AcquireOperand, Goto, Return, ReleaseOperands
<1>7. code \in {"SUCCESS", "EBADITEM", "EWOULDBLOCK", "ENOMEMORY"} BY AcquireCodesType
<1> HIDE DEF s
<1>8. pc' \in {"inline", "acquire", "drain", "finalDrain"} BY <1>6
<1>9. Quiet BY <1>2, <1>5, <1>8 DEF Quiet, Preparing
<1>10. /\ PartitionsSound' /\ InFlight' = InFlight
       /\ \A fd \in Fd : DispatchUses(fd)' = DispatchUses(fd)
       /\ numCompleted' = Cardinality({t \in Slots : Completed(t)})'
       /\ numInFlight' = Cardinality(InFlight)'
  BY <1>9, QuietStep
<1>11. /\ operand' \in 1 .. 2 /\ idx' \in 1 .. Len(program) + 1
       /\ err' \in {"SUCCESS", "EBADITEM", "ENOMEMORY"}
       /\ pc' = "acquire" => operand' <= Len(s) /\ idx' = idx /\ err' = err
       /\ pc' = "drain" => operand' <= Len(s) /\ idx' = idx /\ err' = err
       /\ pc' = "inline" => idx' = idx + 1 /\ err' = err
       /\ pc' = "finalDrain" => err' # "SUCCESS" /\ idx' = idx
  <2>1. CASE pc' = "drain"
    <3>1. operand' = operand /\ idx' = idx /\ err' = err BY <1>6, <2>1
    <3> QED BY <1>1, <1>2, <2>1, <3>1
  <2>2. CASE pc' = "finalDrain"
    <3>1. operand' = operand /\ idx' = idx /\ err' \in {"EBADITEM", "ENOMEMORY"}
      BY <1>6, <1>7, <2>2
    <3> QED BY <1>1, <1>2, <2>2, <3>1
  <2>3. CASE pc' = "inline"
    <3>1. operand' = operand /\ idx' = idx + 1 /\ err' = err BY <1>6, <2>3
    <3> QED BY <1>1, <1>2, <2>3, <3>1
  <2>4. CASE pc' = "acquire"
    <3>1. operand # Len(s) /\ operand' = operand + 1 /\ idx' = idx /\ err' = err
      BY <1>6, <2>4
    <3>2. (operand = 1 \/ operand = 2) /\ operand <= Len(s) BY <1>2
    <3>3. Len(s) = 1 \/ Len(s) = 2 BY <1>3
    <3>4. operand # Len(s) BY <3>1
    <3>5. Len(s) # 1
      <4> SUFFICES ASSUME Len(s) = 1 PROVE FALSE OBVIOUS
      <4>1. operand <= 1 BY <3>2
      <4>2. operand = 1 BY <3>2, <4>1
      <4> QED BY <3>4, <4>2
    <3>6. Len(s) = 2 /\ operand = 1 BY <3>2, <3>3, <3>4, <3>5
    <3> QED BY <1>1, <1>2, <2>4, <3>1, <3>6
  <2> QED BY <1>8, <2>1, <2>2, <2>3, <2>4
<1>12. \A fd \in Fd : /\ Occurrences(SubSeq(s, 1, operand - 1), fd) \in Nat
                      /\ Occurrences(<<s[operand]>>, fd) \in Nat
                      /\ Occurrences(SubSeq(s, 1, operand), fd)
                           = Occurrences(SubSeq(s, 1, operand - 1), fd)
                             + Occurrences(<<s[operand]>>, fd)
                      /\ Occurrences(SubSeq(s, 1, Len(s)), fd) = Occurrences(s, fd)
  BY <1>3, <1>4, OccurrencesPrefix
<1>13. \A fd \in Fd : refs[fd] = DispatchUses(fd) + Occurrences(SubSeq(s, 1, operand - 1), fd)
  <2> SUFFICES ASSUME NEW fd \in Fd
               PROVE  refs[fd] = DispatchUses(fd) + Occurrences(SubSeq(s, 1, operand - 1), fd)
    OBVIOUS
  <2>1. refs[fd] = DispatchUses(fd) + InlineUses(fd) BY <1>0, UsesSplit DEF PinnedByWork
  <2>2. InlineUses(fd) = Occurrences(SubSeq(s, 1, operand - 1), fd)
    BY <1>2 DEF InlineUses, s, cmd
  <2> QED BY <2>1, <2>2
<1>14. refs' \in [Fd -> Int] /\ \A fd \in Fd :
         refs'[fd] = CASE code = "SUCCESS" /\ pc' \in {"inline", "acquire"} ->
                            refs[fd] + Occurrences(<<s[operand]>>, fd)
                       [] pc' = "drain" -> refs[fd]
                       [] pc' = "finalDrain" ->
                            refs[fd] - Occurrences(SubSeq(s, 1, operand - 1), fd)
  <2>1. refs \in [Fd -> Int] BY <1>0 DEF Types
  <2>2. CASE pc' \in {"inline", "acquire"}
    <3>1. refs' = [fd \in Fd |-> refs[fd] + Occurrences(<<s[operand]>>, fd)]
      BY <1>6, <2>2 DEF Acquire
    <3>2. \A fd \in Fd : refs[fd] + Occurrences(<<s[operand]>>, fd) \in Int BY <1>12, <2>1
    <3> QED BY <1>6, <2>2, <3>1, <3>2
  <2>3. CASE pc' = "drain"
    <3>1. refs' = refs BY <1>6, <2>3
    <3> QED BY <2>1, <2>3, <3>1
  <2>4. CASE pc' = "finalDrain"
    <3>1. refs' = [fd \in Fd |-> refs[fd] - Occurrences(SubSeq(s, 1, operand - 1), fd)]
      BY <1>6, <2>4 DEF Released
    <3>2. \A fd \in Fd : refs[fd] - Occurrences(SubSeq(s, 1, operand - 1), fd) \in Int
      BY <1>12, <2>1
    <3> QED BY <2>4, <3>1, <3>2
  <2> QED BY <1>8, <2>2, <2>3, <2>4
<1>15. Types'
  BY <1>0, <1>5, <1>8, <1>11, <1>14 DEF Types, Labels, TaskRecords, Granules
<1>16. s = program[idx].refs /\ cmd = program[idx] BY DEF s, cmd
<1>17. Control'
  BY <1>1, <1>2, <1>3, <1>5, <1>8, <1>11, <1>16 DEF Control, here, cmd
<1>18. SlotMatches' BY <1>8 DEF SlotMatches, here
<1>19. TasksMatch'
  <2>1. program[idx].kind # "barrier" BY <1>2, <1>16
  <2>2. CASE pc' = "inline"
    <3>1. idx' = idx + 1 /\ here' = "inline" BY <1>11, <2>2 DEF here
    <3> QED BY <1>0, <1>2, <1>5, <1>10, <2>1, <3>1 DEF TasksMatch
  <2>3. CASE pc' # "inline"
    <3>1. idx' = idx /\ here' \notin {"inline", "kernel"} BY <1>8, <1>11, <2>3 DEF here
    <3> QED BY <1>0, <1>5, <1>10, <3>1 DEF TasksMatch
  <2> QED BY <2>2, <2>3
<1>20. FailuresMatch' BY <1>0, <1>5, <1>10, <1>11 DEF FailuresMatch
<1>21. CompletionsMatch' BY <1>0, <1>5, <1>8, <1>10 DEF CompletionsMatch
<1>22. ASSUME NEW fd \in Fd PROVE refs'[fd] = UsesOf(fd)'
  <2>1. DispatchUses(fd) \in Nat /\ refs[fd] \in Int BY <1>0, WeightType DEF Types
  <2>2. CASE pc' = "inline"
    <3>1. code = "SUCCESS" /\ operand = Len(s) BY <1>6, <2>2
    <3>2. idx' - 1 = idx BY <1>2, <1>11, <2>2
    <3>3. InlineUses(fd)' = Occurrences(s, fd) BY <1>5, <1>16, <2>2, <3>2 DEF InlineUses
    <3>4. refs'[fd] = refs[fd] + Occurrences(<<s[operand]>>, fd) BY <1>14, <2>2, <3>1
    <3> QED BY <1>10, <1>12, <1>13, <2>1, <3>1, <3>3, <3>4, UsesSplitNext
  <2>3. CASE pc' = "acquire"
    <3>1. code = "SUCCESS" /\ operand' = operand + 1 /\ idx' = idx BY <1>6, <2>3
    <3>2. operand' - 1 = operand BY <1>2, <3>1
    <3>3. InlineUses(fd)' = Occurrences(SubSeq(s, 1, operand), fd)
      BY <1>5, <1>16, <2>3, <3>1, <3>2 DEF InlineUses
    <3>4. refs'[fd] = refs[fd] + Occurrences(<<s[operand]>>, fd) BY <1>14, <2>3, <3>1
    <3> QED BY <1>10, <1>12, <1>13, <2>1, <3>3, <3>4, UsesSplitNext
  <2>4. CASE pc' = "drain"
    <3>1. operand' = operand /\ idx' = idx BY <1>6, <2>4
    <3>2. InlineUses(fd)' = Occurrences(SubSeq(s, 1, operand - 1), fd)
      BY <1>5, <1>16, <2>4, <3>1 DEF InlineUses
    <3>3. refs'[fd] = refs[fd] BY <1>14, <2>4
    <3> QED BY <1>10, <1>13, <3>2, <3>3, UsesSplitNext
  <2>5. CASE pc' = "finalDrain"
    <3>1. InlineUses(fd)' = 0 BY <2>5 DEF InlineUses
    <3>2. refs'[fd] = refs[fd] - Occurrences(SubSeq(s, 1, operand - 1), fd) BY <1>14, <2>5
    <3> QED BY <1>10, <1>12, <1>13, <2>1, <3>1, <3>2, UsesSplitNext
  <2> QED BY <1>8, <2>2, <2>3, <2>4, <2>5
<1>23. GivesUpOnlyOversized'
  <2>1. CASE ~ (reliable /\ err' = "ENOMEMORY")
    BY <1>5, <1>8, <2>1 DEF GivesUpOnlyOversized
  <2>2. CASE reliable /\ err' = "ENOMEMORY"
    <3>1. /\ code \in {"EWOULDBLOCK", "ENOMEMORY"} /\ idx' = idx
          /\ code = "EWOULDBLOCK" => from = "retry"
      BY <1>2, <1>6, <2>2
    <3>2. Pinned \in SUBSET Fd BY DEF Pinned
    <3> DEFINE one == {<<s[operand]>>[i] : i \in DOMAIN <<s[operand]>>} \ {BadRef}
               all == {s[i] : i \in DOMAIN s} \ {BadRef}
    <3>3. SumOver(AllocSize, Pinned \cup one) > Budget /\ (code = "ENOMEMORY" => Pinned = {})
      BY <1>4, <2>2, <3>1, <3>2, AcquireReliable
    <3>4. Pinned \subseteq all
      <4>1. CASE code = "ENOMEMORY" BY <3>3, <4>1
      <4>2. CASE code = "EWOULDBLOCK"
        <5>1. numInFlight = 0 BY <1>2, <3>1, <4>2
        <5>2. ASSUME NEW fd \in Fd, refs[fd] > 0 PROVE fd \in {s[i] : i \in DOMAIN s}
          <6>1. refs[fd] = InlineUses(fd) BY <1>2, <5>1, IdlePins
          <6>2. InlineUses(fd) = Occurrences(SubSeq(s, 1, operand - 1), fd)
            BY <1>2, <1>16 DEF InlineUses
          <6>3. Occurrences(SubSeq(s, 1, operand - 1), fd) # 0 BY <5>2, <6>1, <6>2
          <6> QED BY <1>3, <1>4, <6>3, OccursIn
        <5> QED BY <5>2 DEF Pinned
      <4> QED BY <3>1, <4>1, <4>2
    <3>5. Pinned \cup one \in SUBSET all BY <1>3, <1>4, <3>4
    <3>6. all \in SUBSET Fd
      <4>1. \A i \in DOMAIN s : s[i] \in Fd \cup {BadRef} BY <1>3
      <4> QED BY <4>1
    <3>7. IsFiniteSet(all) /\ \A x \in all : AllocSize[x] \in Nat BY <3>6, FS_Subset
    <3> HIDE DEF one, all
    <3>8. SumOver(AllocSize, Pinned \cup one) <= SumOver(AllocSize, all)
      BY <3>5, <3>7, SumMonotone
    <3>9. IsFiniteSet(Pinned \cup one) BY <3>5, <3>7, FS_Subset
    <3>10. SumOver(AllocSize, Pinned \cup one) \in Nat /\ SumOver(AllocSize, all) \in Nat
      BY <3>5, <3>7, <3>9, SumType
    <3>11. SumOver(AllocSize, all) > Budget BY <3>3, <3>8, <3>10
    <3> QED BY <1>5, <1>8, <1>16, <3>1, <3>11 DEF GivesUpOnlyOversized, cmd, all
  <2> QED BY <2>1, <2>2
<1> QED BY <1>10, <1>15, <1>17, <1>18, <1>19, <1>20, <1>21, <1>22, <1>23 DEF Inv, PinnedByWork

----------------------------------------------------------------------------
(* The invariant *)

(* Nothing is in flight, held or failed when the execution begins. *)
LEMMA InitInv == Init => Inv
<1> SUFFICES ASSUME Init PROVE Inv OBVIOUS
<1>1. Len(program) \in Nat BY CommandType DEF Init
<1>2. \A t \in Slots : tasks[t] = EmptyTask BY DEF Init
<1>3. EmptyTask \in TaskRecords BY <1>1 DEF EmptyTask, TaskRecords
<1>4. 1 \in Slots BY DEF Slots
<1>5. Types
  <2>1. idx \in 1 .. Len(program) + 1 BY <1>1 DEF Init
  <2>2. tasks \in [Slots -> TaskRecords] BY <1>3 DEF Init
  <2>3. refs \in [Fd -> Int] BY DEF Init
  <2>4. reliable \in BOOLEAN /\ asleep \in BOOLEAN BY DEF Init
  <2>5. program \in Programs /\ pc \in Labels /\ back \in Labels BY DEF Init, Labels
  <2>6. slot \in Slots /\ operand \in 1 .. 2 /\ vtcmInUse \in Int BY <1>4 DEF Init
  <2>7. /\ status \in {"SUCCESS", "EFAILED"} /\ failed \subseteq 1 .. Len(program)
        /\ err \in {"SUCCESS", "EFAILED", "EBADITEM", "ENOMEMORY", "ENOHEAP"}
    BY DEF Init
  <2> QED BY <2>1, <2>2, <2>3, <2>4, <2>5, <2>6, <2>7 DEF Types
<1>6. InFlight = {} /\ {t \in Slots : Completed(t)} = {}
  BY <1>2 DEF InFlight, Completed, EmptyTask
<1>7. ~ Preparing /\ here = "start" BY DEF Init, Preparing, here
<1>8. Control BY <1>7 DEF Init, Control
<1>9. SlotMatches BY <1>7 DEF SlotMatches
<1>10. TasksMatch BY <1>6 DEF TasksMatch
<1>11. FailuresMatch BY <1>6 DEF Init, FailuresMatch
<1>12. CompletionsMatch BY <1>6, FS_EmptySet DEF Init, CompletionsMatch
<1>13. PartitionsSound
  <2>1. \A t \in Slots : tasks[t].part = {} BY <1>2 DEF EmptyTask
  <2>2. \A t \in Slots : Parts[t] = 0 BY <2>1, FS_EmptySet DEF Parts
  <2>3. SumOver(Parts, Slots) = 0 BY <2>2, SumZero, SlotsFinite
  <2> QED BY <2>1, <2>3 DEF Init, PartitionsSound, Parts
<1>14. ASSUME NEW fd \in Fd PROVE refs[fd] = UsesOf(fd)
  <2>1. \A t \in Slots : Weight(fd)[t] = 0 BY <1>2, <1>7 DEF Weight, EmptyTask
  <2>2. DispatchUses(fd) = 0 BY <2>1, SumZero, SlotsFinite DEF DispatchUses
  <2>3. InlineUses(fd) = 0 BY DEF Init, InlineUses
  <2>4. refs[fd] = 0 BY DEF Init
  <2> QED BY <2>2, <2>3, <2>4, UsesSplit
<1>15. GivesUpOnlyOversized BY DEF Init, GivesUpOnlyOversized
<1> QED BY <1>5, <1>8, <1>9, <1>10, <1>11, <1>12, <1>13, <1>14, <1>15 DEF Inv, PinnedByWork

(* A step that changes nothing preserves the invariant. *)
LEMMA StutterInv == Inv /\ UNCHANGED vars => Inv'
<1> SUFFICES ASSUME Inv, UNCHANGED vars PROVE Inv' OBVIOUS
<1>1. /\ UNCHANGED <<program, reliable, idx, pc, back, asleep, slot, operand, tasks>>
      /\ UNCHANGED <<numInFlight, numCompleted, vtcmInUse, refs, status, err, failed>>
  BY DEF vars, input
<1>2. here' = here /\ Preparing' = Preparing /\ cmd' = cmd /\ InFlight' = InFlight
  BY <1>1 DEF here, Preparing, cmd, InFlight
<1>3. Types' BY <1>1 DEF Inv, Types, TaskRecords
<1>4. Control' /\ SlotMatches' /\ TasksMatch' /\ FailuresMatch'
  BY <1>1, <1>2 DEF Inv, Control, SlotMatches, TasksMatch, FailuresMatch
<1>5. CompletionsMatch' /\ PartitionsSound' /\ GivesUpOnlyOversized'
  BY <1>1, <1>2
  DEF Inv, CompletionsMatch, PartitionsSound, GivesUpOnlyOversized, Completed
<1>6. PinnedByWork' BY <1>1, <1>2 DEF Inv, PinnedByWork, UsesOf
<1> QED BY <1>3, <1>4, <1>5, <1>6 DEF Inv

(* Every step of the master and of the workers preserves it. *)
LEMMA NextInv == Inv /\ [Next]_vars => Inv'
<1> SUFFICES ASSUME Inv, [Next]_vars PROVE Inv' OBVIOUS
<1>1. CASE Start BY <1>1, StartInv
<1>2. CASE Walk BY <1>2, WalkInv
<1>3. CASE PickSlot BY <1>3, PickSlotInv
<1>4. CASE Prepare BY <1>4, PrepareInv
<1>5. CASE AcquireVtcm BY <1>5, AcquireVtcmInv
<1>6. CASE Launch BY <1>6, LaunchInv
<1>7. CASE Kernel BY <1>7, KernelInv
<1>8. CASE Barrier BY <1>8, BarrierInv
<1>9. CASE AcquireOperand("acquire") BY <1>9, AcquireOperandInv
<1>10. CASE Drain BY <1>10, DrainInv
<1>11. CASE AcquireOperand("retry") BY <1>11, AcquireOperandInv
<1>12. CASE Inline BY <1>12, InlineInv
<1>13. CASE FinalDrain BY <1>13, FinalDrainInv
<1>14. CASE WaitSleep BY <1>14, WaitSleepInv
<1>15. CASE WaitTake BY <1>15, WaitTakeInv
<1>16. ASSUME NEW t \in Slots, Worker(t) PROVE Inv' BY <1>16, WorkerInv
<1>17. CASE UNCHANGED vars BY <1>17, StutterInv
<1> QED
  BY <1>1, <1>2, <1>3, <1>4, <1>5, <1>6, <1>7, <1>8, <1>9, <1>10, <1>11, <1>12, <1>13,
     <1>14, <1>15, <1>16, <1>17
  DEF Next, Master

(* The invariant holds throughout an execution, for every command buffer, every order in
   which the workers complete and every failure of the platform. *)
THEOREM InvHolds == Spec => []Inv
BY InitInv, NextInv, PTL DEF Spec

(* Both counters agree with the task slots, and the master never sleeps on a completion
   that it missed. *)
THEOREM CompletionsMatchHolds == Spec => []CompletionsMatch
<1>1. Inv => CompletionsMatch BY DEF Inv
<1> QED BY <1>1, InvHolds, PTL

(* Partitions held at the same time are disjoint, vtcm_in_use is what they hold, and only
   unfinished work holds one. *)
THEOREM PartitionsSoundHolds == Spec => []PartitionsSound
<1>1. Inv => PartitionsSound BY DEF Inv
<1> QED BY <1>1, InvHolds, PTL

(* A buffer is pinned exactly as often as unfinished work uses it, on every path. *)
THEOREM PinnedByWorkHolds == Spec => []PinnedByWork
<1>1. Inv => PinnedByWork BY DEF Inv
<1> QED BY <1>1, InvHolds, PTL

(* An execution gives up for want of residency or VTCM only when waiting could not have
   helped. *)
THEOREM GivesUpOnlyOversizedHolds == Spec => []GivesUpOnlyOversized
<1>1. Inv => GivesUpOnlyOversized BY DEF Inv
<1> QED BY <1>1, InvHolds, PTL

(* The commands that execute at the same time have no barrier between them. *)
THEOREM NoBarrierCrossedHolds == Spec => []NoBarrierCrossed
<1>1. ASSUME Inv PROVE NoBarrierCrossed
  <2>1. Types /\ Control /\ TasksMatch BY <1>1 DEF Inv
  <2>2. Len(program) \in Nat /\ idx \in 1 .. Len(program) + 1
    BY <2>1, CommandType DEF Types
  <2> SUFFICES ASSUME NEW i \in Executing, NEW j \in Executing, NEW k \in i .. j
               PROVE  program[k].kind # "barrier"
    BY DEF NoBarrierCrossed
  <2>3. \A t \in InFlight : tasks[t].cmd \in 1 .. idx - 1 BY <2>1 DEF TasksMatch
  <2>4. ASSUME NEW c \in Executing PROVE c \in 0 .. idx - 1
    <3>1. CASE c = idx - 1 BY <2>2, <3>1
    <3>2. CASE c # idx - 1
      <4>1. PICK t \in InFlight : c = tasks[t].cmd BY <3>2 DEF Executing
      <4> QED BY <2>2, <2>3, <4>1
    <3> QED BY <3>1, <3>2
  <2>5. i \in 0 .. idx - 1 /\ j \in 0 .. idx - 1 /\ k \in i .. idx - 1 BY <2>2, <2>4
  <2>6. CASE \E t \in InFlight : i = tasks[t].cmd BY <2>1, <2>5, <2>6 DEF TasksMatch
  <2>7. CASE ~ \E t \in InFlight : i = tasks[t].cmd
    <3>1. pc \in {"kernel", "inline"} /\ i = idx - 1 BY <2>7 DEF Executing
    <3>2. k = idx - 1 BY <2>2, <2>5, <3>1
    <3> QED BY <2>1, <3>1, <3>2 DEF Control, here
  <2> QED BY <2>6, <2>7
<1> QED BY <1>1, InvHolds, PTL

(* Every variable keeps its type: the counters stay in their ranges, no reference count
   goes below zero, and the partitions of all the tasks fit the pool. *)
THEOREM TypeOKHolds == Spec => []TypeOK
<1>1. ASSUME Inv PROVE TypeOK
  <2>1. /\ Types /\ Control /\ SlotMatches /\ TasksMatch /\ CompletionsMatch
        /\ PartitionsSound /\ PinnedByWork
    BY <1>1 DEF Inv
  <2>2. numInFlight \in 0 .. MaxConcurrent /\ numCompleted \in 0 .. MaxConcurrent
    BY <2>1, CountersType
  <2>3. ASSUME NEW fd \in Fd PROVE refs[fd] \in Nat
    <3>1. refs[fd] = DispatchUses(fd) + InlineUses(fd) BY <2>1, UsesSplit DEF PinnedByWork
    <3>2. DispatchUses(fd) \in Nat BY <2>1, WeightType
    <3>3. InlineUses(fd) \in Nat BY <2>1, InlineUsesType
    <3> QED BY <3>1, <3>2, <3>3
  <2>4. refs \in [Fd -> Nat] BY <2>1, <2>3 DEF Types
  <2>5. vtcmInUse \in 0 .. VtcmPool
    <3> DEFINE parts == [t \in Slots |-> tasks[t].part]
    <3>1. \A t \in Slots : tasks[t].part \in SUBSET Granules
      BY <2>1 DEF Types, TaskRecords
    <3>2. /\ parts \in [Slots -> SUBSET Granules]
          /\ \A t, u \in Slots : t # u => parts[t] \cap parts[u] = {}
      BY <2>1, <3>1 DEF PartitionsSound
    <3>3. [t \in Slots |-> Cardinality(parts[t])] = Parts BY DEF Parts
    <3>4. vtcmInUse = SumOver(Parts, Slots) BY <2>1 DEF PartitionsSound, Parts
    <3> HIDE DEF parts
    <3>5. SumOver([t \in Slots |-> Cardinality(parts[t])], Slots) <= Cardinality(Granules)
      BY <3>2, SumDisjoint, SlotsFinite
    <3>6. \A t \in Slots : Parts[t] \in Nat
      BY <3>1, FS_Subset, FS_CardinalityType, SlotsFinite DEF Parts
    <3>7. SumOver(Parts, Slots) \in Nat BY <3>6, SumType, SlotsFinite
    <3> QED BY <3>3, <3>4, <3>5, <3>7, SlotsFinite
  <2> QED BY <2>1, <2>2, <2>4, <2>5 DEF Types, TypeOK, TaskRecords
<1> QED BY <1>1, InvHolds, PTL

----------------------------------------------------------------------------
(* The refinement of the command stream *)

\* What the master's return code and its progress are in the command stream.
Refused == err \notin {"SUCCESS", "EFAILED"}
Result == IF pc # "end" THEN "none" ELSE IF err = "SUCCESS" THEN "SUCCESS" ELSE "ERROR"

StreamStep == Stream!StreamNext \/ UNCHANGED Stream!streamVars

(* The dispatches on the workers and the command on the master, if there is one. *)
LEMMA ExecutingSplit ==
  ASSUME NEW c
  PROVE  c \in Executing <=> \/ \E t \in Slots : /\ tasks[t].inFlight
                                                 /\ tasks[t].state = "RUNNING"
                                                 /\ c = tasks[t].cmd
                             \/ pc \in {"kernel", "inline"} /\ c = idx - 1
BY DEF Executing, InFlight

(* The same for the next state. *)
LEMMA ExecutingSplitNext ==
  ASSUME NEW c
  PROVE  c \in Executing' <=> \/ \E t \in Slots : /\ tasks'[t].inFlight
                                                  /\ tasks'[t].state = "RUNNING"
                                                  /\ c = tasks'[t].cmd
                              \/ pc' \in {"kernel", "inline"} /\ c = idx' - 1
BY DEF Executing, InFlight, Slots

(* Between starting and finishing commands, a step is invisible in the stream, or it is
   the step that refuses the rest. *)
LEMMA StreamIdle ==
  ASSUME Executing' = Executing, UNCHANGED <<program, idx, failed>>,
         pc # "end", pc' # "end", err' = err \/ err = "SUCCESS"
  PROVE  StreamStep
<1>1. Result = "none" /\ Result' = "none" BY DEF Result
<1>2. CASE Refused' = Refused
  BY <1>1, <1>2 DEF StreamStep, Stream!streamVars, Refused, Result
<1>3. CASE Refused' # Refused
  <2>1. ~ Refused /\ Refused' BY <1>3 DEF Refused
  <2>2. Stream!StreamRefuse BY <1>1, <2>1 DEF Stream!StreamRefuse, Refused, Result
  <2> QED BY <2>2 DEF StreamStep, Stream!StreamNext
<1> QED BY <1>2, <1>3

(* A step of the master that touches no running task leaves the same commands running. *)
LEMMA SameExecuting ==
  ASSUME pc \notin {"kernel", "inline"}, pc' \notin {"kernel", "inline"},
         \A t \in Slots : \/ tasks'[t] = tasks[t]
                          \/ /\ ~ (tasks[t].inFlight /\ tasks[t].state = "RUNNING")
                             /\ ~ (tasks'[t].inFlight /\ tasks'[t].state = "RUNNING")
  PROVE  Executing' = Executing
<1>1. ASSUME NEW c PROVE c \in Executing' <=> c \in Executing
  BY ExecutingSplit, ExecutingSplitNext
<1> QED BY <1>1

(* No command has been refused while the master is still walking. *)
LEMMA WalkingOn ==
  ASSUME Inv, pc \notin {"wait", "finalDrain", "end"}
  PROVE  ~ Refused /\ Result = "none" /\ err = "SUCCESS"
BY DEF Inv, Control, here, Refused, Result

(* The module of the command stream counts as this one does. *)
LEMMA SameCardinality == \A S : Stream!Cardinality(S) = Cardinality(S)
BY DEF Stream!Cardinality, Cardinality, Stream!IsFiniteSet, IsFiniteSet

(* A command starts: exec_dispatch submits it or runs it, or the last operand of a copy
   or fill is acquired. *)
LEMMA StreamStarts ==
  ASSUME idx \in 1 .. Len(program), program[idx].kind # "barrier",
         program[idx].kind = "dispatch" => Cardinality(Executing) < MaxConcurrent,
         Executing' = Executing \cup {idx}, idx' = idx + 1,
         UNCHANGED <<program, failed, err>>, pc # "end", pc' # "end", ~ Refused
  PROVE  StreamStep
<1>1. Result = "none" /\ Result' = "none" /\ ~ Refused' BY DEF Result, Refused
<1>2. Len(program) >= idx OBVIOUS
<1>3. Stream!StreamStart
  <2>1. Stream!Walking BY <1>1, <1>2 DEF Stream!Walking, Refused, Result
  <2>2. program[idx].kind = "dispatch" => Stream!Cardinality(Executing) < MaxConcurrent
    BY SameCardinality
  <2>3. Refused' = Refused /\ Result' = Result BY <1>1 DEF Refused, Result
  <2> QED BY <2>1, <2>2, <2>3 DEF Stream!StreamStart, Refused, Result
<1> QED BY <1>3 DEF StreamStep, Stream!StreamNext

(* A command finishes, on a worker or on the master. *)
LEMMA StreamFinishes ==
  ASSUME NEW i \in Executing, NEW ok \in BOOLEAN, Executing' = Executing \ {i},
         failed' = IF ok THEN failed ELSE failed \cup {i},
         UNCHANGED <<program, idx>>, Result' = Result, Refused' = Refused
  PROVE  StreamStep
<1>1. Stream!StreamFinish(i, ok) BY DEF Stream!StreamFinish, Refused, Result
<1> QED BY <1>1 DEF StreamStep, Stream!StreamNext

(* Fewer dispatches are on the workers than there are slots while one slot is not in
   flight. *)
LEMMA RoomForOne ==
  ASSUME Inv, pc \notin {"kernel", "inline"}, ~ tasks[slot].inFlight
  PROVE  Cardinality(Executing) < MaxConcurrent
<1> DEFINE on == {u \in InFlight : tasks[u].state = "RUNNING"}
           f == [t \in on |-> tasks[t].cmd]
<1>1. Executing = {tasks[t].cmd : t \in on} BY DEF Executing
<1>2. f \in Surjection(on, Executing)
  <2>1. f \in [on -> Executing] BY <1>1
  <2>2. \A c \in Executing : \E t \in on : f[t] = c BY <1>1
  <2> QED BY <2>1, <2>2, Fun_IsSurj
<1>3. on \in SUBSET (Slots \ {slot}) BY DEF InFlight
<1>4. slot \in Slots BY DEF Inv, Types
<1>5. IsFiniteSet(Slots \ {slot}) /\ Cardinality(Slots \ {slot}) = MaxConcurrent - 1
  BY <1>4, FS_RemoveElement, SlotsFinite
<1> HIDE DEF on, f
<1>6. IsFiniteSet(on) /\ Cardinality(on) <= MaxConcurrent - 1 BY <1>3, <1>5, FS_Subset
<1>7. IsFiniteSet(Executing) /\ Cardinality(Executing) <= Cardinality(on)
  BY <1>2, <1>6, FS_Surjection
<1>8. Cardinality(on) \in Nat /\ Cardinality(Executing) \in Nat
  BY <1>6, <1>7, FS_CardinalityType
<1> QED BY <1>6, <1>7, <1>8

(* Launch starts a dispatch in the stream. *)
LEMMA LaunchStream == Inv /\ Launch => StreamStep
<1> SUFFICES ASSUME Inv, Launch PROVE StreamStep OBVIOUS
<1>0. Types /\ Control /\ SlotMatches BY DEF Inv
<1>1. pc = "launch" /\ here = "launch" /\ pc' \in {"kernel", "walk"} /\ idx' = idx + 1
  BY DEF Launch, Goto, here
<1>2. /\ ~ tasks[slot].inFlight /\ tasks[slot].cmd = idx /\ cmd.kind = "dispatch"
      /\ idx <= Len(program)
  BY <1>0, <1>1 DEF Control, SlotMatches
<1>3. Len(program) \in Nat /\ idx \in 1 .. Len(program) /\ slot \in Slots
  BY <1>0, <1>2, CommandType DEF Types
<1>4. ~ Refused BY <1>1, WalkingOn
<1>5. Cardinality(Executing) < MaxConcurrent BY <1>1, <1>2, RoomForOne
<1>6. ASSUME NEW c PROVE c \in Executing' <=> c \in Executing \cup {idx}
  <2>1. CASE pc' = "kernel"
    <3>1. tasks' = tasks BY <2>1 DEF Launch, Goto
    <3>2. idx' - 1 = idx BY <1>1, <1>3
    <3> QED BY <1>1, <2>1, <3>1, <3>2, ExecutingSplit, ExecutingSplitNext
  <2>2. CASE pc' = "walk"
    <3>1. tasks' = [tasks EXCEPT ![slot].inFlight = TRUE, ![slot].state = "RUNNING"]
      BY <2>2 DEF Launch, Goto
    <3>2. /\ tasks'[slot].inFlight /\ tasks'[slot].state = "RUNNING"
          /\ tasks'[slot].cmd = idx
          /\ \A t \in Slots \ {slot} : tasks'[t] = tasks[t]
      BY <1>0, <1>2, <1>3, <3>1 DEF Types, TaskRecords
    <3> QED BY <1>1, <1>2, <1>3, <2>2, <3>2, ExecutingSplit, ExecutingSplitNext
  <2> QED BY <1>1, <2>1, <2>2
<1>7. Executing' = Executing \cup {idx} BY <1>6
<1>8. UNCHANGED <<program, failed, err>> BY DEF Launch, input
<1>9. program[idx].kind = "dispatch" BY <1>2 DEF cmd
<1> QED BY <1>1, <1>3, <1>4, <1>5, <1>7, <1>8, <1>9, StreamStarts

(* A kernel on the master finishes its dispatch in the stream. *)
LEMMA KernelStream == Inv /\ Kernel => StreamStep
<1> SUFFICES ASSUME Inv, Kernel PROVE StreamStep OBVIOUS
<1>0. Types /\ Control /\ SlotMatches /\ TasksMatch BY DEF Inv
<1>1. pc = "kernel" /\ here = "kernel" /\ ~ tasks[slot].inFlight /\ slot \in Slots
  BY <1>0 DEF Kernel, here, SlotMatches, Types
<1>2. PICK state \in {"SUCCEEDED", "FAILED"} :
        /\ FinishDispatch(slot, state)
        /\ failed' = IF state = "FAILED" THEN failed \cup {idx - 1} ELSE failed
  BY DEF Kernel
<1>3. /\ pc' \in {"walk", "finalDrain"} /\ idx' = idx /\ program' = program
      /\ (err' = err \/ err' = status')
  BY DEF Kernel, Goto, Return, input
<1>4. ~ Refused /\ Result = "none" /\ err = "SUCCESS" BY <1>1, WalkingOn
<1>5. status' \in {"SUCCESS", "EFAILED"} BY <1>0, <1>2 DEF FinishDispatch, Types
<1>6. Refused' = Refused /\ Result' = Result BY <1>3, <1>4, <1>5 DEF Refused, Result
<1>7. \A t \in Slots : \/ tasks'[t] = tasks[t]
                       \/ ~ tasks'[t].inFlight /\ ~ tasks[t].inFlight
  BY <1>0, <1>1, <1>2 DEF FinishDispatch, Types, TaskRecords
<1>8. \A t \in Slots : tasks[t].inFlight => tasks[t].cmd # idx - 1
  <2> SUFFICES ASSUME NEW t \in Slots, tasks[t].inFlight PROVE tasks[t].cmd # idx - 1
    OBVIOUS
  <2>1. tasks[t].cmd < idx - 1 /\ tasks[t].cmd \in 1 .. idx - 1
    BY <1>0, <1>1 DEF TasksMatch, InFlight
  <2> QED BY <2>1
<1>9. ASSUME NEW c PROVE c \in Executing' <=> c \in Executing \ {idx - 1}
  BY <1>1, <1>3, <1>7, <1>8, ExecutingSplit, ExecutingSplitNext
<1>10. Executing' = Executing \ {idx - 1} BY <1>9
<1>11. idx - 1 \in Executing BY <1>1, ExecutingSplit
<1>12. \E ok \in BOOLEAN : failed' = IF ok THEN failed ELSE failed \cup {idx - 1}
  <2>1. CASE state = "FAILED"
    <3>1. failed' = IF FALSE THEN failed ELSE failed \cup {idx - 1} BY <1>2, <2>1
    <3> QED BY <3>1
  <2>2. CASE state # "FAILED"
    <3>1. failed' = IF TRUE THEN failed ELSE failed \cup {idx - 1} BY <1>2, <2>2
    <3> QED BY <3>1
  <2> QED BY <2>1, <2>2
<1> QED BY <1>3, <1>6, <1>10, <1>11, <1>12, StreamFinishes

(* A copy or fill that ran is finished in the stream. *)
LEMMA InlineStream == Inv /\ Inline => StreamStep
<1> SUFFICES ASSUME Inv, Inline PROVE StreamStep OBVIOUS
<1>0. TasksMatch BY DEF Inv
<1>1. /\ pc = "inline" /\ here = "inline" /\ pc' = "walk" /\ tasks' = tasks
      /\ UNCHANGED <<program, idx, failed, err>>
  BY DEF Inline, Goto, here, input
<1>2. Refused' = Refused /\ Result' = Result BY <1>1 DEF Refused, Result
<1>3. \A t \in Slots : tasks[t].inFlight => tasks[t].cmd # idx - 1
  <2> SUFFICES ASSUME NEW t \in Slots, tasks[t].inFlight PROVE tasks[t].cmd # idx - 1
    OBVIOUS
  <2>1. tasks[t].cmd < idx - 1 /\ tasks[t].cmd \in 1 .. idx - 1
    BY <1>0, <1>1 DEF TasksMatch, InFlight
  <2> QED BY <2>1
<1>4. ASSUME NEW c PROVE c \in Executing' <=> c \in Executing \ {idx - 1}
  BY <1>1, <1>3, ExecutingSplit, ExecutingSplitNext
<1>5. Executing' = Executing \ {idx - 1} BY <1>4
<1>6. idx - 1 \in Executing BY <1>1, ExecutingSplit
<1>7. failed' = IF TRUE THEN failed ELSE failed \cup {idx - 1} BY <1>1
<1> QED BY <1>1, <1>2, <1>5, <1>6, <1>7, StreamFinishes

(* A worker finishes its dispatch in the stream when it publishes the result. *)
LEMMA WorkerStream == ASSUME Inv, NEW t \in Slots, Worker(t) PROVE StreamStep
<1>0. Types /\ TasksMatch /\ Control BY DEF Inv
<1> DEFINE i == tasks[t].cmd
<1>1. /\ tasks[t].inFlight /\ tasks[t].state = "RUNNING"
      /\ UNCHANGED <<program, idx, err, pc>>
  BY DEF Worker, input
<1>2. PICK state \in {"SUCCEEDED", "FAILED"} :
        /\ tasks' = [tasks EXCEPT ![t].state = state]
        /\ failed' = IF state = "FAILED" THEN failed \cup {i} ELSE failed
  BY DEF Worker
<1>3. Refused' = Refused /\ Result' = Result BY <1>1 DEF Refused, Result
<1>4. tasks'[t].state = state /\ \A u \in Slots \ {t} : tasks'[u] = tasks[u]
  BY <1>0, <1>2 DEF Types, TaskRecords
<1>5. \A u \in Slots \ {t} : tasks[u].inFlight => tasks[u].cmd # i
  BY <1>0, <1>1 DEF TasksMatch, InFlight
<1>6. pc \in {"kernel", "inline"} => i # idx - 1
  <2> SUFFICES ASSUME pc \in {"kernel", "inline"} PROVE i # idx - 1 OBVIOUS
  <2>1. here \in {"kernel", "inline"} /\ t \in InFlight BY <1>1 DEF here, InFlight
  <2>2. i < idx - 1 /\ i \in 1 .. idx - 1 BY <1>0, <2>1 DEF TasksMatch
  <2> QED BY <2>2
<1>7. i \in Executing BY <1>1, ExecutingSplit
<1> HIDE DEF i
<1>8. ASSUME NEW c PROVE c \in Executing' <=> c \in Executing \ {i}
  <2>1. state # "RUNNING" OBVIOUS
  <2>2. c \in Executing <=> \/ \E u \in Slots : /\ tasks[u].inFlight
                                                /\ tasks[u].state = "RUNNING"
                                                /\ c = tasks[u].cmd
                            \/ pc \in {"kernel", "inline"} /\ c = idx - 1
    BY ExecutingSplit
  <2>3. c \in Executing' <=> \/ \E u \in Slots \ {t} : /\ tasks[u].inFlight
                                                       /\ tasks[u].state = "RUNNING"
                                                       /\ c = tasks[u].cmd
                             \/ pc \in {"kernel", "inline"} /\ c = idx - 1
    BY <1>1, <1>4, <2>1, ExecutingSplitNext
  <2> QED BY <1>1, <1>5, <1>6, <2>2, <2>3 DEF i
<1>9. Executing' = Executing \ {i} BY <1>8
<1>10. \E ok \in BOOLEAN : failed' = IF ok THEN failed ELSE failed \cup {i}
  <2>1. CASE state = "FAILED"
    <3>1. failed' = IF FALSE THEN failed ELSE failed \cup {i} BY <1>2, <2>1
    <3> QED BY <3>1
  <2>2. CASE state # "FAILED"
    <3>1. failed' = IF TRUE THEN failed ELSE failed \cup {i} BY <1>2, <2>2
    <3> QED BY <3>1
  <2> QED BY <2>1, <2>2
<1> QED BY <1>1, <1>3, <1>7, <1>9, <1>10, StreamFinishes

(* The barrier is passed in the stream when nothing runs any more. *)
LEMMA BarrierStream == Inv /\ Barrier => StreamStep
<1> SUFFICES ASSUME Inv, Barrier PROVE StreamStep OBVIOUS
<1>0. Types /\ Control /\ CompletionsMatch BY DEF Inv
<1>1. /\ pc = "barrier" /\ here = "barrier" /\ pc' \in {"wait", "walk"} /\ tasks' = tasks
      /\ UNCHANGED <<program, failed, err>>
  BY DEF Barrier, CallWait, Goto, here, input
<1>2. Executing' = Executing BY <1>1, SameExecuting
<1>3. CASE numInFlight > 0
  <2>1. idx' = idx BY <1>3 DEF Barrier
  <2> QED BY <1>1, <1>2, <2>1, StreamIdle
<1>4. CASE ~ numInFlight > 0
  <2>1. idx' = idx + 1 /\ pc' = "walk" BY <1>4 DEF Barrier, Goto
  <2>2. InFlight = {} BY <1>0, <1>4, CountersType
  <2>3. Executing = {} BY <1>1, <2>2 DEF Executing
  <2>4. ~ Refused /\ Result = "none" BY <1>1, WalkingOn
  <2>5. Refused' = Refused /\ Result' = Result BY <1>1 DEF Refused, Result
  <2>6. idx <= Len(program) /\ program[idx].kind = "barrier"
    BY <1>0, <1>1 DEF Control, cmd
  <2>7. Stream!StreamBarrier
    BY <1>1, <1>2, <2>1, <2>3, <2>4, <2>5, <2>6
    DEF Stream!StreamBarrier, Stream!Walking, Refused, Result
  <2> QED BY <2>7 DEF StreamStep, Stream!StreamNext
<1> QED BY <1>3, <1>4

(* The execution returns when nothing runs any more, with the result of the stream. *)
LEMMA FinalDrainStream == Inv /\ FinalDrain => StreamStep
<1> SUFFICES ASSUME Inv, FinalDrain PROVE StreamStep OBVIOUS
<1>0. Types /\ Control /\ FailuresMatch /\ CompletionsMatch BY DEF Inv
<1>1. /\ pc = "finalDrain" /\ here = "finalDrain" /\ pc' \in {"wait", "end"}
      /\ tasks' = tasks /\ UNCHANGED <<program, idx, failed>>
  BY DEF FinalDrain, CallWait, Goto, here, input
<1>2. Executing' = Executing BY <1>1, SameExecuting
<1>3. CASE numInFlight > 0
  <2>1. err' = err /\ pc' = "wait" BY <1>3 DEF FinalDrain, CallWait
  <2> QED BY <1>1, <1>2, <2>1, StreamIdle
<1>4. CASE ~ numInFlight > 0
  <2>1. err' = (IF err = "SUCCESS" THEN status ELSE err) /\ pc' = "end"
    BY <1>4 DEF FinalDrain, Goto
  <2>2. InFlight = {} BY <1>0, <1>4, CountersType
  <2>3. Executing = {} BY <1>1, <2>2 DEF Executing
  <2>4. status \in {"SUCCESS", "EFAILED"} /\ (failed = {} <=> status = "SUCCESS")
    BY <1>0, <2>2 DEF Types, FailuresMatch
  <2>5. Result = "none" BY <1>1 DEF Result
  <2>6. Refused' <=> Refused BY <2>1, <2>4 DEF Refused
  <2>7. idx > Len(program) \/ failed # {} \/ Refused
    BY <1>0, <1>1, <2>4 DEF Control, FailuresMatch, Refused
  <2>8. Result' = IF failed = {} /\ ~ Refused THEN "SUCCESS" ELSE "ERROR"
    <3>1. err' = "SUCCESS" <=> err = "SUCCESS" /\ status = "SUCCESS" BY <2>1, <2>4
    <3>2. err = "EFAILED" => status = "EFAILED" BY <1>0 DEF FailuresMatch
    <3> QED BY <2>1, <2>4, <3>1, <3>2 DEF Result, Refused
  <2>9. Stream!StreamEnd
    BY <1>1, <1>2, <2>3, <2>5, <2>6, <2>7, <2>8 DEF Stream!StreamEnd, Refused, Result
  <2> QED BY <2>9 DEF StreamStep, Stream!StreamNext
<1> QED BY <1>3, <1>4

(* A copy or fill starts in the stream when its last operand is acquired. *)
LEMMA AcquireOperandStream ==
  ASSUME Inv, NEW from \in {"acquire", "retry"}, AcquireOperand(from)
  PROVE  StreamStep
<1>0. Types /\ Control BY DEF Inv
<1>1. /\ pc = from /\ here = from /\ tasks' = tasks /\ UNCHANGED <<program, failed>>
  BY DEF AcquireOperand, here, input
<1>2. ~ Refused /\ err = "SUCCESS" BY <1>1, WalkingOn
<1>3. \/ pc' = "inline" /\ idx' = idx + 1 /\ err' = err
      \/ pc' \in {"acquire", "drain", "finalDrain"} /\ idx' = idx
  <2>1. PICK code \in AcquireCodes(<<cmd.refs[operand]>>, Pinned) :
          \/ /\ Goto(from, IF operand = Len(cmd.refs) THEN "inline" ELSE "acquire")
             /\ idx' = IF operand = Len(cmd.refs) THEN idx + 1 ELSE idx
             /\ UNCHANGED err
          \/ Goto(from, "drain") /\ idx' = idx
          \/ pc' = "finalDrain" /\ idx' = idx
    BY DEF AcquireOperand, Return
  <2> QED BY <2>1 DEF Goto
<1>4. CASE pc' \in {"acquire", "drain", "finalDrain"} /\ idx' = idx
  <2>1. Executing' = Executing BY <1>1, <1>4, SameExecuting
  <2> QED BY <1>1, <1>2, <1>4, <2>1, StreamIdle
<1>5. CASE pc' = "inline" /\ idx' = idx + 1 /\ err' = err
  <2>1. idx \in 1 .. Len(program) /\ program[idx].kind \in {"copy", "fill"}
    BY <1>0, <1>1, CommandType DEF Types, Control, cmd
  <2>2. idx' - 1 = idx BY <1>5, <2>1
  <2>3. ASSUME NEW c PROVE c \in Executing' <=> c \in Executing \cup {idx}
    BY <1>1, <1>5, <2>2, ExecutingSplit, ExecutingSplitNext
  <2>4. Executing' = Executing \cup {idx} BY <2>3
  <2> QED BY <1>1, <1>2, <1>5, <2>1, <2>4, StreamStarts
<1> QED BY <1>3, <1>4, <1>5

(* The steps of preparing and finishing a dispatch that the stream does not see. *)
LEMMA DispatchStream == Inv /\ (Prepare \/ AcquireVtcm \/ WaitTake) => StreamStep
<1> SUFFICES ASSUME Inv, Prepare \/ AcquireVtcm \/ WaitTake PROVE StreamStep OBVIOUS
<1>0. Types /\ Control /\ SlotMatches BY DEF Inv
<1>1. slot \in Slots BY <1>0 DEF Types
<1>2. CASE Prepare
  <2>1. /\ pc = "prepare" /\ here = "prepare" /\ UNCHANGED <<program, idx, failed>>
    BY <1>2 DEF Prepare, here, input
  <2>2. /\ pc' \in {"vtcm", "wait", "finalDrain"}
        /\ tasks' = tasks \/ tasks' = [tasks EXCEPT ![slot].cmd = idx, ![slot].part = {}]
    BY <1>2 DEF Prepare, Goto, CallWait, Return
  <2>3. ~ tasks[slot].inFlight BY <1>0, <2>1 DEF SlotMatches
  <2>4. \A t \in Slots : \/ tasks'[t] = tasks[t]
                         \/ ~ tasks[t].inFlight /\ ~ tasks'[t].inFlight
    <3>1. tasks \in [Slots -> TaskRecords] BY <1>0 DEF Types
    <3>2. CASE tasks' = tasks BY <3>2
    <3>3. CASE tasks' = [tasks EXCEPT ![slot].cmd = idx, ![slot].part = {}]
      <4>1. /\ ~ tasks'[slot].inFlight
            /\ \A t \in Slots \ {slot} : tasks'[t] = tasks[t]
        BY <1>1, <2>3, <3>1, <3>3 DEF TaskRecords
      <4> QED BY <2>3, <4>1
    <3> QED BY <2>2, <3>2, <3>3
  <2>5. Executing' = Executing BY <2>1, <2>2, <2>4, SameExecuting
  <2>6. err = "SUCCESS" BY <2>1, WalkingOn
  <2> QED BY <2>1, <2>2, <2>5, <2>6, StreamIdle
<1>3. CASE AcquireVtcm
  <2>1. /\ pc = "vtcm" /\ here = "vtcm" /\ UNCHANGED <<program, idx, failed, err>>
    BY <1>3 DEF AcquireVtcm, here, input
  <2>2. /\ pc' \in {"launch", "wait", "abort"}
        /\ tasks' = tasks \/ \E part \in FreeBlocks(PartitionSize(cmd)) :
             tasks' = [tasks EXCEPT ![slot].part = part]
    BY <1>3 DEF AcquireVtcm, Goto, CallWait
  <2>3. ~ tasks[slot].inFlight BY <1>0, <2>1 DEF SlotMatches
  <2>4. \A t \in Slots : \/ tasks'[t] = tasks[t]
                         \/ ~ tasks[t].inFlight /\ ~ tasks'[t].inFlight
    <3>1. tasks \in [Slots -> TaskRecords] BY <1>0 DEF Types
    <3>2. CASE tasks' = tasks BY <3>2
    <3>3. ASSUME NEW part, tasks' = [tasks EXCEPT ![slot].part = part]
          PROVE  /\ ~ tasks'[slot].inFlight
                 /\ \A t \in Slots \ {slot} : tasks'[t] = tasks[t]
      BY <1>1, <2>3, <3>1, <3>3 DEF TaskRecords
    <3> QED BY <2>2, <2>3, <3>2, <3>3
  <2>5. Executing' = Executing BY <2>1, <2>2, <2>4, SameExecuting
  <2> QED BY <2>1, <2>2, <2>5, StreamIdle
<1>4. CASE WaitTake
  <2>1. /\ pc = "wait" /\ pc' = back /\ UNCHANGED <<program, idx, failed, err>>
    BY <1>4 DEF WaitTake, input
  <2>2. back \in {"slot", "prepare", "vtcm", "barrier", "drain", "finalDrain"}
    BY <1>0, <2>1 DEF Control
  <2>3. PICK t \in Slots : Completed(t) /\ FinishDispatch(t, tasks[t].state)
    BY <1>4 DEF WaitTake
  <2>4. tasks[t].state # "RUNNING" BY <2>3 DEF Completed
  <2>5. ~ tasks'[t].inFlight /\ \A u \in Slots \ {t} : tasks'[u] = tasks[u]
    BY <1>0, <2>3 DEF FinishDispatch, Types, TaskRecords
  <2>6. Executing' = Executing BY <2>1, <2>2, <2>4, <2>5, SameExecuting
  <2> QED BY <2>1, <2>2, <2>6, StreamIdle
<1> QED BY <1>2, <1>3, <1>4

(* The steps that only move the master. *)
LEMMA ControlStream ==
  Inv /\ (Start \/ Walk \/ PickSlot \/ Drain \/ WaitSleep) => StreamStep
<1> SUFFICES ASSUME Inv, Start \/ Walk \/ PickSlot \/ Drain \/ WaitSleep PROVE StreamStep
  OBVIOUS
<1>1. tasks' = tasks /\ UNCHANGED <<program, idx, failed>>
  BY DEF Start, Walk, PickSlot, Drain, WaitSleep, input
<1>2. /\ pc \in {"start", "walk", "slot", "drain", "wait"}
      /\ pc' \in {"walk", "finalDrain", "slot", "barrier", "acquire", "prepare", "wait", "retry"}
      /\ err' = err \/ pc \in {"start", "walk"}
  <2>1. CASE Start BY <2>1 DEF Start, Goto, Return
  <2>2. CASE Walk
    <3>1. Types BY DEF Inv
    <3>2. pc = "walk" BY <2>2 DEF Walk
    <3>3. CASE pc' = "finalDrain" BY <3>2, <3>3
    <3>4. CASE pc' # "finalDrain"
      <4>1. ~ idx > Len(program) /\ cmd.kind # "invalid" /\ pc' = Entry(cmd.kind)
        BY <2>2, <3>4 DEF Walk, Return, Goto
      <4>2. idx \in 1 .. Len(program) BY <3>1, <4>1, CommandType DEF Types
      <4>3. cmd.kind \in {"dispatch", "barrier", "copy", "fill"}
        BY <3>1, <4>1, <4>2, CommandType DEF Types, cmd, Commands
      <4> QED BY <3>2, <4>1, <4>3 DEF Entry
    <3> QED BY <3>3, <3>4
  <2>3. CASE PickSlot BY <2>3 DEF PickSlot, Goto, CallWait
  <2>4. CASE Drain BY <2>4 DEF Drain, Goto, CallWait
  <2>5. CASE WaitSleep BY <2>5 DEF WaitSleep
  <2> QED BY <2>1, <2>2, <2>3, <2>4, <2>5
<1>3. Executing' = Executing BY <1>1, <1>2, SameExecuting
<1>4. err' = err \/ err = "SUCCESS" BY <1>2, WalkingOn
<1> QED BY <1>1, <1>2, <1>3, <1>4, StreamIdle

(* Every step of the scheduler is a step of the command stream or invisible in it. *)
LEMMA NextStream == Inv /\ [Next]_vars => [Stream!StreamNext]_(Stream!streamVars)
<1> SUFFICES ASSUME Inv, [Next]_vars PROVE StreamStep BY DEF StreamStep
<1>1. CASE Start \/ Walk \/ PickSlot \/ Drain \/ WaitSleep BY <1>1, ControlStream
<1>2. CASE Prepare \/ AcquireVtcm \/ WaitTake BY <1>2, DispatchStream
<1>3. CASE Launch BY <1>3, LaunchStream
<1>4. CASE Kernel BY <1>4, KernelStream
<1>5. CASE Barrier BY <1>5, BarrierStream
<1>6. CASE AcquireOperand("acquire") BY <1>6, AcquireOperandStream
<1>7. CASE AcquireOperand("retry") BY <1>7, AcquireOperandStream
<1>8. CASE Inline BY <1>8, InlineStream
<1>9. CASE FinalDrain BY <1>9, FinalDrainStream
<1>10. ASSUME NEW t \in Slots, Worker(t) PROVE StreamStep BY <1>10, WorkerStream
<1>11. CASE UNCHANGED vars
  <2>1. UNCHANGED <<program, idx, tasks, pc, failed, err>> BY <1>11 DEF vars, input
  <2>2. Executing' = Executing BY <2>1 DEF Executing, InFlight
  <2>3. UNCHANGED Stream!streamVars BY <2>1, <2>2 DEF Stream!streamVars
  <2> QED BY <2>3 DEF StreamStep
<1> QED
  BY <1>1, <1>2, <1>3, <1>4, <1>5, <1>6, <1>7, <1>8, <1>9, <1>10, <1>11 DEF Next, Master

(* The scheduler implements the command stream: the commands start in recorded order, no
   more than MaxConcurrent dispatches run at once, nothing crosses a barrier, and success
   is reported exactly when everything ran and nothing failed. *)
THEOREM StreamImplementedHolds == Spec => StreamImplemented
<1>1. Init => Stream!StreamInit
  <2> SUFFICES ASSUME Init PROVE Stream!StreamInit OBVIOUS
  <2>1. \A t \in Slots : tasks[t] = EmptyTask BY DEF Init
  <2>2. Executing = {} BY <2>1 DEF Init, Executing, InFlight, EmptyTask
  <2> QED BY <2>2 DEF Init, Stream!StreamInit
<1> QED BY <1>1, InvHolds, NextStream, PTL DEF Spec, StreamImplemented, Stream!StreamSpec
============================================================================

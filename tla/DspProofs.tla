----------------------------- MODULE DspProofs -----------------------------
(***************************************************************************)
(* The smaller components of the DSP side, each on its own: the profiler's *)
(* records, cache maintenance around executions, and the session with its  *)
(* executables. The three share no state.                                  *)
(***************************************************************************)
EXTENDS ProfilerRecords, Coherence, Session, FiniteSetTheorems, TLAPS

------------------------------------------------------------------------------
(***************************************************************************)
(* ProfilerRecords: any number of threads, any number of records, any      *)
(* number of measurements. The invariant counts the threads that lost the  *)
(* race (Losers) and those inside the call (Pending); both sets change by  *)
(* one thread in a step, which is what the first lemmas are about.         *)
(***************************************************************************)

\* One more thread is counted once more.
LEMMA CountAdd ==
  ASSUME NEW S, IsFiniteSet(S), NEW x, x \notin S
  PROVE  IsFiniteSet(S \cup {x}) /\ Cardinality(S \cup {x}) = Cardinality(S) + 1
BY FS_AddElement

\* One thread less is counted once less.
LEMMA CountRemove ==
  ASSUME NEW S, IsFiniteSet(S), NEW x \in S
  PROVE  IsFiniteSet(S \ {x}) /\ Cardinality(S \ {x}) = Cardinality(S) - 1
BY FS_RemoveElement

\* The losers and the threads inside the call can be counted.
LEMMA CountsAreNat ==
  ASSUME ProfilerTypeOK
  PROVE  /\ IsFiniteSet(Losers) /\ Cardinality(Losers) \in Nat
         /\ IsFiniteSet(Pending) /\ Cardinality(Pending) \in Nat
         /\ Losers = {} <=> Cardinality(Losers) = 0
<1>1. Losers \subseteq Thread /\ Pending \subseteq Thread
  BY DEF Losers, Pending
<1>2. IsFiniteSet(Losers) /\ IsFiniteSet(Pending)
  BY <1>1, FS_Subset, ThreadAssumption
<1>3. Cardinality(Losers) \in Nat /\ Cardinality(Pending) \in Nat
  BY <1>2, FS_CardinalityType
<1>4. Losers = {} <=> Cardinality(Losers) = 0
  BY <1>2, FS_EmptySet
<1> QED BY <1>2, <1>3, <1>4

(* A context that was just initialised satisfies the invariant. *)
LEMMA ProfilerInitInv == ProfilerInit => ProfilerInv
<1> SUFFICES ASSUME ProfilerInit PROVE ProfilerInv OBVIOUS
<1>1. ProfilerTypeOK BY RecordsAssumption DEF ProfilerInit, ProfilerTypeOK, Records
<1>2. Losers = {} /\ Pending = {} /\ Granted = {}
  BY DEF ProfilerInit, Losers, Pending, Granted
<1>3. Cardinality({}) = 0 BY FS_EmptySet
<1>4. IndexMatches
  <2>1. NumGranted = 0 BY <1>2, <1>3 DEF ProfilerInit, NumGranted
  <2>2. Granted = 0 .. NumGranted - 1 BY <1>2, <2>1
  <2> QED BY <1>2, <1>3, <2>1, <2>2, RecordsAssumption DEF ProfilerInit, IndexMatches
<1>5. ClosedIsQuiet BY <1>2 DEF ProfilerInit, ClosedIsQuiet
<1> QED BY <1>1, <1>4, <1>5 DEF ProfilerInv

(* Every step of every thread preserves it. *)
LEMMA ProfilerNextInv == ProfilerInv /\ [ProfilerNext]_profilerVars => ProfilerInv'
<1> SUFFICES ASSUME ProfilerInv, [ProfilerNext]_profilerVars PROVE ProfilerInv' OBVIOUS
<1> USE RecordsAssumption
<1>0. ProfilerTypeOK /\ IndexMatches /\ ClosedIsQuiet BY DEF ProfilerInv
<1>c. /\ IsFiniteSet(Losers) /\ Cardinality(Losers) \in Nat
      /\ IsFiniteSet(Pending) /\ Cardinality(Pending) \in Nat
      /\ Losers = {} <=> Cardinality(Losers) = 0
  BY <1>0, CountsAreNat
<1>1. ASSUME NEW t \in Thread, PreCheck(t) PROVE ProfilerInv'
  <2>1. ProfilerTypeOK' BY <1>0, <1>1 DEF PreCheck, ProfilerTypeOK
  <2>2. Losers' = Losers /\ Granted' = Granted
    BY <1>0, <1>1 DEF PreCheck, ProfilerTypeOK, Losers, Granted
  <2>3. t \notin Pending /\ Pending' = Pending \cup {t}
    BY <1>0, <1>1 DEF PreCheck, ProfilerTypeOK, Pending
  <2>4. Cardinality(Pending') = Cardinality(Pending) + 1
    BY <2>3, <1>c, CountAdd
  <2>n. NumGranted' = NumGranted BY <1>1, <2>2 DEF PreCheck, NumGranted
  <2>5. IndexMatches'
    BY <1>0, <1>1, <1>c, <2>n, <2>2, <2>4 DEF PreCheck, ProfilerTypeOK, IndexMatches
  <2>6. ClosedIsQuiet' BY <1>0, <1>1, <2>2 DEF PreCheck, ClosedIsQuiet
  <2> QED BY <2>1, <2>5, <2>6 DEF ProfilerInv
<1>2. ASSUME NEW t \in Thread, Increment(t) PROVE ProfilerInv'
  <2>1. ProfilerTypeOK' BY <1>0, <1>2 DEF Increment, ProfilerTypeOK, Records
  <2>2. t \in Pending /\ t \notin Losers BY <1>2 DEF Increment, Pending, Losers
  <2>g. Granted \subseteq Granted'
    BY <1>0, <1>2, ThreadAssumption DEF Increment, ProfilerTypeOK, Granted, Records
  <2>3. ClosedIsQuiet'
    BY <1>0, <1>2, <2>2, <2>g DEF Increment, ClosedIsQuiet
  <2>4. CASE next < NumRecords
    <3>1. Losers = {} /\ Cardinality(Losers) = 0
      BY <2>4, <1>0, <1>c DEF IndexMatches, NumGranted, ProfilerTypeOK
    <3>2. Losers' = Losers BY <2>4, <1>0, <1>2 DEF Increment, ProfilerTypeOK, Losers
    <3>3. Pending' = Pending \ {t} BY <2>4, <1>0, <1>2 DEF Increment, ProfilerTypeOK, Pending
    <3>4. Cardinality(Pending') = Cardinality(Pending) - 1
      BY <3>3, <2>2, <1>c, CountRemove
    <3>5. Granted' = Granted \cup {next}
      BY <2>4, <1>0, <1>2, ThreadAssumption DEF Increment, ProfilerTypeOK, Granted, Records
    <3>6. Granted = 0 .. next - 1 BY <1>0, <3>1 DEF IndexMatches, NumGranted, ProfilerTypeOK
    <3>7. Granted' = 0 .. next' - 1 BY <1>0, <1>2, <3>5, <3>6 DEF Increment, ProfilerTypeOK
    <3>8. NumGranted = next /\ NumGranted' = next + 1
      BY <1>0, <1>2, <3>1, <3>2 DEF NumGranted, ProfilerTypeOK, Increment
    <3>9. IndexMatches'
      BY <2>4, <1>0, <1>2, <1>c, <3>1, <3>2, <3>4, <3>7, <3>8
      DEF IndexMatches, ProfilerTypeOK, Increment
    <3> QED BY <2>1, <2>3, <3>9 DEF ProfilerInv
  <2>5. CASE ~ (next < NumRecords)
    <3>1. Losers' = Losers \cup {t} BY <2>5, <1>0, <1>2 DEF Increment, ProfilerTypeOK, Losers
    <3>2. Cardinality(Losers') = Cardinality(Losers) + 1
      BY <3>1, <2>2, <1>c, CountAdd
    <3>3. Pending' = Pending /\ Granted' = Granted
      BY <2>5, <1>0, <1>2 DEF Increment, ProfilerTypeOK, Pending, Granted
    <3>4. NumGranted' = NumGranted
      BY <1>0, <1>2, <1>c, <3>2 DEF NumGranted, ProfilerTypeOK, Increment
    <3>5. NumGranted = NumRecords
      BY <2>5, <1>0, <1>c DEF IndexMatches, NumGranted, ProfilerTypeOK
    <3>6. IndexMatches'
      BY <1>0, <1>2, <3>3, <3>4, <3>5 DEF IndexMatches, ProfilerTypeOK, Increment
    <3> QED BY <2>1, <2>3, <3>6 DEF ProfilerInv
  <2> QED BY <2>4, <2>5
<1>3. ASSUME NEW t \in Thread, Undo(t) PROVE ProfilerInv'
  <2>1. t \in Losers /\ Losers' = Losers \ {t}
    BY <1>0, <1>3 DEF Undo, ProfilerTypeOK, Losers
  <2>2. Cardinality(Losers') = Cardinality(Losers) - 1
    BY <2>1, <1>c, CountRemove
  <2>3. Pending' = Pending /\ Granted' = Granted /\ t \in Pending
    BY <1>0, <1>3 DEF Undo, ProfilerTypeOK, Pending, Granted
  <2>4. Losers # {} /\ Cardinality(Losers) > 0 BY <2>1, <1>c
  <2>5. NumGranted = NumRecords /\ next \in Nat /\ next > 0
    BY <2>4, <1>0, <1>c DEF IndexMatches, NumGranted, ProfilerTypeOK
  <2>6. NumGranted' = NumGranted
    BY <1>3, <1>c, <2>2, <2>5 DEF NumGranted, Undo
  <2>7. ProfilerTypeOK' BY <1>0, <1>3, <2>5 DEF Undo, ProfilerTypeOK
  <2>8. IndexMatches' BY <1>0, <1>3, <2>3, <2>5, <2>6 DEF IndexMatches, Undo
  <2>9. ClosedIsQuiet' BY <1>0, <1>3, <2>3 DEF ClosedIsQuiet, Undo
  <2> QED BY <2>7, <2>8, <2>9 DEF ProfilerInv
<1>4. ASSUME NEW t \in Thread, Drop(t) PROVE ProfilerInv'
  <2>1. t \in Pending /\ Pending' = Pending \ {t} /\ Losers' = Losers /\ Granted' = Granted
    BY <1>0, <1>4 DEF Drop, ProfilerTypeOK, Losers, Pending, Granted
  <2>2. Cardinality(Pending') = Cardinality(Pending) - 1
    BY <2>1, <1>c, CountRemove
  <2>3. ProfilerTypeOK' BY <1>0, <1>4 DEF Drop, ProfilerTypeOK
  <2>4. NumGranted' = NumGranted BY <1>4, <2>1 DEF NumGranted, Drop
  <2>5. IndexMatches'
    BY <1>0, <1>4, <1>c, <2>1, <2>2, <2>4 DEF IndexMatches, Drop, ProfilerTypeOK
  <2>6. ClosedIsQuiet' BY <1>0, <1>4, <2>1 DEF ClosedIsQuiet, Drop
  <2> QED BY <2>3, <2>5, <2>6 DEF ProfilerInv
<1>5. ASSUME NEW t \in Thread, Finish(t) PROVE ProfilerInv'
  <2>1. Losers' = Losers /\ Pending' = Pending /\ Granted' = Granted
    BY <1>5 DEF Finish, Losers, Pending, Granted
  <2>2. ProfilerTypeOK' BY <1>0, <1>5 DEF Finish, ProfilerTypeOK, Granted
  <2>3. IndexMatches' BY <1>0, <1>5, <2>1 DEF IndexMatches, NumGranted, Finish
  <2>4. ClosedIsQuiet' BY <1>0, <1>5, <2>1 DEF ClosedIsQuiet, Finish
  <2> QED BY <2>2, <2>3, <2>4 DEF ProfilerInv
<1>6. ASSUME Deinit PROVE ProfilerInv'
  <2>1. Losers' = Losers /\ Pending' = Pending /\ Granted' = Granted /\ Pending = {}
    BY <1>6 DEF Deinit, Losers, Pending, Granted
  <2>2. ProfilerTypeOK' BY <1>0, <1>6 DEF Deinit, ProfilerTypeOK
  <2>3. IndexMatches' BY <1>0, <1>6, <2>1 DEF IndexMatches, NumGranted, Deinit
  <2>4. ClosedIsQuiet' BY <1>0, <1>6, <2>1 DEF ClosedIsQuiet, Deinit
  <2> QED BY <2>2, <2>3, <2>4 DEF ProfilerInv
<1>7. CASE UNCHANGED profilerVars
  BY <1>7, <1>0 DEF profilerVars, ProfilerInv, ProfilerTypeOK, IndexMatches, ClosedIsQuiet, NumGranted, Losers,
                    Pending, Granted
<1> QED BY <1>1, <1>2, <1>3, <1>4, <1>5, <1>6, <1>7 DEF ProfilerNext

(* The inductive invariant holds in every execution of the profiler, whatever the number
   of threads that call profiler_measurement_start at once. *)
THEOREM ProfilerInvHolds == ProfilerSpec => []ProfilerInv
BY ProfilerInitInv, ProfilerNextInv, PTL DEF ProfilerSpec

(* The records given out are always a prefix of the array and every call of
   profiler_measurement_start is accounted for. *)
THEOREM IndexMatchesHolds == ProfilerSpec => []IndexMatches
<1>1. ProfilerInv => IndexMatches BY DEF ProfilerInv
<1> QED BY ProfilerInvHolds, <1>1, PTL

(* The host reads exactly the records that were written: profiler_context_deinit never
   reports more records than the host allocated, or a record nobody completed. *)
THEOREM HostViewHolds == ProfilerSpec => []HostView
<1>1. ProfilerInv => HostView
  <2> SUFFICES ASSUME ProfilerInv, header # none PROVE HostView BY DEF HostView
  <2>1. Pending = {} /\ completed = Granted /\ header = [started |-> next, dropped |-> dropped]
    BY DEF ProfilerInv, ClosedIsQuiet
  <2>2. Losers = {} BY <2>1 DEF Losers, Pending
  <2>3. Cardinality(Losers) = 0 /\ Cardinality(Pending) = 0
    BY <2>1, <2>2, FS_EmptySet
  <2>4. NumGranted = next BY <2>3 DEF NumGranted, ProfilerInv, ProfilerTypeOK
  <2> QED BY <2>1, <2>3, <2>4, RecordsAssumption DEF HostView, ProfilerInv, ProfilerTypeOK, IndexMatches
<1> QED BY ProfilerInvHolds, <1>1, PTL

(* The comment of the undo in profiler_context_get_fresh_record is right: the decrement
   never makes the index go below num_records. *)
THEOREM UndoSafeHolds == ProfilerSpec => UndoSafe
<1>1. ProfilerInv /\ [ProfilerNext]_profilerVars => [next >= NumRecords => next' >= NumRecords]_profilerVars
  <2> SUFFICES ASSUME ProfilerInv, ProfilerNext, next >= NumRecords PROVE next' >= NumRecords
    BY DEF profilerVars
  <2> USE RecordsAssumption
  <2>1. /\ next \in Nat /\ Cardinality(Losers) \in Nat
        /\ Losers = {} <=> Cardinality(Losers) = 0
    BY CountsAreNat DEF ProfilerInv, ProfilerTypeOK
  <2>2. ASSUME NEW t \in Thread, Undo(t) PROVE next' >= NumRecords
    <3>1. Losers # {} BY <2>2 DEF Undo, Losers
    <3> QED BY <3>1, <2>1, <2>2 DEF ProfilerInv, IndexMatches, NumGranted, Undo
  <2>3. ASSUME NEW t \in Thread, Increment(t) PROVE next' >= NumRecords
    BY <2>1, <2>3 DEF Increment
  <2> QED BY <2>2, <2>3 DEF ProfilerNext, PreCheck, Drop, Finish, Deinit
<1> QED BY ProfilerInvHolds, <1>1, PTL DEF ProfilerSpec, UndoSafe

(* No record is handed out twice: the atomic index gives each zone a record of its own. *)
THEOREM RecordsStayOwnedHolds == ProfilerSpec => RecordsStayOwned
<1>1. ProfilerInv /\ [ProfilerNext]_profilerVars => [\A i \in Granted : owner'[i] = owner[i]]_profilerVars
  <2> SUFFICES ASSUME ProfilerInv, ProfilerNext, NEW i \in Granted PROVE owner'[i] = owner[i]
    BY DEF profilerVars
  <2>1. ASSUME NEW t \in Thread, Increment(t) PROVE owner'[i] = owner[i]
    <3>1. CASE next < NumRecords
      <4>1. /\ next \in Nat /\ Cardinality(Losers) \in Nat
            /\ Losers = {} <=> Cardinality(Losers) = 0
        BY CountsAreNat DEF ProfilerInv, ProfilerTypeOK
      <4>2. Granted = 0 .. next - 1
        BY <3>1, <4>1, RecordsAssumption DEF ProfilerInv, IndexMatches, NumGranted
      <4>3. i # next BY <4>1, <4>2
      <4> QED BY <2>1, <3>1, <4>3 DEF Increment, ProfilerInv, ProfilerTypeOK, Granted
    <3>2. CASE ~ (next < NumRecords) BY <2>1, <3>2 DEF Increment
    <3> QED BY <3>1, <3>2
  <2> QED BY <2>1 DEF ProfilerNext, PreCheck, Undo, Drop, Finish, Deinit
<1> QED BY ProfilerInvHolds, <1>1, PTL DEF ProfilerSpec, RecordsStayOwned

------------------------------------------------------------------------------
(***************************************************************************)
(* Coherence: any number of buffers and of overlapping executions.         *)
(*                                                                         *)
(* LinesMatch is the argument. A dirty line belongs to exactly one         *)
(* execution, since overlapping executions do not conflict, and that       *)
(* execution has not finished its flush; every other line may be dropped   *)
(* because memory is up to date. Each action disturbs the line of one      *)
(* buffer, so the proof looks at one buffer b at a time.                   *)
(***************************************************************************)

(* No line, no cached data, no execution: the invariant holds at the start. *)
LEMMA CoherenceInitInv == CoherenceInit => CoherenceInv
BY DEF CoherenceInit, CoherenceInv, CoherenceTypeOK, LinesMatch, StagesMatch, Stages, Past, View, Dirty, UsedBy

\* The part of LinesMatch about one buffer.
LineMatches(b) ==
  /\ line[b] # NoLine => b \in mapped
  /\ Dirty(b) =>
       /\ line[b].version = latest[b]
       /\ \E e \in Exec :
            /\ b \in writes[e]
            /\ stage[e] = "run" \/ (stage[e] = "flush" /\ b \in todo[e])
  /\ ~ Dirty(b) => memory[b] = latest[b]
  /\ \A e \in Exec : Past(e, b) => View(b) = latest[b]

(* Every step preserves the invariant. *)
LEMMA CoherenceNextInv == CoherenceInv /\ [CoherenceNext]_coherenceVars => CoherenceInv'
<1> SUFFICES ASSUME CoherenceInv, [CoherenceNext]_coherenceVars PROVE CoherenceInv' OBVIOUS
<1> USE LineAssumption DEF Lines, Line
<1>0. CoherenceTypeOK /\ LinesMatch /\ StagesMatch BY DEF CoherenceInv
<1>1. ASSUME NEW b \in Buf, Fetch(b) PROVE CoherenceInv'
  <2>1. CoherenceTypeOK' BY <1>0, <1>1 DEF Fetch, execVars, CoherenceTypeOK, Stages
  <2>2. StagesMatch' BY <1>0, <1>1 DEF Fetch, execVars, CoherenceTypeOK, Stages, StagesMatch
  <2>3. ASSUME NEW c \in Buf PROVE LineMatches(c)'
    BY <1>0, <1>1 DEF Fetch, execVars, CoherenceTypeOK, Stages, StagesMatch, LinesMatch, LineMatches,
       Past, View, Dirty
  <2> QED BY <2>1, <2>2, <2>3 DEF CoherenceInv, LinesMatch, LineMatches
<1>2. ASSUME NEW b \in Buf, WriteBack(b) PROVE CoherenceInv'
  <2>1. CoherenceTypeOK'
    BY <1>0, <1>2 DEF WriteBack, CacheFlushInvalidate, execVars, CoherenceTypeOK, Stages, Dirty
  <2>2. StagesMatch'
    BY <1>0, <1>2 DEF WriteBack, CacheFlushInvalidate, execVars, CoherenceTypeOK, Stages, StagesMatch
  <2>3. ASSUME NEW c \in Buf PROVE LineMatches(c)'
    BY <1>0, <1>2 DEF WriteBack, CacheFlushInvalidate, execVars, CoherenceTypeOK, Stages,
       StagesMatch, LinesMatch, LineMatches,
       Past, View, Dirty
  <2> QED BY <2>1, <2>2, <2>3 DEF CoherenceInv, LinesMatch, LineMatches
<1>3. ASSUME NEW b \in Buf, HostWrite(b) PROVE CoherenceInv'
  <2>1. CoherenceTypeOK' BY <1>0, <1>3 DEF HostWrite, UsedBy, execVars, CoherenceTypeOK, Stages
  <2>2. StagesMatch'
    BY <1>0, <1>3 DEF HostWrite, UsedBy, execVars, CoherenceTypeOK, Stages, StagesMatch
  <2>3. ASSUME NEW c \in Buf PROVE LineMatches(c)'
    BY <1>0, <1>3 DEF HostWrite, UsedBy, execVars, CoherenceTypeOK, Stages, StagesMatch,
       LinesMatch, LineMatches,
       Past, View, Dirty
  <2> QED BY <2>1, <2>2, <2>3 DEF CoherenceInv, LinesMatch, LineMatches
<1>4. ASSUME NEW b \in Buf, Unmap(b) PROVE CoherenceInv'
  <2>1. CoherenceTypeOK'
    BY <1>0, <1>4 DEF Unmap, CacheFlushInvalidate, execVars, CoherenceTypeOK, Stages, Dirty
  <2>2. StagesMatch'
    BY <1>0, <1>4 DEF Unmap, CacheFlushInvalidate, execVars, CoherenceTypeOK, Stages, StagesMatch
  <2>3. ASSUME NEW c \in Buf PROVE LineMatches(c)'
    BY <1>0, <1>4 DEF Unmap, CacheFlushInvalidate, execVars, CoherenceTypeOK, Stages, StagesMatch,
       LinesMatch, LineMatches,
       Past, View, Dirty
  <2> QED BY <2>1, <2>2, <2>3 DEF CoherenceInv, LinesMatch, LineMatches
<1>5. ASSUME NEW e \in Exec, NEW U \in SUBSET Buf, NEW W \in SUBSET U, Begin(e, U, W) PROVE CoherenceInv'
  <2>1. CoherenceTypeOK' BY <1>0, <1>5 DEF Begin, execVars, CoherenceTypeOK, Stages
  <2>2. StagesMatch' BY <1>0, <1>5 DEF Begin, execVars, CoherenceTypeOK, Stages, StagesMatch
  <2>3. ASSUME NEW c \in Buf PROVE LineMatches(c)'
    BY <1>0, <1>5 DEF Begin, execVars, CoherenceTypeOK, Stages, StagesMatch, LinesMatch, LineMatches,
       Past, View, Dirty
  <2> QED BY <2>1, <2>2, <2>3 DEF CoherenceInv, LinesMatch, LineMatches
<1>6. ASSUME NEW e \in Exec, Invalidate(e) PROVE CoherenceInv'
  <2>1. CoherenceTypeOK'
    BY <1>0, <1>6 DEF Invalidate, InvalidateIfMapped, CacheInvalidate, execVars, CoherenceTypeOK,
       Stages
  <2>2. StagesMatch'
    BY <1>0, <1>6 DEF Invalidate, InvalidateIfMapped, CacheInvalidate, execVars, CoherenceTypeOK,
       Stages, StagesMatch
  <2>3. ASSUME NEW c \in Buf PROVE LineMatches(c)'
    BY <1>0, <1>6 DEF Invalidate, InvalidateIfMapped, CacheInvalidate, execVars, CoherenceTypeOK,
       Stages, StagesMatch, LinesMatch, LineMatches,
       Past, View, Dirty
  <2> QED BY <2>1, <2>2, <2>3 DEF CoherenceInv, LinesMatch, LineMatches
<1>7. ASSUME NEW e \in Exec, BeginCommands(e) PROVE CoherenceInv'
  <2>1. CoherenceTypeOK' BY <1>0, <1>7 DEF BeginCommands, execVars, CoherenceTypeOK, Stages
  <2>2. StagesMatch' BY <1>0, <1>7 DEF BeginCommands, execVars, CoherenceTypeOK, Stages, StagesMatch
  <2>3. ASSUME NEW c \in Buf PROVE LineMatches(c)'
    BY <1>0, <1>7 DEF BeginCommands, execVars, CoherenceTypeOK, Stages, StagesMatch, LinesMatch,
       LineMatches,
       Past, View, Dirty
  <2> QED BY <2>1, <2>2, <2>3 DEF CoherenceInv, LinesMatch, LineMatches
<1>8. ASSUME NEW e \in Exec, EndCommands(e) PROVE CoherenceInv'
  <2>1. CoherenceTypeOK' BY <1>0, <1>8 DEF EndCommands, execVars, CoherenceTypeOK, Stages
  <2>2. StagesMatch' BY <1>0, <1>8 DEF EndCommands, execVars, CoherenceTypeOK, Stages, StagesMatch
  <2>3. ASSUME NEW c \in Buf PROVE LineMatches(c)'
    BY <1>0, <1>8 DEF EndCommands, execVars, CoherenceTypeOK, Stages, StagesMatch, LinesMatch,
       LineMatches,
       Past, View, Dirty
  <2> QED BY <2>1, <2>2, <2>3 DEF CoherenceInv, LinesMatch, LineMatches
<1>9. ASSUME NEW e \in Exec, Flush(e) PROVE CoherenceInv'
  <2>1. CoherenceTypeOK'
    BY <1>0, <1>9 DEF Flush, InvalidateIfMapped, CacheFlushInvalidate, execVars, CoherenceTypeOK,
       Stages, Dirty
  <2>2. StagesMatch'
    BY <1>0, <1>9 DEF Flush, InvalidateIfMapped, CacheFlushInvalidate, execVars, CoherenceTypeOK,
       Stages, StagesMatch
  <2>3. ASSUME NEW c \in Buf PROVE LineMatches(c)'
    BY <1>0, <1>9 DEF Flush, InvalidateIfMapped, CacheFlushInvalidate, execVars, CoherenceTypeOK,
       Stages, StagesMatch, LinesMatch, LineMatches,
       Past, View, Dirty
  <2> QED BY <2>1, <2>2, <2>3 DEF CoherenceInv, LinesMatch, LineMatches
<1>10. ASSUME NEW e \in Exec, End(e) PROVE CoherenceInv'
  <2>1. CoherenceTypeOK' BY <1>0, <1>10 DEF End, execVars, CoherenceTypeOK, Stages
  <2>2. StagesMatch' BY <1>0, <1>10 DEF End, execVars, CoherenceTypeOK, Stages, StagesMatch
  <2>3. ASSUME NEW c \in Buf PROVE LineMatches(c)'
    BY <1>0, <1>10 DEF End, execVars, CoherenceTypeOK, Stages, StagesMatch, LinesMatch, LineMatches,
       Past, View, Dirty
  <2> QED BY <2>1, <2>2, <2>3 DEF CoherenceInv, LinesMatch, LineMatches
<1>11. ASSUME NEW e \in Exec, NEW b \in Buf, Acquire(e, b) PROVE CoherenceInv'
  <2>1. CoherenceTypeOK' BY <1>0, <1>11 DEF Acquire, execVars, CoherenceTypeOK, Stages
  <2>2. StagesMatch' BY <1>0, <1>11 DEF Acquire, execVars, CoherenceTypeOK, Stages, StagesMatch
  <2>3. ASSUME NEW c \in Buf PROVE LineMatches(c)'
    BY <1>0, <1>11 DEF Acquire, execVars, CoherenceTypeOK, Stages, StagesMatch, LinesMatch,
       LineMatches,
       Past, View, Dirty
  <2> QED BY <2>1, <2>2, <2>3 DEF CoherenceInv, LinesMatch, LineMatches
<1>12. ASSUME NEW e \in Exec, NEW b \in Buf, Write(e, b) PROVE CoherenceInv'
  <2>1. CoherenceTypeOK' BY <1>0, <1>12 DEF Write, execVars, CoherenceTypeOK, Stages
  <2>2. StagesMatch' BY <1>0, <1>12 DEF Write, execVars, CoherenceTypeOK, Stages, StagesMatch
  <2>3. ASSUME NEW c \in Buf PROVE LineMatches(c)'
    <3>1. CASE c # b
      BY <1>0, <1>12, <3>1 DEF Write, execVars, CoherenceTypeOK, LinesMatch, LineMatches, Past, View,
         Dirty
    <3>2. CASE c = b
      <4>1. line'[b] = [version |-> latest'[b], dirty |-> TRUE] /\ latest'[b] \in Nat
        BY <1>0, <1>12 DEF Write, CoherenceTypeOK
      <4>2. line'[b] # NoLine
        <5>1. line'[b] \in [version : Nat, dirty : BOOLEAN] BY <4>1
        <5> QED BY <5>1, LineAssumption
      <4>3. b \in mapped' /\ b \in writes'[e] /\ stage'[e] = "run"
        BY <1>0, <1>12 DEF Write, execVars, CoherenceTypeOK, StagesMatch
      <4> QED BY <3>2, <4>1, <4>2, <4>3 DEF LineMatches, View, Dirty
    <3> QED BY <3>1, <3>2
  <2> QED BY <2>1, <2>2, <2>3 DEF CoherenceInv, LinesMatch, LineMatches
<1>13. ASSUME NEW e \in Exec, NEW b \in Buf, Release(e, b) PROVE CoherenceInv'
  <2>1. CoherenceTypeOK' BY <1>0, <1>13 DEF Release, execVars, CoherenceTypeOK, Stages
  <2>2. StagesMatch' BY <1>0, <1>13 DEF Release, execVars, CoherenceTypeOK, Stages, StagesMatch
  <2>3. ASSUME NEW c \in Buf PROVE LineMatches(c)'
    BY <1>0, <1>13 DEF Release, execVars, CoherenceTypeOK, Stages, StagesMatch, LinesMatch,
       LineMatches,
       Past, View, Dirty
  <2> QED BY <2>1, <2>2, <2>3 DEF CoherenceInv, LinesMatch, LineMatches
<1>14. CASE UNCHANGED coherenceVars
  BY <1>0, <1>14 DEF coherenceVars, CoherenceInv, CoherenceTypeOK, LinesMatch, StagesMatch, Past, View, Dirty
<1> QED
  BY <1>1, <1>2, <1>3, <1>4, <1>5, <1>6, <1>7, <1>8, <1>9, <1>10, <1>11, <1>12, <1>13,
     <1>14 DEF CoherenceNext

(* The inductive invariant holds for any number of buffers and executions. *)
THEOREM CoherenceInvHolds == CoherenceSpec => []CoherenceInv
BY CoherenceInitInv, CoherenceNextInv, PTL DEF CoherenceSpec

(* A command that has acquired a buffer sees what was written last, whatever the residency
   cache unmapped and mapped again in the meantime. *)
THEOREM CommandsSeeLatestHolds == CoherenceSpec => []CommandsSeeLatest
<1>1. CoherenceInv => CommandsSeeLatest
  BY DEF CoherenceInv, CoherenceTypeOK, LinesMatch, StagesMatch, CommandsSeeLatest, Past
<1> QED BY CoherenceInvHolds, <1>1, PTL

(* When exec_buf has returned, the host finds in memory what the commands wrote. *)
THEOREM HostSeesLatestHolds == CoherenceSpec => []HostSeesLatest
<1>1. CoherenceInv => HostSeesLatest
  BY DEF CoherenceInv, CoherenceTypeOK, LinesMatch, StagesMatch, HostSeesLatest, UsedBy
<1> QED BY CoherenceInvHolds, <1>1, PTL

------------------------------------------------------------------------------
(***************************************************************************)
(* Session: any number of executables, any DSP, any options, any path.     *)
(*                                                                         *)
(* What the device holds is a function of how far set-up has come, so the  *)
(* argument is a table: SetUpTable says what every step adds to and takes  *)
(* from the strings and the DSP's session, and what its failure undoes.    *)
(* A step moves `held` from one row of the table to the next one; a        *)
(* failure, or the destruction of the device, empties the row. For the     *)
(* executables, what the DSP holds is always a prefix of the load steps,   *)
(* all of it whenever a command has a handle.                              *)
(***************************************************************************)

Owned == {"proactors", "blockPool", "allocator", "device"}
Resources == {"notify"} \cup Owned \cup Strings \cup DspSession

\* The row of the table: strings and DSP state that are held before step n.
StringsAt(n) ==
  CASE n = 9 -> {"procExe"}
    [] n = 10 -> {"resolved"}
    [] n = 11 -> {"binaryDir"}
    [] n \in 12 .. 18 -> {"uri"}
    [] OTHER -> {}

DspAt(n) ==
  CASE n = 14 -> {"priv"}
    [] n = 15 -> {"priv", "residency"}
    [] n \in 16 .. 20 -> DspSession
    [] OTHER -> {}

\* The session's limit is set by the steps that open the session and configure it.
LimitAt(n) ==
  CASE n \in 1 .. 18 -> 0
    [] n = 19 -> 1
    [] OTHER -> MaxConcurrent(options.concurrency)

TypeOK ==
  /\ phase \in {"idle", "setup", "ready", "failed", "destroyed"}
  /\ at \in 1 .. 20
  /\ options \in [notify : BOOLEAN, concurrency : ConcurrencyOptions, budget : BudgetOptions]
  /\ held \subseteq Resources
  /\ limit \in Int /\ budget \in Int
  /\ hostExe \subseteq Exe /\ files \subseteq hostExe /\ handles \subseteq Exe
  /\ dspExe \in [Exe -> SUBSET Loaded]

\* Where the device is in its set-up decides what it holds.
HeldMatches ==
  /\ phase = "idle" => at = 1 /\ held = {}
  /\ phase = "ready" => at = 20
  /\ phase \in {"idle", "setup", "ready"} =>
       /\ held \cap Strings \subseteq StringsAt(at)
       /\ held \cap DspSession = DspAt(at)
       /\ limit = LimitAt(at)
       /\ at = 20 => limit # -1
       /\ at > 1 => options.concurrency >= 0
  /\ phase = "failed" => held \subseteq {"notify"} \cup Strings
  /\ phase = "destroyed" => held \subseteq {"notify"}
  /\ phase = "ready" => budget = ResidencyBudget(options.budget) /\ budget # -1

\* What the DSP holds of an executable after n load steps.
LoadedUpTo(n) == {LoadSteps[k] : k \in 1 .. n}

ExecutablesMatch ==
  /\ \A e \in Exe : \E n \in 0 .. 4 : dspExe[e] = LoadedUpTo(n)
  /\ \A e \in Exe \ hostExe : dspExe[e] \in {{}, Loaded}
  /\ \A e \in handles : dspExe[e] = Loaded

\* The inductive invariant.
Inv == TypeOK /\ HeldMatches /\ ExecutablesMatch

----------------------------------------------------------------------------
(* The table *)

(* The steps of the set-up that matter by name, and the rows of the table: each step
   leads from one row to the next; a failing step loses only strings and what the device
   owns, and before the session is open it undoes whatever the DSP has set up. *)
LEMMA SetUpTable ==
  /\ Len(SetUp) = 20
  /\ \A n \in 1 .. 20 :
       /\ SetUp[n].takes \subseteq Resources
       /\ SetUp[n].lost \subseteq Strings \cup Owned
       /\ (StringsAt(n) \cup (SetUp[n].takes \cap Strings)) \ SetUp[n].gives = StringsAt(n + 1)
       /\ n < 20 => (DspAt(n) \cup (SetUp[n].takes \cap DspSession)) \ SetUp[n].gives
                      = DspAt(n + 1)
       /\ n = 20 => SetUp[n].takes = {} /\ SetUp[n].gives = {}
       /\ n < 19 => DspAt(n) \subseteq SetUp[n].undone
       /\ SetUp[n].name = "notify" <=> n = 4
       /\ SetUp[n].name = "verify" <=> n = 1
       /\ SetUp[n].name = "powerVote" <=> n = 18
       /\ SetUp[n].name = "setLimit" <=> n = 19
       /\ SetUp[n].name = "setBudget" <=> n = 20
<1>1. Len(SetUp) = 20 BY DEF SetUp
<1> USE DEF Resources, Owned, Strings, DspSession, OpenUndone, StringsAt, DspAt
<1> SUFFICES ASSUME NEW n \in 1 .. 20
    PROVE /\ SetUp[n].takes \subseteq Resources
          /\ SetUp[n].lost \subseteq Strings \cup Owned
          /\ (StringsAt(n) \cup (SetUp[n].takes \cap Strings)) \ SetUp[n].gives
               = StringsAt(n + 1)
          /\ n < 20 => (DspAt(n) \cup (SetUp[n].takes \cap DspSession)) \ SetUp[n].gives
                         = DspAt(n + 1)
          /\ n = 20 => SetUp[n].takes = {} /\ SetUp[n].gives = {}
          /\ n < 19 => DspAt(n) \subseteq SetUp[n].undone
          /\ SetUp[n].name = "notify" <=> n = 4
          /\ SetUp[n].name = "verify" <=> n = 1
          /\ SetUp[n].name = "powerVote" <=> n = 18
          /\ SetUp[n].name = "setLimit" <=> n = 19
          /\ SetUp[n].name = "setBudget" <=> n = 20
  BY <1>1
<1>2. /\ SetUp[n].takes \subseteq Resources
      /\ SetUp[n].lost \subseteq Strings \cup Owned
      /\ n = 20 => SetUp[n].takes = {} /\ SetUp[n].gives = {}
      /\ n < 19 => DspAt(n) \subseteq SetUp[n].undone
  BY DEF SetUp, Step, OpenStep
<1>3. (StringsAt(n) \cup (SetUp[n].takes \cap Strings)) \ SetUp[n].gives = StringsAt(n + 1)
  BY DEF SetUp, Step, OpenStep
<1>4. n < 20 => (DspAt(n) \cup (SetUp[n].takes \cap DspSession)) \ SetUp[n].gives
                  = DspAt(n + 1)
  BY DEF SetUp, Step, OpenStep
<1>5. /\ SetUp[n].name = "notify" <=> n = 4
      /\ SetUp[n].name = "verify" <=> n = 1
      /\ SetUp[n].name = "powerVote" <=> n = 18
      /\ SetUp[n].name = "setLimit" <=> n = 19
      /\ SetUp[n].name = "setBudget" <=> n = 20
  BY DEF SetUp, Step, OpenStep
<1> QED BY <1>2, <1>3, <1>4, <1>5

----------------------------------------------------------------------------
(* The load steps *)

(* The load steps are distinct, so the number of things that the DSP holds of an
   executable is the number of steps done, and the next step is the one the code takes. *)
LEMMA LoadedCount ==
  /\ Loaded = LoadedUpTo(4) /\ LoadedUpTo(0) = {}
  /\ \A n \in 0 .. 4 : Cardinality(LoadedUpTo(n)) = n /\ LoadedUpTo(n) \subseteq Loaded
  /\ \A n \in 0 .. 3 : LoadedUpTo(n) \cup {LoadSteps[n + 1]} = LoadedUpTo(n + 1)
<1>1. Loaded = LoadedUpTo(4) /\ LoadedUpTo(0) = {}
  BY DEF Loaded, LoadedUpTo, LoadSteps
<1>2. \A n \in 0 .. 3 : LoadedUpTo(n) \cup {LoadSteps[n + 1]} = LoadedUpTo(n + 1)
  BY DEF LoadedUpTo
<1>3. \A n \in 0 .. 3 : LoadSteps[n + 1] \notin LoadedUpTo(n)
  BY DEF LoadedUpTo, LoadSteps
<1>4. \A n \in 0 .. 4 : LoadedUpTo(n) \subseteq Loaded
  BY DEF Loaded, LoadedUpTo, LoadSteps
<1> DEFINE P(n) == IsFiniteSet(LoadedUpTo(n)) /\ Cardinality(LoadedUpTo(n)) = n
<1>5. P(0) BY <1>1, FS_EmptySet
<1>6. ASSUME NEW n \in 0 .. 3, P(n) PROVE P(n + 1)
  <2>1. /\ IsFiniteSet(LoadedUpTo(n) \cup {LoadSteps[n + 1]})
        /\ Cardinality(LoadedUpTo(n) \cup {LoadSteps[n + 1]}) = Cardinality(LoadedUpTo(n)) + 1
    BY <1>3, <1>6, FS_AddElement
  <2> QED BY <1>2, <1>6, <2>1
<1>7. P(1) /\ P(2) /\ P(3) /\ P(4)
  <2> HIDE DEF P
  <2>1. P(0 + 1) BY <1>5, <1>6
  <2>2. P(1 + 1) BY <2>1, <1>6
  <2>3. P(2 + 1) BY <2>2, <1>6
  <2>4. P(3 + 1) BY <2>3, <1>6
  <2> QED BY <2>1, <2>2, <2>3, <2>4
<1>8. \A n \in 0 .. 4 : Cardinality(LoadedUpTo(n)) = n
  <2> SUFFICES ASSUME NEW n \in 0 .. 4 PROVE Cardinality(LoadedUpTo(n)) = n OBVIOUS
  <2>1. n = 0 \/ n = 1 \/ n = 2 \/ n = 3 \/ n = 4 OBVIOUS
  <2> QED BY <2>1, <1>5, <1>7
<1> QED BY <1>1, <1>2, <1>4, <1>8
----------------------------------------------------------------------------
(* The invariant *)

(* Nothing is held and nothing is loaded before a device is created. *)
LEMMA InitInv == Init => Inv
<1> SUFFICES ASSUME Init PROVE Inv OBVIOUS
<1>1. TypeOK BY SessionAssumption DEF Init, TypeOK
<1>2. HeldMatches BY DEF Init, HeldMatches, StringsAt, DspAt, LimitAt
<1>3. ExecutablesMatch BY LoadedCount DEF Init, ExecutablesMatch
<1> QED BY <1>1, <1>2, <1>3 DEF Inv

(* The limit that the DSP accepts is between 1 and what the HVX contexts and the workers
   allow. *)
LEMMA LimitInRange ==
  ASSUME NEW n \in Int, n >= 0, MaxConcurrent(n) # -1
  PROVE  MaxConcurrent(n) \in 1 .. HvxLimit /\ (n # 0 => MaxConcurrent(n) = n)
BY SessionAssumption DEF MaxConcurrent, HvxLimit

(* The limit and the budget are integers. *)
LEMMA ConfiguredType ==
  TypeOK => /\ MaxConcurrent(options.concurrency) \in Int
            /\ ResidencyBudget(options.budget) \in Int
<1> SUFFICES ASSUME TypeOK PROVE /\ MaxConcurrent(options.concurrency) \in Int
                                 /\ ResidencyBudget(options.budget) \in Int
  OBVIOUS
<1>1. options.concurrency \in Int /\ options.budget \in Int
  BY SessionAssumption DEF TypeOK
<1> QED BY <1>1, SessionAssumption DEF MaxConcurrent, HvxLimit, ResidencyBudget

(* A step of the set-up leads to the next row of the table. *)
LEMMA SetUpStepInv == Inv /\ SetUpStep => Inv'
<1> SUFFICES ASSUME Inv, SetUpStep PROVE Inv' OBVIOUS
<1>0. TypeOK /\ HeldMatches /\ ExecutablesMatch BY DEF Inv
<1>1. at \in 1 .. 20 /\ phase = "setup" /\ at \in Nat BY <1>0 DEF TypeOK, SetUpStep
<1>2. /\ Len(SetUp) = 20
      /\ SetUp[at].takes \subseteq Resources
      /\ (StringsAt(at) \cup (SetUp[at].takes \cap Strings)) \ SetUp[at].gives
           = StringsAt(at + 1)
      /\ at < 20 => (DspAt(at) \cup (SetUp[at].takes \cap DspSession)) \ SetUp[at].gives
                      = DspAt(at + 1)
      /\ at = 20 => SetUp[at].takes = {} /\ SetUp[at].gives = {}
      /\ SetUp[at].name = "notify" <=> at = 4
      /\ SetUp[at].name = "verify" <=> at = 1
      /\ SetUp[at].name = "powerVote" <=> at = 18
      /\ SetUp[at].name = "setLimit" <=> at = 19
      /\ SetUp[at].name = "setBudget" <=> at = 20
  BY <1>1, SetUpTable
<1>3. limit' \in Int /\ budget' \in Int
  BY <1>0, ConfiguredType DEF SetUpStep, TypeOK
<1>4. TypeOK'
  BY <1>0, <1>1, <1>2, <1>3 DEF TypeOK, SetUpStep, Current, exeVars, Skipped
<1>5. ExecutablesMatch' BY <1>0 DEF ExecutablesMatch, SetUpStep, exeVars
<1>6. \/ at = 20 /\ at' = 20 /\ phase' = "ready" /\ held' = held
      \/ at < 20 /\ at' = at + 1 /\ phase' = "setup"
  BY <1>1, <1>2 DEF SetUpStep, Current, Skipped
<1>7. held' \cap Strings \subseteq StringsAt(at)'
  <2>1. CASE Skipped
    <3>1. at = 4 BY <2>1, <1>2 DEF Skipped, Current
    <3> QED BY <2>1, <3>1, <1>0, <1>1, <1>6 DEF SetUpStep, HeldMatches, StringsAt
  <2>2. CASE ~Skipped /\ at < 20
    BY <2>2, <1>0, <1>1, <1>2, <1>6 DEF SetUpStep, HeldMatches, Current
  <2>3. CASE at = 20
    BY <2>3, <1>0, <1>1, <1>6 DEF HeldMatches
  <2> QED BY <2>1, <2>2, <2>3, <1>1
<1>8. held' \cap DspSession = DspAt(at)'
  <2>1. CASE Skipped
    <3>1. at = 4 BY <2>1, <1>2 DEF Skipped, Current
    <3> QED BY <2>1, <3>1, <1>0, <1>1, <1>6 DEF SetUpStep, HeldMatches, DspAt
  <2>2. CASE ~Skipped /\ at < 20
    BY <2>2, <1>0, <1>1, <1>2, <1>6 DEF SetUpStep, HeldMatches, Current
  <2>3. CASE at = 20
    BY <2>3, <1>0, <1>1, <1>6 DEF HeldMatches
  <2> QED BY <2>1, <2>2, <2>3, <1>1
<1>9. /\ limit' = LimitAt(at)'
      /\ at' = 20 => limit' # -1
      /\ at' > 1 => options'.concurrency >= 0
  <2>1. options' = options BY DEF SetUpStep
  <2>2. CASE at = 20
    BY <2>1, <2>2, <1>0, <1>1, <1>2, <1>6 DEF SetUpStep, HeldMatches, Current, LimitAt,
       MaxConcurrent
  <2>3. CASE at = 19
    BY <2>1, <2>3, <1>0, <1>1, <1>2, <1>6 DEF SetUpStep, HeldMatches, Current, LimitAt,
       Possible, MaxConcurrent
  <2>4. CASE at = 1
    BY <2>1, <2>4, <1>0, <1>1, <1>2, <1>6 DEF SetUpStep, HeldMatches, Current, LimitAt,
       Possible
  <2>5. CASE at \in 2 .. 18
    BY <2>1, <2>5, <1>0, <1>1, <1>2, <1>6 DEF SetUpStep, HeldMatches, Current, LimitAt
  <2> QED BY <2>2, <2>3, <2>4, <2>5, <1>1
<1>10. phase' = "ready" => budget' = ResidencyBudget(options.budget)' /\ budget' # -1
  BY <1>1, <1>2, <1>6 DEF SetUpStep, Current, Possible, ResidencyBudget
<1>11. HeldMatches' BY <1>6, <1>7, <1>8, <1>9, <1>10 DEF HeldMatches
<1> QED BY <1>4, <1>5, <1>11 DEF Inv

(* A failing step leaves only the status notification and strings: what the DSP has set
   up is undone by the failing open, or closed with the session once that is open. *)
LEMMA SetUpFailsInv == Inv /\ SetUpFails => Inv'
<1> SUFFICES ASSUME Inv, SetUpFails PROVE Inv' OBVIOUS
<1>0. TypeOK /\ HeldMatches /\ ExecutablesMatch BY DEF Inv
<1>1. at \in 1 .. 20 /\ phase = "setup" /\ phase' = "failed" BY <1>0 DEF TypeOK, SetUpFails
<1>2. PICK lost \in SUBSET Current.lost :
        held' = ((held \cup lost) \ Current.undone) \ Destroyed
  BY DEF SetUpFails
<1>3. Current.lost \subseteq Strings \cup Owned /\ (at < 19 => DspAt(at) \subseteq Current.undone)
  BY <1>1, SetUpTable DEF Current
<1>4. at \in {19, 20} => SessionOpen
  <2>1. at = 20 => limit \in 1 .. HvxLimit
    BY <1>0, <1>1, LimitInRange, SessionAssumption DEF HeldMatches, TypeOK, LimitAt
  <2> QED BY <1>0, <1>1, <2>1 DEF SessionOpen, HeldMatches, LimitAt
<1>5. Owned \subseteq Destroyed /\ (SessionOpen => DspSession \subseteq Destroyed)
  BY DEF Owned, Destroyed
<1>6. held \cap DspSession = DspAt(at) /\ held \subseteq Resources
  BY <1>0, <1>1 DEF HeldMatches, TypeOK
<1>7. held' \subseteq {"notify"} \cup Strings
  <2>1. CASE at < 19
    BY <1>2, <1>3, <1>5, <1>6, <2>1 DEF Resources
  <2>2. CASE at \in {19, 20}
    BY <1>2, <1>3, <1>4, <1>5, <1>6, <2>2 DEF Resources
  <2> QED BY <1>1, <2>1, <2>2
<1>8. TypeOK' BY <1>0, <1>1, <1>7 DEF TypeOK, SetUpFails, exeVars, Resources
<1>9. HeldMatches' BY <1>1, <1>7 DEF HeldMatches
<1>10. ExecutablesMatch' BY <1>0 DEF ExecutablesMatch, SetUpFails, exeVars
<1> QED BY <1>8, <1>9, <1>10 DEF Inv

(* Every step preserves the invariant. *)
LEMMA NextInv == Inv /\ [Next]_vars => Inv'
<1> SUFFICES ASSUME Inv, [Next]_vars PROVE Inv' OBVIOUS
<1>0. TypeOK /\ HeldMatches /\ ExecutablesMatch BY DEF Inv
<1>1. ASSUME NEW p \in Path, CreateDevice(p) PROVE Inv'
  <2>1. TypeOK' BY <1>0, <1>1 DEF TypeOK, CreateDevice, exeVars
  <2>2. HeldMatches'
    BY <1>0, <1>1 DEF HeldMatches, CreateDevice, StringsAt, DspAt, LimitAt, Resources,
       TypeOK, Strings, DspSession, Owned
  <2>3. ExecutablesMatch' BY <1>0, <1>1 DEF ExecutablesMatch, CreateDevice, exeVars
  <2> QED BY <2>1, <2>2, <2>3 DEF Inv
<1>2. ASSUME EnlargeLink PROVE Inv'
  <2>1. TypeOK' BY <1>0, <1>2 DEF TypeOK, EnlargeLink, exeVars
  <2>2. HeldMatches'
    BY <1>0, <1>2 DEF HeldMatches, EnlargeLink, StringsAt, DspAt, LimitAt, MaxConcurrent,
       ResidencyBudget
  <2>3. ExecutablesMatch' BY <1>0, <1>2 DEF ExecutablesMatch, EnlargeLink, exeVars
  <2> QED BY <2>1, <2>2, <2>3 DEF Inv
<1>3. ASSUME UNCHANGED others PROVE HeldMatches'
  BY <1>0, <1>3 DEF HeldMatches, others, StringsAt, DspAt, LimitAt, MaxConcurrent,
     ResidencyBudget
<1>4. ASSUME NEW e \in Exe, PrepareExecutable(e) PROVE Inv'
  <2>1. TypeOK' BY <1>0, <1>4 DEF TypeOK, PrepareExecutable, others
  <2>2. ExecutablesMatch' BY <1>0, <1>4 DEF ExecutablesMatch, PrepareExecutable
  <2> QED BY <2>1, <2>2, <1>3, <1>4 DEF Inv, PrepareExecutable
<1>5. ASSUME NEW e \in Exe, LoadStep(e) PROVE Inv'
  <2>1. PICK n \in 0 .. 4 : dspExe[e] = LoadedUpTo(n) BY <1>0 DEF ExecutablesMatch
  <2>2. n \in 0 .. 3 /\ dspExe[e] # Loaded
    BY <1>5, <2>1, LoadedCount DEF LoadStep, Loading
  <2>3. dspExe' = [dspExe EXCEPT ![e] = LoadedUpTo(n + 1)]
    BY <1>5, <2>1, <2>2, LoadedCount DEF LoadStep
  <2>4. n + 1 \in 0 .. 4 /\ LoadedUpTo(n + 1) \subseteq Loaded BY <2>2, LoadedCount
  <2>5. TypeOK' BY <1>0, <1>5, <2>3, <2>4 DEF TypeOK, LoadStep, others
  <2>6. e \notin handles /\ e \in hostExe
    BY <1>0, <1>5, <2>2 DEF ExecutablesMatch, LoadStep, Loading
  <2>7. \A x \in Exe : dspExe'[x] = IF x = e THEN LoadedUpTo(n + 1) ELSE dspExe[x]
    BY <1>0, <2>3 DEF TypeOK
  <2>8. \A x \in Exe : \E m \in 0 .. 4 : dspExe'[x] = LoadedUpTo(m)
    BY <1>0, <2>4, <2>7 DEF ExecutablesMatch
  <2>9. /\ \A x \in Exe \ hostExe : dspExe'[x] \in {{}, Loaded}
        /\ \A x \in handles : dspExe'[x] = Loaded
    BY <1>0, <2>6, <2>7 DEF ExecutablesMatch, TypeOK
  <2>10. ExecutablesMatch' BY <1>5, <2>8, <2>9 DEF ExecutablesMatch, LoadStep
  <2> QED BY <2>5, <2>10, <1>3, <1>5 DEF Inv, LoadStep
<1>6. ASSUME NEW e \in Exe, LoadFails(e) PROVE Inv'
  <2>1. TypeOK' BY <1>0, <1>6 DEF TypeOK, LoadFails, others
  <2>2. e \notin handles BY <1>0, <1>6 DEF ExecutablesMatch, LoadFails, Loading
  <2>3. \A x \in Exe : dspExe'[x] = IF x = e THEN {} ELSE dspExe[x]
    BY <1>0, <1>6 DEF TypeOK, LoadFails
  <2>4. \A x \in Exe : \E m \in 0 .. 4 : dspExe'[x] = LoadedUpTo(m)
    BY <1>0, <2>3, LoadedCount DEF ExecutablesMatch
  <2>5. ExecutablesMatch'
    BY <1>0, <1>6, <2>2, <2>3, <2>4 DEF ExecutablesMatch, LoadFails, TypeOK
  <2> QED BY <2>1, <2>5, <1>3, <1>6 DEF Inv, LoadFails
<1>7. ASSUME NEW e \in Exe, RecordDispatch(e) PROVE Inv'
  <2>1. TypeOK' BY <1>0, <1>7 DEF TypeOK, RecordDispatch, others
  <2>2. ExecutablesMatch'
    BY <1>0, <1>7 DEF ExecutablesMatch, RecordDispatch, Loading
  <2> QED BY <2>1, <2>2, <1>3, <1>7 DEF Inv, RecordDispatch
<1>8. ASSUME NEW e \in Exe, DestroyExecutable(e) PROVE Inv'
  <2>1. TypeOK' BY <1>0, <1>8 DEF TypeOK, DestroyExecutable, others
  <2>2. ExecutablesMatch'
    BY <1>0, <1>8 DEF ExecutablesMatch, DestroyExecutable, Loading
  <2> QED BY <2>1, <2>2, <1>3, <1>8 DEF Inv, DestroyExecutable
<1>9. ASSUME DropHandles PROVE Inv'
  <2>1. TypeOK' BY <1>0, <1>9 DEF TypeOK, DropHandles, others
  <2>2. ExecutablesMatch' BY <1>0, <1>9 DEF ExecutablesMatch, DropHandles
  <2> QED BY <2>1, <2>2, <1>3, <1>9 DEF Inv, DropHandles
<1>10. ASSUME DestroyDevice PROVE Inv'
  <2>1. at = 20 /\ phase = "ready" BY <1>0, <1>10 DEF DestroyDevice, HeldMatches
  <2>2. SessionOpen
    <3>1. limit \in 1 .. HvxLimit
      BY <1>0, <2>1, LimitInRange, SessionAssumption DEF HeldMatches, TypeOK, LimitAt
    <3> QED BY <3>1 DEF SessionOpen
  <2>3. held \cap Strings = {} BY <1>0, <2>1 DEF HeldMatches, StringsAt
  <2>4. held' \subseteq {"notify"}
    BY <1>0, <1>10, <2>2, <2>3 DEF TypeOK, Resources, Owned, DestroyDevice, Destroyed
  <2>5. TypeOK' BY <1>0, <1>10, <2>4 DEF TypeOK, DestroyDevice, exeVars, Resources
  <2>6. HeldMatches' BY <1>10, <2>4 DEF HeldMatches, DestroyDevice
  <2>7. ExecutablesMatch' BY <1>0, <1>10 DEF ExecutablesMatch, DestroyDevice, exeVars
  <2> QED BY <2>5, <2>6, <2>7 DEF Inv
<1>11. CASE UNCHANGED vars
  <2>1. TypeOK' BY <1>0, <1>11 DEF TypeOK, vars, exeVars
  <2>2. ExecutablesMatch' BY <1>0, <1>11 DEF ExecutablesMatch, vars, exeVars
  <2> QED BY <2>1, <2>2, <1>3, <1>11 DEF Inv, vars, others
<1> QED BY <1>1, <1>2, <1>4, <1>5, <1>6, <1>7, <1>8, <1>9, <1>10, <1>11,
           SetUpStepInv, SetUpFailsInv DEF Next, Creating

----------------------------------------------------------------------------
(* Theorems *)

(* The invariant holds in every reachable state. *)
THEOREM InvHolds == Spec => []Inv
BY InitInv, NextInv, PTL DEF Spec

(* Whatever step of the set-up fails, and after an orderly destroy, nothing of the
   session, the pools or the allocator is left; an executable that fails to load leaves
   nothing behind. *)
THEOREM TearDownIsCompleteHolds == Spec => []TearDownIsComplete
<1>1. Inv => TearDownIsComplete
  BY DEF Inv, TypeOK, HeldMatches, ExecutablesMatch, TearDownIsComplete
<1> QED BY <1>1, InvHolds, PTL

(* Every device that is handed out has an open session with a limit and a budget that
   the DSP accepted. *)
THEOREM ReadyMeansConfiguredHolds == Spec => []ReadyMeansConfigured
<1>1. Inv => ReadyMeansConfigured
  <2> SUFFICES ASSUME Inv, phase = "ready"
               PROVE  /\ DspSession \subseteq held
                      /\ limit \in 1 .. HvxLimit
                      /\ options.concurrency # 0 => limit = options.concurrency
                      /\ budget = options.budget * MiB /\ budget > 0
    BY DEF ReadyMeansConfigured
  <2>1. options.concurrency \in Int /\ options.budget \in Int
    BY SessionAssumption DEF Inv, TypeOK
  <2>2. at = 20 /\ DspSession \subseteq held BY DEF Inv, HeldMatches, DspAt
  <2>3. limit = MaxConcurrent(options.concurrency) /\ limit # -1 /\ options.concurrency >= 0
    BY <2>2 DEF Inv, HeldMatches, LimitAt
  <2>4. limit \in 1 .. HvxLimit /\ (options.concurrency # 0 => limit = options.concurrency)
    BY <2>1, <2>3, LimitInRange
  <2>5. budget = ResidencyBudget(options.budget) /\ budget # -1 BY DEF Inv, HeldMatches
  <2>6. options.budget * MiB \in Int BY <2>1, SessionAssumption
  <2>7. budget = options.budget * MiB /\ budget > 0 BY <2>5, <2>6 DEF ResidencyBudget
  <2> QED BY <2>2, <2>4, <2>7
<1> QED BY <1>1, InvHolds, PTL

(* A handle of a recorded dispatch is a function of an executable that the DSP still has
   loaded, whatever the application released. *)
THEOREM HandlesStayLoadedHolds == Spec => []HandlesStayLoaded
<1>1. "functions" \in Loaded BY DEF Loaded, LoadSteps
<1>2. Inv => HandlesStayLoaded
  BY <1>1 DEF Inv, ExecutablesMatch, HandlesStayLoaded
<1> QED BY <1>2, InvHolds, PTL
============================================================================

------------------------------- MODULE MCDsp -------------------------------
(***************************************************************************)
(* Two services of the DSP around the execution of commands: the records   *)
(* of the profiler, three threads racing for two of them, and the cache    *)
(* maintenance of two executions that may overlap on two buffers. They     *)
(* share no state and every property is about one of them, so that their   *)
(* interleavings show nothing: one moves while the other is where it       *)
(* began. Threads, buffers and executions are interchangeable.             *)
(***************************************************************************)
EXTENDS ProfilerRecords, Coherence, TLC

ProfilerMoves ==
  /\ mapped = {} /\ \A e \in Exec : stage[e] = "idle" /\ uses[e] = {}
  /\ \A b \in Buf : line[b] = NoLine /\ latest[b] = 0
  /\ ProfilerNext /\ UNCHANGED coherenceVars
CachesMove ==
  /\ measured = 0 /\ header = none
  /\ CoherenceNext /\ UNCHANGED profilerVars

Init == ProfilerInit /\ CoherenceInit

Spec == Init /\ [][ProfilerMoves \/ CachesMove]_<<profilerVars, coherenceVars>>

Symmetry == Permutations(Thread) \cup Permutations(Buf) \cup Permutations(Exec)
============================================================================

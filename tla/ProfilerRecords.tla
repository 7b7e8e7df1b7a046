-------------------------- MODULE ProfilerRecords --------------------------
(***************************************************************************)
(* The profiler context of one profiled execution (dsp/rt/profiler.c):     *)
(* the master and the worker threads take records out of a fixed array     *)
(* with an atomic index, without a lock, and the host reads the array      *)
(* after the context was closed.                                           *)
(*                                                                         *)
(* A thread's call of profiler_measurement_start is cut at each access to  *)
(* a shared counter. `none` stands for a NULL pointer.                     *)
(***************************************************************************)
EXTENDS Integers, FiniteSets

CONSTANTS
  Thread,           \* threads that measure
  NumRecords,       \* header->num_records, what the host allocated
  MaxMeasurements,  \* bound: calls of profiler_measurement_start
  none

ASSUME ThreadAssumption == IsFiniteSet(Thread) /\ none \notin Thread
ASSUME RecordsAssumption == NumRecords \in Nat /\ MaxMeasurements \in Nat

Records == 0 .. NumRecords - 1

VARIABLES
  next,       \* prof_context->next_record_idx, atomic
  dropped,    \* prof_context->dropped_records, atomic
  owner,      \* owner[i]: thread that was given record i
  completed,  \* records with record_completed set
  pc,         \* pc[t]: where thread t is in profiler_context_get_fresh_record
  header,     \* what profiler_context_deinit told the host, none before
  measured    \* history: calls of profiler_measurement_start

profilerVars == <<next, dropped, owner, completed, pc, header, measured>>

Losers == {t \in Thread : pc[t] = "undo"}
Granted == {i \in Records : owner[i] # none}

ProfilerTypeOK ==
  /\ next \in Nat
  /\ dropped \in Nat
  /\ owner \in [Records -> Thread \cup {none}]
  /\ completed \subseteq Records
  /\ pc \in [Thread -> {"idle", "inc", "undo", "drop"}]
  /\ header \in [started : Nat, dropped : Nat] \cup {none}
  /\ measured \in 0 .. MaxMeasurements

\* profiler_context_init, on records the host zeroed.
ProfilerInit ==
  /\ next = 0
  /\ dropped = 0
  /\ owner = [i \in Records |-> none]
  /\ completed = {}
  /\ pc = [t \in Thread |-> "idle"]
  /\ header = none
  /\ measured = 0

\* The fast pre-check, a plain read of the atomic index.
PreCheck(t) ==
  /\ header = none
  /\ pc[t] = "idle"
  /\ measured < MaxMeasurements
  /\ measured' = measured + 1
  /\ pc' = [pc EXCEPT ![t] = IF next < NumRecords THEN "inc" ELSE "drop"]
  /\ UNCHANGED <<next, dropped, owner, completed, header>>

\* A mistake the runs must catch: the loser of the race does not undo.
IncrementOnly(t) ==
  /\ pc[t] = "inc"
  /\ next' = next + 1
  /\ IF next < NumRecords
     THEN /\ owner' = [owner EXCEPT ![next] = t]
          /\ pc' = [pc EXCEPT ![t] = "idle"]
     ELSE /\ pc' = [pc EXCEPT ![t] = "drop"]
          /\ UNCHANGED owner
  /\ UNCHANGED <<dropped, completed, header, measured>>

\* qurt_atomic_inc_return: the index before the increment is the thread's record,
\* if it is one, and profiler_measurement_start fills it in.
Increment(t) ==
  /\ pc[t] = "inc"
  /\ next' = next + 1
  /\ IF next < NumRecords
     THEN /\ owner' = [owner EXCEPT ![next] = t]
          /\ pc' = [pc EXCEPT ![t] = "idle"]
     ELSE /\ pc' = [pc EXCEPT ![t] = "undo"]
          /\ UNCHANGED owner
  /\ UNCHANGED <<dropped, completed, header, measured>>

\* The race was lost: qurt_atomic_dec.
Undo(t) ==
  /\ pc[t] = "undo"
  /\ next' = next - 1
  /\ pc' = [pc EXCEPT ![t] = "drop"]
  /\ UNCHANGED <<dropped, owner, completed, header, measured>>

\* A mistake the runs must catch: a thread the pre-check turned away undoes, too.
DropUndoes(t) ==
  /\ pc[t] = "drop"
  /\ next' = next - 1
  /\ dropped' = dropped + 1
  /\ pc' = [pc EXCEPT ![t] = "idle"]
  /\ UNCHANGED <<owner, completed, header, measured>>

Drop(t) ==
  /\ pc[t] = "drop"
  /\ dropped' = dropped + 1
  /\ pc' = [pc EXCEPT ![t] = "idle"]
  /\ UNCHANGED <<next, owner, completed, header, measured>>

\* profiler_measurement_finish_and_record on a record of thread t. Zones nest, so a
\* thread may have several open ones.
Finish(t) ==
  /\ header = none
  /\ pc[t] = "idle"
  /\ \E i \in Granted \ completed :
       /\ owner[i] = t
       /\ completed' = completed \cup {i}
  /\ UNCHANGED <<next, dropped, owner, pc, header, measured>>

\* profiler_context_deinit. exec_cmds drained every worker and every zone is closed
\* before execute_profiler gets here.
Deinit ==
  /\ header = none
  /\ \A t \in Thread : pc[t] = "idle"
  /\ Granted \subseteq completed
  /\ header' = [started |-> next, dropped |-> dropped]
  /\ UNCHANGED <<next, dropped, owner, completed, pc, measured>>

ProfilerNext ==
  \/ \E t \in Thread : PreCheck(t) \/ Increment(t) \/ Undo(t) \/ Drop(t) \/ Finish(t)
  \/ Deinit

ProfilerSpec == ProfilerInit /\ [][ProfilerNext]_profilerVars

----------------------------------------------------------------------------
(* Properties *)

(* The comment of the undo: the "decrement will never make the atomic next_idx go below
   num_records". Once the records have run out they stay out, whoever undoes whatever. *)
UndoSafe == [][next >= NumRecords => next' >= NumRecords]_profilerVars

(* A record is given to one thread only: no step hands a record out a second time or
   takes it back, so two zones never write the same record. *)
RecordsStayOwned == [][\A i \in Granted : owner'[i] = owner[i]]_profilerVars

(* What the host is told is what happened: started_records is exactly the prefix of the
   array that holds completed records, never more than were allocated, and together with
   dropped_records it accounts for every measurement. *)
HostView ==
  header # none =>
    /\ header.started <= NumRecords
    /\ Granted = 0 .. header.started - 1
    /\ completed = Granted
    /\ header.started + header.dropped = measured

Pending == {t \in Thread : pc[t] # "idle"}
NumGranted == next - Cardinality(Losers)

(* At every moment of the race the records given out are a prefix of the array, and the
   index is ahead of it by one for each thread that lost and has not undone its increment,
   which can only be while the array is full. Every measurement is granted, dropped or
   still being decided. *)
IndexMatches ==
  /\ NumGranted \in 0 .. NumRecords
  /\ Granted = 0 .. NumGranted - 1
  /\ Losers # {} => NumGranted = NumRecords
  /\ measured = NumGranted + dropped + Cardinality(Pending)

\* The host's view is final: nobody measures once the context is closed.
ClosedIsQuiet ==
  /\ completed \subseteq Granted
  /\ header # none =>
       /\ Pending = {}
       /\ Granted \subseteq completed
       /\ header = [started |-> next, dropped |-> dropped]

ProfilerInv == ProfilerTypeOK /\ IndexMatches /\ ClosedIsQuiet
============================================================================

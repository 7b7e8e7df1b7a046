----------------------------- MODULE Coherence -----------------------------
(***************************************************************************)
(* Cache maintenance around executions (hexa_cmd_buf_exec_buf and the      *)
(* residency cache). Host and DSP share allocations, but not the DSP's     *)
(* data cache, and nothing keeps that cache coherent with memory except    *)
(*   - the invalidation of every buffer of a command buffer before its     *)
(*     first command, where mapped,                                        *)
(*   - the flush of every one of them after its last command, where mapped *)
(*   - the flush when the residency cache unmaps an allocation.            *)
(*                                                                         *)
(* A buffer is a range of whole cache lines of an allocation. Its content  *)
(* is a version number. The data cache is external: the hardware may       *)
(* fetch a line of a mapped buffer or write one back whenever it likes.    *)
(* Mapping, unmapping and the order of commands are those of Residency and *)
(* CmdExec; here an unpinned buffer may be unmapped at any time.           *)
(***************************************************************************)
EXTENDS Naturals

CONSTANTS
  Buf,         \* buffers
  Exec,        \* executions that may overlap in time (host threads)
  MaxVersion,  \* bound: writes to one buffer
  NoLine       \* the data cache has no line of the buffer

ASSUME VersionAssumption == MaxVersion \in Nat
ASSUME LineAssumption == NoLine \notin [version : Nat, dirty : BOOLEAN]

VARIABLES
  memory,   \* memory[b]: version in memory
  line,     \* line[b]: the DSP's cached copy, or NoLine
  mapped,   \* buffers mapped by the residency cache
  pinned,   \* pinned[e]: buffers the commands of e have acquired
  stage,    \* stage[e]: where exec_buf is
  uses,     \* uses[e]: binding table and direct buffers of e
  writes,   \* writes[e]: the ones its commands write
  todo,     \* todo[e]: buffers the current maintenance loop has left
  latest    \* history: the version written last, by whoever

coherenceVars == <<memory, line, mapped, pinned, stage, uses, writes, todo, latest>>
execVars == <<stage, uses, writes, todo>>

Lines == [version : Nat, dirty : BOOLEAN]
Stages == {"idle", "invalidate", "run", "flush"}

CoherenceTypeOK ==
  /\ memory \in [Buf -> Nat]
  /\ line \in [Buf -> Lines \cup {NoLine}]
  /\ mapped \subseteq Buf
  /\ pinned \in [Exec -> SUBSET Buf]
  /\ stage \in [Exec -> Stages]
  /\ uses \in [Exec -> SUBSET Buf]
  /\ writes \in [Exec -> SUBSET Buf]
  /\ todo \in [Exec -> SUBSET Buf]
  /\ latest \in [Buf -> Nat]

CoherenceInit ==
  /\ memory = [b \in Buf |-> 0]
  /\ line = [b \in Buf |-> NoLine]
  /\ mapped = {}
  /\ pinned = [e \in Exec |-> {}]
  /\ stage = [e \in Exec |-> "idle"]
  /\ uses = [e \in Exec |-> {}]
  /\ writes = [e \in Exec |-> {}]
  /\ todo = [e \in Exec |-> {}]
  /\ latest = [b \in Buf |-> 0]

UsedBy(b) == {e \in Exec : b \in uses[e]}
Line(v, dirty) == [version |-> v, dirty |-> dirty]

----------------------------------------------------------------------------
(* The data cache *)

Dirty(b) == line[b] # NoLine /\ line[b].dirty

\* QURT_MEM_CACHE_INVALIDATE: whatever the line holds is dropped.
CacheInvalidate(b) ==
  /\ line' = [line EXCEPT ![b] = NoLine]
  /\ UNCHANGED memory

\* QURT_MEM_CACHE_FLUSH_INVALIDATE
CacheFlushInvalidate(b) ==
  /\ memory' = IF Dirty(b) THEN [memory EXCEPT ![b] = line[b].version] ELSE memory
  /\ line' = [line EXCEPT ![b] = NoLine]

\* The hardware fetches a line of a mapped buffer (a miss, or a prefetch).
Fetch(b) ==
  /\ b \in mapped
  /\ line[b] = NoLine
  /\ line' = [line EXCEPT ![b] = Line(memory[b], FALSE)]
  /\ UNCHANGED <<memory, mapped, pinned, execVars, latest>>

\* The hardware replaces a line.
WriteBack(b) ==
  /\ line[b] # NoLine
  /\ CacheFlushInvalidate(b)
  /\ UNCHANGED <<mapped, pinned, execVars, latest>>

----------------------------------------------------------------------------
(* The host *)

\* The host writes a buffer that no execution under way uses.
HostWrite(b) ==
  /\ UsedBy(b) = {}
  /\ latest[b] < MaxVersion
  /\ latest' = [latest EXCEPT ![b] = @ + 1]
  /\ memory' = [memory EXCEPT ![b] = latest[b] + 1]
  /\ UNCHANGED <<line, mapped, pinned, execVars>>

\* The host starts an execution once the ones it depends on are over (semaphores):
\* none that overlap write what another uses.
Begin(e, U, W) ==
  /\ stage[e] = "idle"
  /\ \A f \in Exec : W \cap uses[f] = {} /\ U \cap writes[f] = {}
  /\ stage' = [stage EXCEPT ![e] = "invalidate"]
  /\ uses' = [uses EXCEPT ![e] = U]
  /\ writes' = [writes EXCEPT ![e] = W]
  /\ todo' = [todo EXCEPT ![e] = U]
  /\ UNCHANGED <<memory, line, mapped, pinned, latest>>

----------------------------------------------------------------------------
(* hexa_cmd_buf_exec_buf *)

\* A mistake the runs must catch: buffers are maintained after the commands only.
InvalidateAfter(b, flush) ==
  IF b \in mapped /\ flush THEN CacheFlushInvalidate(b) ELSE UNCHANGED <<memory, line>>

\* hexagon_dsp_residency_invalidate_if_mapped, for the next buffer of the loop.
InvalidateIfMapped(b, flush) ==
  IF b \notin mapped THEN UNCHANGED <<memory, line>>
  ELSE IF flush THEN CacheFlushInvalidate(b)
  ELSE CacheInvalidate(b)

Invalidate(e) ==
  /\ stage[e] = "invalidate"
  /\ \E b \in todo[e] :
       /\ InvalidateIfMapped(b, FALSE)
       /\ todo' = [todo EXCEPT ![e] = @ \ {b}]
  /\ UNCHANGED <<mapped, pinned, stage, uses, writes, latest>>

BeginCommands(e) ==
  /\ stage[e] = "invalidate"
  /\ todo[e] = {}
  /\ stage' = [stage EXCEPT ![e] = "run"]
  /\ UNCHANGED <<memory, line, mapped, pinned, uses, writes, todo, latest>>

\* exec_cmds: acquire, write and release buffers, in an order that CmdExec decides.
Acquire(e, b) ==
  /\ stage[e] = "run"
  /\ b \in uses[e] \ pinned[e]
  /\ mapped' = mapped \cup {b}
  /\ pinned' = [pinned EXCEPT ![e] = @ \cup {b}]
  /\ UNCHANGED <<memory, line, execVars, latest>>

Write(e, b) ==
  /\ stage[e] = "run"
  /\ b \in pinned[e] \cap writes[e]
  /\ latest[b] < MaxVersion
  /\ latest' = [latest EXCEPT ![b] = @ + 1]
  /\ line' = [line EXCEPT ![b] = Line(latest[b] + 1, TRUE)]
  /\ UNCHANGED <<memory, mapped, pinned, execVars>>

Release(e, b) ==
  /\ b \in pinned[e]
  /\ pinned' = [pinned EXCEPT ![e] = @ \ {b}]
  /\ UNCHANGED <<memory, line, mapped, execVars, latest>>

\* The commands are over, or one failed; nothing is acquired any more.
EndCommands(e) ==
  /\ stage[e] = "run"
  /\ pinned[e] = {}
  /\ stage' = [stage EXCEPT ![e] = "flush"]
  /\ todo' = [todo EXCEPT ![e] = uses[e]]
  /\ UNCHANGED <<memory, line, mapped, pinned, uses, writes, latest>>

Flush(e) ==
  /\ stage[e] = "flush"
  /\ \E b \in todo[e] :
       /\ InvalidateIfMapped(b, TRUE)
       /\ todo' = [todo EXCEPT ![e] = @ \ {b}]
  /\ UNCHANGED <<mapped, pinned, stage, uses, writes, latest>>

End(e) ==
  /\ stage[e] = "flush"
  /\ todo[e] = {}
  /\ stage' = [stage EXCEPT ![e] = "idle"]
  /\ uses' = [uses EXCEPT ![e] = {}]
  /\ writes' = [writes EXCEPT ![e] = {}]
  /\ UNCHANGED <<memory, line, mapped, pinned, todo, latest>>

\* A mistake the runs must catch: nothing is published before the buffer is unmapped.
UnmapWithoutFlush(b) ==
  /\ b \in mapped
  /\ \A e \in Exec : b \notin pinned[e]
  /\ CacheInvalidate(b)
  /\ mapped' = mapped \ {b}
  /\ UNCHANGED <<pinned, execVars, latest>>

\* hexa_residency_unmap_entry, for an eviction or because the host frees the buffer.
Unmap(b) ==
  /\ b \in mapped
  /\ \A e \in Exec : b \notin pinned[e]
  /\ CacheFlushInvalidate(b)
  /\ mapped' = mapped \ {b}
  /\ UNCHANGED <<pinned, execVars, latest>>

CoherenceNext ==
  \/ \E b \in Buf : Fetch(b) \/ WriteBack(b) \/ HostWrite(b) \/ Unmap(b)
  \/ \E e \in Exec :
       \/ \E U \in SUBSET Buf : \E W \in SUBSET U : Begin(e, U, W)
       \/ Invalidate(e) \/ BeginCommands(e) \/ EndCommands(e) \/ Flush(e) \/ End(e)
       \/ \E b \in Buf : Acquire(e, b) \/ Write(e, b) \/ Release(e, b)

CoherenceSpec == CoherenceInit /\ [][CoherenceNext]_coherenceVars

----------------------------------------------------------------------------
(* Properties *)

View(b) == IF line[b] = NoLine THEN memory[b] ELSE line[b].version

(* A command that has acquired a buffer sees what was written to it last, by the host
   before the execution or by an earlier command, even if the buffer was unmapped and
   mapped again in between ("the commands in between ... share the same view of the
   caches"). *)
CommandsSeeLatest == \A e \in Exec : \A b \in pinned[e] : View(b) = latest[b]

(* Once no execution uses a buffer, memory holds what was written to it last, whichever
   of the flushes published it: the host reads results and not leftovers. *)
HostSeesLatest == \A b \in Buf : UsedBy(b) = {} => memory[b] = latest[b]

\* e has dealt with what was in the cache before it began.
Past(e, b) == b \in uses[e] /\ (stage[e] = "invalidate" => b \notin todo[e])

\* A dirty line is the latest version and an execution will still publish it; a line
\* somebody may read is the latest version; without a dirty line memory is.
LinesMatch ==
  \A b \in Buf :
    /\ line[b] # NoLine => b \in mapped
    /\ Dirty(b) =>
         /\ line[b].version = latest[b]
         /\ \E e \in Exec :
              /\ b \in writes[e]
              /\ stage[e] = "run" \/ (stage[e] = "flush" /\ b \in todo[e])
    /\ ~ Dirty(b) => memory[b] = latest[b]
    /\ \A e \in Exec : Past(e, b) => View(b) = latest[b]

\* What the phases say about the sets, and that overlapping executions do not conflict.
StagesMatch ==
  /\ \A e \in Exec :
       /\ writes[e] \subseteq uses[e]
       /\ todo[e] \subseteq uses[e]
       /\ pinned[e] \subseteq uses[e] \cap mapped
       /\ pinned[e] # {} => stage[e] = "run"
       /\ stage[e] = "idle" => uses[e] = {}
       /\ stage[e] = "run" => todo[e] = {}
  /\ \A e, f \in Exec : e # f => writes[e] \cap uses[f] = {}

CoherenceInv == CoherenceTypeOK /\ LinesMatch /\ StagesMatch
============================================================================

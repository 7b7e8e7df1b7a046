----------------------------- MODULE HostMemory -----------------------------
(***************************************************************************)
(* Shared memory between the host and the DSP: mem_alloc.c, buffer.c and   *)
(* allocator.c on the host, the residency cache's mappings on the DSP.     *)
(*                                                                         *)
(* A buffer is one allocation. The operating system gives an allocation a  *)
(* file descriptor and takes it back when the memory is freed, so a later  *)
(* allocation can have the descriptor of an earlier one: whoever keeps a   *)
(* descriptor too long (a recorded command, a mapping on the DSP) works on *)
(* somebody else's memory.                                                 *)
(*                                                                         *)
(* The reference count of a HAL buffer belongs to IREE; the count inside   *)
(* an allocation is one while its buffer exists (allocate_buffer gives its *)
(* own reference back before it returns), so freeing starts when the       *)
(* buffer is destroyed.                                                    *)
(***************************************************************************)
EXTENDS Integers, FiniteSets

CONSTANTS
  Buffer,   \* the buffers of a behaviour, each allocated at most once
  Fd,       \* file descriptors the operating system may hand out
  None

ASSUME HostMemoryAssumption == IsFiniteSet(Buffer) /\ IsFiniteSet(Fd) /\ None \notin Buffer \cup Fd

VARIABLES
  refs,        \* IREE's reference count of each buffer
  stage,       \* "none", "live", then the steps of freeing: "dying", "forgotten", "unmapped", "freed", "leaked"
  fdOf,        \* the descriptor of each buffer's allocation
  dspUsed,     \* buffers whose descriptor was handed to the DSP (alloc->dsp_used)
  registered,  \* descriptors registered by fastrpc_mmap, with the memory behind them
  resident,    \* what the DSP has mapped at each descriptor
  pinned,      \* uses of a descriptor by commands that run on the DSP now
  sessionUp    \* the DSP process has not crashed

memVars == <<refs, stage, fdOf, dspUsed, registered, resident, pinned, sessionUp>>

MemInit ==
  /\ refs = [b \in Buffer |-> 0]
  /\ stage = [b \in Buffer |-> "none"]
  /\ fdOf = [b \in Buffer |-> None]
  /\ dspUsed = {}
  /\ registered = [f \in Fd |-> None]
  /\ resident = [f \in Fd |-> None]
  /\ pinned = [f \in Fd |-> 0]
  /\ sessionUp = TRUE

FreeFds == {f \in Fd : registered[f] = None /\ \A b \in Buffer : stage[b] = "unmapped" => fdOf[b] # f}

\* rpcmem_alloc, rpcmem_to_fd, and fastrpc_mmap without mapping it on the DSP. A
\* step that fails undoes the ones before it, so that nothing of it is left.
MemAllocCreate(b) ==
  /\ sessionUp
  /\ \E f \in FreeFds :
       /\ fdOf' = [fdOf EXCEPT ![b] = f]
       /\ registered' = [registered EXCEPT ![f] = b]

\* The buffer around the allocation: the caller's reference.
BufferWrap(b) ==
  /\ refs' = [refs EXCEPT ![b] = 1]
  /\ stage' = [stage EXCEPT ![b] = "live"]

AllocateBuffer(b) ==
  /\ stage[b] = "none"
  /\ MemAllocCreate(b)
  /\ BufferWrap(b)
  /\ UNCHANGED <<dspUsed, resident, pinned, sessionUp>>

\* A mistake the runs must catch: the descriptor is taken without noting that the
\* DSP has it.
GetFdUnnoted(S) == dspUsed' = dspUsed

\* The serializers take a descriptor for the DSP through this call only.
GetFdForDsp(S) == dspUsed' = dspUsed \cup S

Retain(S) == [b \in Buffer |-> IF b \in S THEN refs[b] + 1 ELSE refs[b]]

\* Drops one reference of every buffer of S; the last one destroys the buffer.
\* The thread that drops it frees the allocation, by the steps below.
Drop(S) ==
  /\ refs' = [b \in Buffer |-> IF b \in S THEN refs[b] - 1 ELSE refs[b]]
  /\ stage' = [b \in Buffer |-> IF b \in S /\ refs[b] = 1 THEN "dying" ELSE stage[b]]

\* deallocate_buffer destroys the buffer whatever its reference count.
Destroy(b) ==
  /\ refs' = [refs EXCEPT ![b] = 0]
  /\ stage' = [stage EXCEPT ![b] = "dying"]

Usable(b) == stage[b] = "live"
Freed(b) == stage[b] \in {"none", "freed", "leaked"}

(*************************** freeing an allocation ***************************)

\* A mistake the runs must catch: the memory is deregistered without telling the DSP.
ForgetNothing(b) ==
  /\ stage[b] = "dying"
  /\ stage' = [stage EXCEPT ![b] = "forgotten"]
  /\ UNCHANGED <<refs, fdOf, dspUsed, registered, resident, pinned, sessionUp>>

\* The RPC hexagon_dsp_buffer_forget, only for what the DSP has seen. An error means
\* that the session is gone and leaves in_use at 0.
Forget(b) ==
  /\ stage[b] = "dying"
  /\ LET f == fdOf[b]
         rpc == b \in dspUsed /\ sessionUp
         inUse == rpc /\ pinned[f] > 0
     IN /\ stage' = [stage EXCEPT ![b] = IF inUse THEN "leaked" ELSE "forgotten"]
        /\ resident' = IF rpc /\ ~inUse THEN [resident EXCEPT ![f] = None] ELSE resident
  /\ UNCHANGED <<refs, fdOf, dspUsed, registered, pinned, sessionUp>>

\* fastrpc_munmap: the descriptor is no longer known to the DSP.
Munmap(b) ==
  /\ stage[b] = "forgotten"
  /\ registered' = [registered EXCEPT ![fdOf[b]] = None]
  /\ stage' = [stage EXCEPT ![b] = "unmapped"]
  /\ UNCHANGED <<refs, fdOf, dspUsed, resident, pinned, sessionUp>>

\* rpcmem_free: the operating system may hand out the descriptor again.
RpcmemFree(b) ==
  /\ stage[b] = "unmapped"
  /\ stage' = [stage EXCEPT ![b] = "freed"]
  /\ fdOf' = [fdOf EXCEPT ![b] = None]
  /\ UNCHANGED <<refs, dspUsed, registered, resident, pinned, sessionUp>>

FreeStep(b) == Forget(b) \/ Munmap(b) \/ RpcmemFree(b)

(******************************* the DSP's side ******************************)

\* A command acquires a descriptor: mapped already, or mapped now (HAP_mmap2) to
\* the memory that is registered under it. Residency.tla has the whole cache.
DspAcquire(f) ==
  /\ registered[f] # None \/ resident[f] # None
  /\ resident' = [resident EXCEPT ![f] = IF @ = None THEN registered[f] ELSE @]
  /\ pinned' = [pinned EXCEPT ![f] = @ + 1]
  /\ UNCHANGED <<refs, stage, fdOf, dspUsed, registered, sessionUp>>

DspRelease(f) ==
  /\ pinned' = [pinned EXCEPT ![f] = @ - 1]
  /\ UNCHANGED <<refs, stage, fdOf, dspUsed, registered, resident, sessionUp>>

\* The cache unmaps an allocation that no command uses to make room for another.
DspEvict(f) ==
  /\ resident[f] # None /\ pinned[f] = 0
  /\ \E g \in Fd \ {f} : pinned[g] > 0
  /\ resident' = [resident EXCEPT ![f] = None]
  /\ UNCHANGED <<refs, stage, fdOf, dspUsed, registered, pinned, sessionUp>>
=============================================================================

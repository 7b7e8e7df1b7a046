# TLA+ models of the Hexagon runtime and compiler plugin

This directory models the plugin that lets IREE compile for, and run programs on, a Qualcomm
Hexagon NPU. The runtime (`src/plugins/runtime/hexagon`) has a part on the ARM host (an IREE
HAL driver) and a part in a process on the DSP; they talk over synchronous FastRPC calls and
share memory that is not cache coherent. The compiler (`src/plugins/compiler/hexagon`) plans
each dispatch, stages its tiles in the tightly coupled memory (VTCM), lowers contractions to
the matrix unit (HMX) and declares the resources that the runtime then reserves.

The models follow a program through the system: planning of a dispatch, its tile loop and its
matrix kernels in the compiler; a device, its memory, its queue and its recorded commands on
the host; scheduling, residency, coherence and profiling on the DSP.

## Inventory

Paths are relative to `src/plugins/runtime/hexagon`.

| Component | State it keeps | Operations | Interacts with |
|---|---|---|---|
| Residency cache (`dsp/residency.c`) | table of mapped allocations with reference counts and LRU stamps, `mapped_bytes`, `in_use_bytes`, `budget`, a mutex | `create`, `destroy`, `set_budget`, `acquire`, `release`, `invalidate_if_mapped`, `forget` | called by every command (pin and unpin), by the host's frees (`forget`) and by session open and close |
| Command buffer execution (`dsp/command_buffer.c`) | task slots, `num_in_flight`, `num_completed` under a mutex and a condition, `vtcm_in_use`, first error | walk the entries; dispatch, barrier, copy, fill; workers report completion | residency cache, VTCM partitions, worker threads, profiler |
| Cache maintenance of an execution (`exec_buf`, `unmap_entry`) | the DSP's data cache | invalidate before the commands, flush after them, flush when unmapping | host memory, evictions caused by other executions |
| DSP profiler records (`dsp/rt/profiler.c`) | atomic index, atomic drop counter, array of records | start, finish, close | master and workers write, the host reads afterwards |
| Direct buffers and command buffer creation (`dsp/command_buffer.c` 40-322) | array of disjoint ranges per allocation | collect, create, destroy | cache maintenance uses the array |
| VTCM partitions (`dsp/rt/vtcm_partition.cpp`) | the global pool, a partition with a front and a back | try_acquire, release, reset, alloc inside a partition | command execution, kernels, the bytes the compiler declared |
| Thread tasks (`dsp/rt/async_runtime.cpp`) | a group of tasks on a shared pool | execute, await_all | thread loops of kernels |
| HMX ukernels (`dsp/ukernel/hmx`) | the matrix unit's accumulator | pack, clear, multiply, read, unpack | called by lowered contractions |
| DSP session (`dsp/device.c`) and executables (`dsp/executable.c`) | per-session private state, power vote, loaded libraries | open, close, setters, load, lookup | host device |
| Host device and queue (`device.c`), semaphores (`semaphore.c`) | session handle, options, block pool, timeline values | set-up, tear-down, alloca, dealloca, execute, wait, signal | IREE runtime above, FastRPC below |
| Host allocations and buffers (`mem_alloc.c`, `buffer.c`, `allocator.c`) | reference count, fd, `dsp_used` | allocate, retain, release, map | `forget` on the DSP |
| Host command buffers and serialization (`command_buffer.c`, `serialize/`) | recorded bytes, retained buffers | begin, record, end, serialize bindings | DSP command buffer creation |
| Host executables (`executable.c`) | file of the library, handle | prepare, lookup, destroy | DSP executables |
| Dispatch planning (`CodeGen/Strategy/Planning` of the compiler) | dimension classes, strategy, tiles | analyze, select, plan VTCM, reconcile, verify, encode | the passes read the encoded tiles |
| VTCM tile loops (`CodeGen/Transforms`) | the loop and its allocations | stage, coalesce, pipeline, privatize, form threads, annotate | DMA engine, thread pool, VTCM partition |
| HMX lowering (`CodeGen/Transforms`, `CodeGen/IR`) | the contraction and its buffers | specialize, convert, tile and fuse, expand, verify, call | HMX ukernels |

What is hard here:

- the master and the workers share task slots and one completion counter; completions come
  in any order, and three different resources (slots, residency, VTCM) make the master wait
  for them, each with its own rule for giving up;
- a refused acquire means "wait and retry" or "give up", and the difference is decided from
  a counter that six places maintain;
- mappings are evicted between two commands of one execution, while another execution of the
  same session runs, and the host may free an allocation at any time;
- nobody but explicit maintenance keeps the data cache coherent, and both maintenance loops
  skip what is not mapped at that moment;
- errors arrive late: a dispatch may fail after the walk that started it has returned;
- the profiler's index is incremented before it is known to be in range;
- a file descriptor names an allocation in recorded commands and in the DSP's mappings, and
  the operating system reuses it as soon as the allocation is freed;
- queue operations run on their caller's thread and signal only on success;
- one packed stream is written on one processor and read three times on another;
- compiler passes agree with each other, and with the runtime, on numbers that are computed
  twice: tile sizes, bytes of VTCM, alignments, extents of boundary tiles;
- a double-buffered loop is right only because of the order in which the DMA engine works.

What makes each component correct:

- *Residency*: both byte counters are what their comments say; reference counts are exactly
  the outstanding acquires; what is held is never unmapped; the budget is never exceeded;
  evictions follow LRU order; to its callers the cache is just "pins against a budget".
- *Execution*: counters agree with the slots; partitions are disjoint; a buffer is pinned
  exactly as long as work uses it, on every error path; nothing crosses a barrier; waiting
  ends; success is reported exactly if everything ran and nothing failed.
- *Cache maintenance*: a command reads what was written last; so does the host afterwards.
- *Profiler*: a record has one owner, none is lost, the host is told the truth.
- *Host memory and queue*: what the DSP has mapped is what is registered under that fd; a
  command works on live buffers it was recorded with; whoever was waited for has done its
  work; everything is freed in the end.
- *Session*: a failing set-up gives back what it took; a device that is handed out works.
- *Recording*: the DSP executes what was recorded, byte for byte, and maintains exactly the
  ranges that are referenced.
- *Planning*: loops are one dimension exactly if values connect them; the verifier accepts
  what is selected; what is staged fits.
- *Tile loops*: pipelining, coalescing and threading do not change the result; declared
  resources suffice; a dispatch ends.
- *HMX*: the product is right for all tile shapes; kernels get aligned addresses in VTCM.

`PROJECT.json` lists the hazards behind these properties, each at the line where it bites.

## Modules

| Module | Role |
|---|---|
| `WeightedSum` | sum of weights over a finite set, written so that it can be proved about |
| `PinBudget` | abstract specification: pins against a budget |
| `Residency` | the residency cache, `MCResidency` adds a history of the acquire order |
| `CmdStream` | abstract specification: what executing a command buffer means |
| `CmdExec` | the scheduler of one execution; `MCCmdExec` supplies command buffers |
| `ProfilerRecords` | the profiler context; `MCDsp` |
| `Coherence` | data cache, memory and the maintenance of overlapping executions; `MCDsp`, which runs it beside `ProfilerRecords` (they share nothing) |
| `HostMemory` | allocations, descriptors, and the DSP's mappings of them |
| `HostQueue` | queue operations of host threads, semaphores and command buffers, on top of `HostMemory`; `MCHostQueue` |
| `Session` | a device from its path to its destruction, with executables; `MCSession` |
| `Recording` | commands from the recorder's checks to the DSP's execution; `MCRecording` |
| `Planning` | the planning of one dispatch; `MCPlanning` |
| `VtcmPartition` | the compiler's and the runtime's account of a VTCM partition |
| `TileLoop` | a tile loop through the passes and at run time, on top of `VtcmPartition`; `MCTileLoop` |
| `HmxKernels` | the matrix ukernels as functions on buffers |
| `HmxLowering` | a contraction through the passes and at run time, on top of `HmxKernels`; `MCHmxLowering` |
| `WeightedSumProofs`, `ResidencyProofs`, `CmdExecProofs`, `HostQueueProofs`, `RecordingProofs`, `PlanningProofs`, `TileLoopProofs` | theorems, one module for each component |
| `DspProofs` | theorems about `ProfilerRecords`, `Coherence` and `Session` |

Operators with the comment "A mistake the runs must catch" are not part of any
specification: each is a plausible bug used to see that a property notices it.

### Residency

The variables are the fields of `hexagon_dsp_residency_s` and of its entries. `held` is the
callers' side (what each execution still has to release). Every entry point holds the mutex
from start to end, so the short ones are one action. `acquire` and `destroy` loop over
evictions and are cut into iterations (`EvictForRoom`, `RoomFound`, `GrowTable`, `Map`, ...);
`call` is the call that holds the mutex, and no other action is enabled meanwhile. The host
sets the budget once per session, as `device.c` does. `HAP_mmap2` and `realloc` are external
and may fail unless `reliable`. A failing `HAP_munmap2` is only logged by the code and
leaves no trace in the model.

### CmdExec

One action is one stretch of master code between two points where a worker can change what
it sees. `pc` names the stretch; `wait_one` is a subroutine that returns to `back`. A command
is a record with its kind, buffer references (as allocations), declared VTCM and whether it
uses HMX. Residency is used by its contract `PinBudget`: `AcquireCodes` is the set of codes
an acquire may return, with or without failures of the platform. The execution modelled is
the only one under way: the VTCM pool belongs to one thread (`dsp/rt/vtcm_partition.h`), and
the code treats "nothing in flight and still no room" as final. If another holder of residency
or VTCM existed at that moment, the same two paths (ENOMEMORY and `abort`) would be taken
although waiting could help, so `GivesUpOnlyOversized` is a statement
about one execution at a time. `BadRef` stands for every reference
that does not resolve, and for an incomplete entry or an unknown function, which take the
same path. VTCM is counted in granules; the pool (hexagon-mlir's `VtcmPool`) is external and
may choose any free block. `abort()` is a terminal state. Workgroups, constants and the
profiling zones inside a dispatch are left out.

### ProfilerRecords

`profiler_context_get_fresh_record` is cut at each access to an atomic: `PreCheck` reads the
index, `Increment` takes one, `Undo` gives it back when it was out of range, `Drop` counts.
Time stamps and counter values are left out. The context is closed after the last worker
finished (`exec_cmds` drains), so `Deinit` requires quiet threads.

### Coherence

Buffers are whole cache lines and their content is a version number. The cache may fetch any
line of a mapped buffer, and may write one back, at any time: that is more than the hardware
does, and includes prefetching. Invalidate and flush loops take one buffer per step. Commands
acquire, write and release in any order; an unpinned buffer may be unmapped at any time.
`Begin` assumes that the host orders conflicting executions with semaphores, which IREE
requires of its users. The error return of `qurt_mem_cache_clean` is not modelled.

### HostMemory and HostQueue

A buffer is one allocation with a stage of life; freeing goes through `Forget`, `Munmap` and
`RpcmemFree`, one step each, as `mem_alloc_release` does. `resident` and `pinned` are the DSP's
side: which allocation is mapped under a descriptor and how many commands use it. A
descriptor is free again once its memory is freed, and may be handed out again at once.

There is no queue in `device.c`: an operation waits, works and signals on its caller's thread.
A caller is a program, a sequence of operations from the application's point of view; when an
operation fails the caller starts no other and releases what it has. `DspCrash` ends the
session, after which RPC calls fail and mappings are gone. IREE's reference counts and
resource sets are external and used as the code uses them. A command buffer created with
`IREE_HAL_COMMAND_BUFFER_MODE_UNRETAINED` gets no resource set
(`iree_hal_hexagon_command_buffer_create`): what it records goes to `lent` instead of `held`,
descriptors without references, and inserting into no set is taken to keep nothing.

`Programs` may hold any sequences of operations. Nothing in `device.c` protects a buffer from a
caller that releases one reference too many or deallocates what a command buffer still uses;
IREE asks that of the application. `CallersKeepBuffers` is that contract, written as a
condition on the state before each operation: release only references of one's own, deallocate
only what nobody else holds, record and bind only live buffers, keep what an unretained command
buffer recorded until its executions have returned, release a command buffer once and not under an
execution.

### Session

`SetUp` is the list of steps of `iree_hal_hexagon_device_set_up`, `OpenStep` and `OpenUndone`
are the DSP's side of opening, each step may fail, and `held` is what has been acquired and
not given back. `Possible` and `Skipped` say which steps can succeed for the options chosen.
Executables are loaded in the steps of `hexagon_dsp_executable_set_up`, several at a time in any
interleaving, since the code takes no lock for a load. Three things are as
the code has them and look like omissions: a failing set-up may leak strings, the status
notification stays registered, and the host never calls `hexagon_dsp_executable_close`. The last
is what keeps recorded function handles valid although a dispatch does not retain its
executable (`HandlesStayLoaded`): whoever adds the missing close has to add the retain.

### Recording

The recorder refuses or accepts calls of a palette; an accepted command is serialized into
items with the sizes of the packed structures of `arm_dsp/cmd_buf.h`. Ending the recording walks
the list twice, one entry per step: to sum the sizes (`AddSize`), and to copy the entries behind a
header that counts them (`CopyEntry`). The DSP walks the stream three times: to count direct
references, to merge them (`add_direct_buf`, one reference and one comparison per step; `seen` is
the reference it has come to), and to execute in order, with references resolved against a
binding table. `BuffersAssumption`, `PaletteAssumption` and `TablesAssumption` say that buffers lie in
their allocations and calls have the fields of their kind. Memory is bytes. Dispatches only
leave a trace of what the kernel was called with. The z component of a workgroup count is
narrowed to 16 bits without a check; `ExecutesAsRecorded` therefore speaks of counts that fit.

### Planning

One action is one stage of `configureDispatch`, and the analysis is cut as finely as
`DimensionGraph` works: `at` is the operation, the operand and the dimension it has come to, `known`
the loop that was first seen to index a dimension of a value, `classes` the partition of loops that
its union-find represents. `NumberLoops` adds the loops of an operation, `ReadDimension` relates one
dimension of one operand, `DefineResult` records the result. `DispatchesAssumption` says that
dispatches are in SSA form and topological order and that operands name loops that exist.
An operation has one result, tied to its first destination; operations with several results are
not modelled. One without indexing maps and without a destination (`propagateIdentityOp`,
`DispatchAnalysis.cpp:192-195`) is to the analysis as one with a destination of its own that nothing
else reads, as in the instance. For operations without maps the code relates
loops by rank alone, through a `tensor.empty` as well (`propagateIdentityOp` has no
such exclusion, `propagateIndexingOp` has); `AnalysisIsConnectivity` is stated accordingly.
The tile search of hexagon-mlir (`determineTileSizes`)
is external: any tile whose footprint fits may come back. When one value is both operands of
the root, the root's loops collapse into one dimension and the first of its tiles wins; the
model does the same.

### VtcmPartition and TileLoop

A loop is a record with bounds, the items of its body (stage, compute, store), the
allocations of its function and the facts the passes ask about. `Compile` applies the passes
in the order of `addHexagonMultiTilingExpertPassPipeline`; their result is a sequence of
instructions that `Dispatch` runs while `DmaMove` and `RunTask` interleave. A row stands for a
row of a tile. The DMA engine works through its descriptors in the order they were issued
and moves a row at a time; it and the thread pool are external. Tiles of different iterations
are disjoint in DDR, because they come from an `scf.forall`. A loop runs at least once and
its function asks for each allocation at most once; alignments are at most `MaxAlignment`, a
bound that only keeps `PowerOf2Ceil` finite. Whether a loop may be pipelined is decided as
`HexagonCoalesceVTCMLoops` decides it, by the uses of the tensors the loop carries (`args`): none starts
as a staged value, and each is only sliced and inserted into. `getDMAShape` also refuses an element type
that differs between the two sides and a tile that has no elements. Sizes are natural numbers: the wrap-around that
`hexagon_rt_vtcm_partition_alloc` tests for is out of reach of a VTCM of a few MiB. Bands of
several loops, nested pipelined loops, and the alignment of the second slot of a double-
buffered buffer are not modelled.

Three observations. The compiler rounds an alignment up to a power of two when it counts, but
passes on the alignment as it was: one that is not a power of two aborts the dispatch if it is
above 128, and is silently replaced by 128 if it is below (`vtcm_partition.cpp:129-137`), so a
buffer asked to be 96-byte aligned need not be. And a request for no bytes gets NULL.
The check for carried tensors would also pass an initial value that is computed
in VTCM by something other than a staging operation; `HexagonVTCMTiling` makes no such loop, and no
instance has one. `DeclaredResourcesSuffice` speaks of alignments that are powers of two and of buffers
that are not empty; the instance has loops of both other kinds.

### HmxKernels and HmxLowering

Buffers are functions from element indices to integers and the tile edge is a parameter. The
shuffle ladder of the transposed fast path is generalised to that edge (distances 1; T/4
down to 2; 1) and evaluated once at the real edge of 32 when the run starts. Alignments scale
with the edge (2T, 4T, 2T^2 bytes; 64, 128 and 2048 for 32). f16 rounding is left out: the
question is which elements meet, not how they round. `HmxLowering` takes a contraction through
the passes, with the operation the tile loop is built around as part of the input (the
shipped pipeline anchors at the unpack; the tiling hooks also allow the matmul and the
consumer), then runs the calls.

A destination with a dynamic extent has a grid sized by its static bound, so there may be grid
tiles that the extent does not reach. Unpacked with the whole grid they are skipped by the kernel
(`PaddingTiles` of the `hmx` run). Unpacked tile by tile they are written outside of the
destination; `hmx_bounds` shows this, see Findings. Memory around the destination is modelled, and
`written` collects the elements that an unpack reads and writes back, so that such an access is seen
even where it puts back what was there; `HmxComputesMatmul` requires `written` to be exactly
the destination.

One observation. `providesHmxAlignment` accepts a declared alignment of 0
(`IR/HmxContracts.cpp:303`), which the expansion pass excludes; the instance has only non-zero
alignments.

## Runs

| Run | Instance | Shows |
|---|---|---|
| `residency` | 2 executions, 5 allocations of sizes 2, 1, 2, 4, 0, budget 3, table of 1 entry, 4 successful acquires | `Accounting`, `RefsAreHeld`, `WithinBudget`, LRU order, no call keeps the mutex, refinement of `PinBudget` |
| `execution` | all command buffers of up to 3 commands over 7 kinds, all of 4 dispatches, and every pair followed by a faulty command; 2 slots, budget for 2 of 3 allocations, 3 granules of VTCM | counters, partitions, pins, barriers, no premature ENOMEMORY or abort, termination, refinement of `CmdStream` |
| `execution_stops` | two dispatches, the second of which asks for the whole of the VTCM | a violation, see Findings |
| `records_and_caches` | profiler: 3 threads, 2 records, 6 measurements; caches: 2 buffers, 2 overlapping executions, 3 writes per buffer | the race for the last record, the report to the host; both views of memory |
| `host_queue` | 2 threads, 3 buffers, 3 descriptors, 2 command buffers, one of which does not retain its buffers in the pipeline, 2 semaphores; a pipeline, concurrent executions, chained empty executions | callers keep what they use (`CallersKeepBuffers`), no stale descriptor, live buffers, work before signals, nothing leaked, only failures make anybody wait forever |
| `session` | 5 paths, 6 limits and 3 budgets as options, 5 lengths of the binary's path, 2 executables | complete tear-down, a configured device, valid handles, creation ends |
| `recording` | up to 3 of 22 calls, 3 buffers on 2 allocations, 3 binding tables | stream sizes, execution as recorded, merged ranges |
| `recording_fills` | fills of a whole binding | a violation, see Findings |
| `planning` | dispatches around a matmul, batches, convolutions, copies, generic operations; all 8 option sets | connectivity, agreement of the stages, staged tiles fit |
| `tile_loop` | 2 workgroups, 2 workers, loops of 1 to 3 trips, ragged bounds, in/out buffers, scratch, threads | same result, declared resources suffice, dispatches end |
| `hmx` | tile edge 8, extents below, at and above one tile, 5 base addresses, carriers around loops of 0 to 2 iterations | the product, alignment, provenance |
| `hmx_bounds` | as `hmx`, one contraction with a tile column beyond its dynamic extent, unpacked tile by tile | a violation, see Findings |

Why the bounds are enough: the budget of the residency run fits any one of the first three
allocations, or two of them, but never all; the fourth exceeds it alone and the fifth has
size 0, so every return code of `acquire` occurs, evictions have a choice and the table grows
twice. In the execution run two slots, the budget and the pool are each exhausted by two
commands, so every wait is entered with one and with two dispatches in flight, and with
completions in both orders; four dispatches allow a slot to be reused after an out-of-order
completion. Three threads and two records give two simultaneous losers of the race. Two
overlapping executions and two buffers give every combination of shared reads, separate
writes, evictions and remaps that the maintenance loops can meet.

In the host run three buffers need only two descriptors at a time, so `b3` gets the one `b1`
had while the DSP may still map it, and each failure can come before, within and after the
other thread's wait. The limits of the session run lie below, at and above what contexts and
workers allow, and the paths fit at once, at a buffer's exact size, or never. The recording
palette has ranges that touch, overlap and contain each other, so that one range absorbs two,
and 16-bit counts are scaled down to 2 bits so that the limit is crossed. Two trips are what a
double-buffered loop needs to reuse no slot and three to reuse one; workgroups run twice so
that what the first leaves behind meets the second. An edge of 8 is the smallest at which
every stage of the transpose ladder exists; the extents give full and ragged
tiles in each dimension, and padding tiles where the whole grid is unpacked at once.

Deadlock is checked in `tile_loop`, which stutters once a dispatch is over. The others say
CHECK_DEADLOCK FALSE because the system really stops: a session is destroyed, an execution
returns, a profiler context is closed, a caller waits for an operation that failed, and
bounded histories run out. That nothing gets stuck before is `CallsReturn`, `Terminates`,
`CallersFinish`, `CreationEnds` and `DispatchEnds`.

### Fairness

- Residency: weak fairness of the steps of a call in progress. The code between lock and
  unlock never waits for another thread.
- CmdExec: weak fairness of the master (the RPC thread runs on) and of each worker.
  `hexagon_dsp_set_max_concurrent_dispatches` refuses a limit above the number of worker
  threads, so every submitted task has a thread to run on; that kernels end is assumed.
- HostQueue: weak fairness of each host thread. A thread blocked on a semaphore has no step;
  FastRPC calls return, with an error if the DSP process crashed.
- Session: weak fairness of the creating thread, which waits for nobody.
- TileLoop: weak fairness of the compiler, of the dispatch thread, of the DMA engine, and of
  each worker for a task it has taken. Nothing forces a worker to take one: `DispatchEnds`
  holds because `await_all` runs queued tasks itself.

## Findings

`execution_stops`: `hexa_cmd_buf_walk_cmds` says that it "Stops once a dispatch has failed"
and "skip[s] the rest of the command buffer once a dispatch has failed". The status is
checked before an entry only. While `exec_dispatch` waits for a slot, for residency or for
VTCM it may record the failure of an earlier dispatch, and it then launches its own dispatch
all the same (`dsp/command_buffer.c:910`). The counterexample is two dispatches: the second asks for
the whole of the VTCM and waits for the partition of the first, the first fails, `wait_one` records
that, and the second is launched. Fills and copies likewise run after a drain of their own that
may have recorded a failure (`dsp/command_buffer.c:948-990`, `1011-1033`); the instance has none, so
that the trace is the one told here. The result of the execution is still an error
(`StreamImplemented`), so this is a divergence from the comments and not a wrong result.

`hmx_bounds`: for a grid tile that the dynamic extent does not reach, `getClippedHmxTileSize`
yields a negative size. It reaches the unpack kernel as a huge unsigned number, so that
the kernel takes the tile for a full one and reads and writes back elements beyond the
destination. The comment on the function says that the "boundary slice must remain in bounds"
(`CodeGen/IR/HexagonTilingInterfaceImpl.cpp:32-33`), the one on the kernel that "Only the valid region of
each boundary tile is written" and "padding tiles are skipped" (`dsp/ukernel/hmx/hmx.c:326-327`); the latter
is so when the kernel gets the whole grid and the extents, but not when tiles are unpacked one by
one. The counterexample is a contraction with one tile column beyond the columns it has.

`recording_fills`: `resolve_and_map` says that for indirect references "a whole-buffer length
(IREE_HAL_WHOLE_BUFFER) means the rest of the binding table entry" and computes that length
into the resolved buffer. `hexa_cmd_buf_exec_fill` counts to the length of the reference
instead (`dsp/command_buffer.c:1027`), which is UINT64_MAX, so the fill does not stop at the end
of the binding. Copies and dispatches use the resolved length (`ExecutesAsRecorded`).

## Proofs

TLAPS proves the following for every value of the constants that satisfies the named
assumptions, which every run evaluates for its instance. They say that sets of allocations,
buffers, threads and descriptors are finite and sizes natural numbers, and which shape the
inputs have: a copy has two operands and a fill one (`OperandsAssumption`), options are
integers (`SessionAssumption`), callers' programs are sequences of operations
(`ProgramsAssumption`), loops have their fields and ask for each allocation once
(`LoopsAssumption`), references lie in their buffers and calls have the fields of their kind
(the assumptions of `Recording`), dispatches are in SSA form (`DispatchesAssumption`).

- `WeightedSumProofs`: how a sum changes when a member is added, removed or reweighed, that it
  is monotonic, and that disjoint subsets of a set have no more members than the set
  (`SumDisjoint`).
- `ResidencyProofs`: `Inv` is inductive. The counters alone are not: that `Map` keeps the
  budget needs the room that `EvictForRoom` made several steps before, and that it does not
  count an allocation twice needs that the fd is still not mapped; `CallConsistent` says
  both. `Accounting`, `RefsAreHeld` and `WithinBudget` follow, and from them that every step
  of the cache is a step of `PinBudget` or a stutter (`ImplementsPins`). The key lemma is
  `PinnedIsInUse`: the entries with a positive count are exactly what somebody holds, hence
  `in_use_bytes > 0` decides correctly between "wait" and "give up".
- `DspProofs`, profiler: `IndexMatches` with `ClosedIsQuiet` is inductive. The index may exceed
  the array by the number of threads that have yet to undo, and only while the array is full;
  this is why an undo never takes back a record somebody owns (`UndoSafe`).
- `DspProofs`, coherence: `CoherenceInv` is inductive. `LinesMatch` says that a dirty line is the latest
  version and belongs to an execution that has yet to flush it, and that memory is the latest
  version otherwise; `StagesMatch` says what the stages guarantee about the sets and that
  overlapping executions do not conflict. Both views of memory follow.
- `DspProofs`, session: the set-up is a table. Before step n the device holds exactly the strings
  `StringsAt(n)` and the DSP state `DspAt(n)`, at most (`HeldMatches`); each step leads from a
  row to the next, and a failure or the destruction empties the row. Of an executable the DSP
  has a prefix of the load steps, all of them once a handle exists (`ExecutablesMatch`).
  `TearDownIsComplete`, `ReadyMeansConfigured` and `HandlesStayLoaded` follow for any options,
  paths, executables and failures.
- `CmdExecProofs`: `Inv` is inductive for any command buffer, budget, pool and concurrency
  limit. `Control` ties each label of the master to the command it is for, `SlotMatches` says
  that the slot being filled is nobody else's, `TasksMatch` that tasks in flight are different
  dispatches started since the last barrier, `FailuresMatch` where a failure is known before
  the status tells it. With these, `CompletionsMatch`, `PartitionsSound`, `PinnedByWork` and
  `GivesUpOnlyOversized` are preserved together: giving up is right because with nothing in
  flight nothing is pinned but the command's own operands, and no VTCM is in use.
  `NoBarrierCrossed` follows, and every step is a step of `CmdStream` or a stutter
  (`StreamImplementedHolds`, for the safety part).
- `HostQueueProofs`: an assume/guarantee argument. For any programs of any threads, with
  descriptors reused as soon as they are free and the DSP crashing at any time, if the callers
  keep what they use (`[]CallersKeepBuffers`, which the `host_queue` run shows of its programs)
  then `Inv` holds: a descriptor's registration is the allocation that has it (`Registration`),
  what the DSP maps is registered, known to the host as used by the DSP and not yet forgotten
  (`Mapping`), counts cover the holders (`References`), what a command buffer recorded are descriptors of buffers
  it holds or was lent, as long as these are live (`RecordingOf`), and what an execution goes through are
  descriptors of buffers it was given (`Executions`). `MapsRegisteredMemory` and
  `CommandsUseLiveBuffers` follow. The order forget, unmap, free is what `Mapping` needs.
  `WaitedForWorkIsDone` has its own invariant (`QueueInv`: a timeline stands at the value of the
  last operation that signalled it, and whoever is past its wait found it so). It needs of the
  programs that whoever moves a semaphore to or past a value that somebody waits for signals that
  value too, has waited for it or a later one, or signalled it with an earlier operation, and
  that nobody waits for the initial value (`InOrder`); and that no operation fails with only a part of its semaphores signalled (`AllOrNothing`): `iree_hal_semaphore_list_signal`
  goes through its list and stops at the first error, and a waiter on the part already signalled
  runs although its predecessor reported failure. Where every operation signals at most one
  semaphore there is no such part and the second condition is not needed (`SingleSignalsHold`).
  `NothingLeftBehind` takes exact counts where `Inv` has bounds. `Returned` says that the count of a
  live buffer is the number of its holders, plus one as long as its caller is still to give it
  back (`Owned`), that a command buffer holds something only while its release is still to come or
  under way (`Retained`), and that a buffer on its way out is in the hands of a thread that
  frees it, and none is leaked (`BeingFreed`). When every caller is through nothing of this is
  left, and by `Inv` neither is a registration or a mapping. It is preserved beside `Inv` by every
  step, failures and crashes of the DSP included (`NextReturned`). Of the callers it asks that
  they keep what they use, that they release or deallocate later what they allocate and release
  the command buffers they record (`Balanced`, a fact about the program text), and that a caller
  that failed has no buffer left to `queue_dealloca` (`DeallocatesAll`): the code frees nothing for an
  operation that is never called. The programs of `host_queue` satisfy all three; `Returned` and
  `DeallocatesAll` were checked as invariants of that run before the proof.
- `RecordingProofs`: the stream is a concatenation, and a theorem about all of them must not rest
  on induction over data. It does not have to, because the model builds the stream one entry per
  step: `Inv` says that there are a position, a rest and a number of direct references for every
  prefix of the list (`Layout`), as functions that the recording steps extend, and that each walk
  stands where the layout says (`Progress`). `StreamIsComplete` follows. For merging, the ranges
  so far with the one under way cover what was read, no two of the finished ones touch, and those
  before `merge.idx` are apart from it (`Collects`), whence `DirectRangesExact`. `ExecInv` then relates
  memory and calls to the prefix that was executed: `ExecutesAsRecorded` holds for any calls and
  binding tables if no fill names the whole rest of a binding (`SizedFills`), the one case in which
  `exec_fill` is wrong (see Findings).
- `PlanningProofs`: three results, for every dispatch, every preferred tile and any budget.
  `AnalysisIsConnectivity`: at each point of the analysis every class is connected (no part of it
  can be split off without separating two loops that index the same dimension of a value) and
  every use of a value read so far is in one class with the loop that `known` has for it
  (`KnownDescribes`, `DoneUnited`). Both hold between any two dimensions of any two operands, so the
  order of reading does not matter. `VerifierAgrees`: `IsStrategy` is what all seven candidates
  share, `FactorDivides` that a tile chosen for a bound divides it, and so that what
  `Reconcile` makes of a tile passes `FitsRoot`; the default pipeline, the only one that neither
  refines nor vectorizes, gets tiles in parallel loops of the root alone. Hence
  `verifyDispatchPlan` never rejects a plan that was selected and reconciled: its errors are internal
  errors. `StagedTilesFit`: what is assumed of the search is only that it stays within the
  budget it is given.
- `TileLoopProofs`: `AllocGrants` compares the two accounts of an allocation. What
  `PartitionAllocBytes` counts is at least what either end of the partition gives up, padding
  included, because the front moves in multiples of 2 KiB from a base that is one and the back
  in multiples of 128 bytes; and a request that is within what is left of the sum is granted.
  `Inv` carries that through the passes and the run: doubling, privatizing and hoisting keep
  the allocations well-formed and slices multiples of the alignment (`LoopOK`), what both ends
  have handed out is at most the sum counted for the allocations so far (`Counted`), regions
  belong to one end (`Regions`), and queued, running and ended tasks add up to those spawned by
  the compute that waits (`Tasks`). `DeclaredResourcesSuffice` follows for any sizes,
  alignments, bases and numbers of workers and workgroups.

Only model-checked:

- liveness (`CallsReturn`, `Terminates`, `CallersFinish`, `CreationEnds`, `DispatchEnds`), which is
  out of the prover's reach;
- LRU order (`EvictsLeastRecent`), which is stated over a history that only `MCResidency` keeps;
- `CallersKeepBuffers`: it is the contract that the theorems on the host's memory assume of the
  callers, and the run shows it of its programs. A caller that breaks it does so through no
  fault of the queue;
- `LoopKeepsItsResult` and the three invariants of `HmxLowering`: what recursive functions compute for
  every input needs induction over data (`SequentialResult`; the sums and the shuffle ladder behind
  `HmxComputesMatmul`; `Gcd` and the sum of a view's offsets behind `KernelsReadAligned`; `Trace`
  against `Origin`, both walks over a graph of values, behind `OperandsAreInVtcm`).

## Not modelled, and the plan

Order in which the modules were written: `Residency`, `CmdExec`, `ProfilerRecords`, `Coherence`;
then `HostMemory` and `HostQueue`, `Session`, `Recording`; then the compiler's `Planning`, `TileLoop` and
`HmxLowering`.

What was worth proving is proved for every component whose properties do not rest on induction
over data: the cache, the scheduler and its refinement, the profiler, coherence, the session,
the host's memory under its queue to its last release, the order its semaphores give, the recorded stream, the
planning of dispatches, and the resources of tile loops. Left on that side: an abstract
specification of the host's memory that `HostQueue` is shown to implement.

What is worth modelling still: a band of coalesced loops and nested pipelined loops, the
capacity of the record array against the zones of an execution (an execution that runs out of
records drops measurements, which `HostView` shows to be reported), two executions that share one
VTCM pool.

Left out for good: formatting of traces (`profiler.c`), driver registration and option parsing,
unimplemented HAL stubs (`channel.c`, file access), one-to-one conversion of operations to LLVM,
vector lowering patterns, linking and the file format of executables, `memref_copy`, third-party
code, build tools and integration tests. They keep no state over which steps could interleave.

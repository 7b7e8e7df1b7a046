------------------------------ MODULE TileLoop ------------------------------
(***************************************************************************)
(* A dispatch that works through its tensors tile by tile: how the         *)
(* compiler turns the tile loop into a double-buffered one, and how that   *)
(* loop then runs.  Tiles move between DDR and VTCM on the DMA engine      *)
(* while the dispatch thread, and the thread pool for it, compute.         *)
(*                                                                         *)
(* The loop is a record: its bounds, the items of its body in program      *)
(* order ("stage" a slice into a VTCM buffer, "compute", "store" a buffer  *)
(* back), the allocations of the function, and the facts the passes ask    *)
(* about.  A row stands for a row of a tile; a tile has at most step rows, *)
(* the last one fewer when the bounds are ragged.                          *)
(***************************************************************************)
EXTENDS VtcmPartition, WeightedSum, Sequences, SequencesExt

CONSTANTS
    Loops,      \* the tile loops to compile and run
    Bases,      \* where the pool may place the partition
    PoolBytes,  \* the size of the VTCM pool
    Workgroups, \* how many workgroups the dispatch runs
    Workers     \* threads of the pool that may help

ASSUME TileLoopAssumption ==
    /\ Bases # {} /\ \A base \in Bases : base \in Nat /\ base % LargeAlignment = 0
    /\ PoolBytes \in Nat
    /\ Workgroups \in Nat \ {0}
    /\ IsFiniteSet(Workers) /\ "dispatch" \notin Workers

(***************************************************************************)
(* A loop runs at least once, and the function asks for each of its        *)
(* allocations at most once, in this order (one in a loop is refused).     *)
(***************************************************************************)
LoopFields ==
    {"lb", "ub", "step", "static", "args", "iterArgs", "inThreads", "outer",
     "outerTileLoops", "doubleBuffer", "configs", "empty", "items", "after",
     "threadRank", "threadsStatic", "slice", "order", "allocs"}

ASSUME LoopsAssumption ==
    \A l \in Loops :
        /\ DOMAIN l = LoopFields
        /\ l.lb \in Nat /\ l.ub \in Nat /\ l.lb < l.ub /\ l.step \in Nat \ {0}
        /\ IsFiniteSet(DOMAIN l.allocs)
        /\ l.allocs \in [DOMAIN l.allocs -> Allocations]
        /\ \A b \in DOMAIN l.allocs : l.allocs[b].slice = 0
        /\ l.order \in Seq(DOMAIN l.allocs)
        /\ \A j, k \in DOMAIN l.order : l.order[j] = l.order[k] => j = k

VARIABLES
    phase,      \* how far the dispatch is: a pass, "run", "done", ...
    loop,       \* the loop, as the passes leave it
    compiled,   \* what the passes decided
    part,       \* the VTCM partition
    placed,     \* the regions handed out from it
    pc,         \* next instruction of the dispatch thread
    group,      \* workgroups finished
    mem,        \* contents of DDR and VTCM, by row
    dma,        \* descriptors the DMA engine has not finished
    tag,        \* DMA tags: the last token of each transfer and slot
    issued,     \* tokens handed out
    spawned,    \* chunks of the current thread loop handed to the pool
    ended,      \* chunks of it that have finished
    pool,       \* queued chunks
    running     \* what each thread works on

compileVars == <<loop, compiled>>
partVars == <<part, placed>>
dmaVars == <<dma, tag, issued>>
taskVars == <<spawned, ended, pool, running>>
vars == <<phase, loop, compiled, part, placed, pc, group, mem, dma, tag,
          issued, spawned, ended, pool, running>>

-----------------------------------------------------------------------------
(***************************************************************************)
(* The loop as the passes see it.                                          *)
(***************************************************************************)
DivideCeil(a, b) == (a + b - 1) \div b
Trips(l) == DivideCeil(l.ub - l.lb, l.step)
Iv(l, n) == l.lb + (n - 1) * l.step
LastIv(l) == Iv(l, Trips(l))
RowsAt(l, iv) == IF iv = l.ub THEN l.step ELSE Min({l.step, l.ub - iv})

(***************************************************************************)
(* HexagonVTCMTiling and HexagonLowerVTCMStaging: a slice of a tensor that *)
(* is empty gets a VTCM buffer and no copy, any other slice a copy in.     *)
(***************************************************************************)
IsEmptyBacked(l, item) == item.buf \in l.empty
Lowered(l) ==
    [l EXCEPT !.items =
        LET kept == SelectSeq(l.items, LAMBDA i :
                        i.op = "stage" => ~IsEmptyBacked(l, i))
        IN  [k \in DOMAIN kept |->
                IF kept[k].op = "stage" THEN [kept[k] EXCEPT !.op = "load"]
                                        ELSE kept[k]]]

IsTransfer(item) == item.op \in {"load", "store"}
Uses(item, b) ==
    IF item.op = "compute" THEN b \in item.reads \cup {item.writes}
                           ELSE item.buf = b
Transfers(l, op) ==
    SelectSeq(l.items, LAMBDA i : i.op = op /\ ~i.nested)
Staged(l) ==
    {i.buf : i \in ToSet(Transfers(l, "load") \o Transfers(l, "store"))}

(***************************************************************************)
(* HexagonCoalesceVTCMLoops: a loop that carries VTCM data from one tile   *)
(* to the next is not marked.  The pass looks at the tensors the loop      *)
(* carries: none starts as a staged value, and each is only sliced and     *)
(* inserted into, in the body or in the loops nested there that are handed *)
(* it.                                                                     *)
(***************************************************************************)
CarriesOnlyDDRResult(arg) == arg.uses \subseteq {"slice", "insertInto"}
CarriesOnlyDDRResults(l) ==
    \A arg \in l.args : ~arg.staged /\ CarriesOnlyDDRResult(arg)
Marked(l) ==
    /\ Transfers(l, "load") # <<>>
    /\ CarriesOnlyDDRResults(l)

-----------------------------------------------------------------------------
(***************************************************************************)
(* HexagonPipelineVTCMTransfers: whether the transfers of the loop can     *)
(* all become DMA descriptors, issued ahead.                               *)
(***************************************************************************)
kMax1DTransferBytes == 16777215
kMax2DFieldValue == 65535
kNumBuffers == 2

(***************************************************************************)
(* getDMAShape: rows of a static width, dense in VTCM, at a fixed stride   *)
(* in DDR, within the fields of a descriptor.  "none" when the copy is not *)
(* one descriptor.  A stride of 0 is one that is not static; `cast` says   *)
(* that the elements differ in type.                                       *)
(***************************************************************************)
GetDMAShape(l, view) ==
    LET bytes == view.bits \div 8
    IN  IF \/ view.rank \notin 1..2 \/ view.cast \/ view.bits % 8 # 0
           \/ view.width * l.step = 0
           \/ view.vtcmStride # view.width \/ view.ddrStride < view.width
        THEN "none"
        ELSE IF view.ddrStride = view.width
        THEN IF view.width * l.step * bytes > kMax1DTransferBytes
             THEN "none" ELSE "1D"
        ELSE IF \/ view.width * bytes > kMax2DFieldValue
                \/ l.step > kMax2DFieldValue
                \/ view.ddrStride * bytes > kMax2DFieldValue
             THEN "none" ELSE "2D"

\* A mistake the runs must catch: only the load is looked for, so a use after
\* the store of a buffer is allowed.
IsLoadedPerIteration(l, b) ==
    \A k, j \in DOMAIN l.items :
        Uses(l.items[k], b) /\ l.items[j].op = "load" /\ l.items[j].buf = b
            => j <= k

IsStagedPerIteration(l, b) ==
    /\ b \notin l.after
    /\ \A k, j \in DOMAIN l.items :
           Uses(l.items[k], b) /\ IsTransfer(l.items[j]) /\ Uses(l.items[j], b)
               => IF l.items[j].op = "load" THEN j <= k ELSE k <= j

AnalyzeTileLoop(l) ==
    /\ \A i \in ToSet(l.items) : IsTransfer(i) =>
           /\ ~i.nested
           /\ ~l.allocs[i.buf].inLoop /\ ~l.allocs[i.buf].dynamic
           /\ GetDMAShape(l, i.view) # "none"
           /\ i.view.recomputable
    /\ \A j, k \in DOMAIN l.items :
           /\ IsTransfer(l.items[j]) /\ l.items[k].op = l.items[j].op
           /\ l.items[j].buf = l.items[k].buf
           => j = k
    /\ \A b \in Staged(l) : IsStagedPerIteration(l, b)

Pipelines(l) ==
    /\ l.doubleBuffer /\ Marked(l)
    /\ l.outer => l.outerTileLoops
    /\ l.static /\ ~l.iterArgs /\ ~l.inThreads
    /\ Trips(l) >= 2
    /\ AnalyzeTileLoop(l) /\ Staged(l) # {}

-----------------------------------------------------------------------------
(***************************************************************************)
(* The code the loop becomes: instructions in the order the dispatch       *)
(* thread reaches them, each for the iteration iv.                         *)
(***************************************************************************)
Instr(op, item, iv) == [op |-> op, item |-> item, iv |-> iv]
Each(items, op, iv) == [k \in DOMAIN items |-> Instr(op, items[k], iv)]
\* Buffers still read behind the loop are copied out there.
Afterwards(l) ==
    LET bufs == SetToSeq(l.after)
    IN  [k \in DOMAIN bufs |->
            Instr("copy", [op |-> "store", buf |-> bufs[k]], l.ub)]

SequentialBody(l, iv) ==
    [k \in DOMAIN l.items |->
        Instr(IF IsTransfer(l.items[k]) THEN "copy" ELSE "compute",
              l.items[k], iv)]
Sequential(l) ==
    FlattenSeq([n \in 1..Trips(l) |-> SequentialBody(l, Iv(l, n))])
        \o Afterwards(l)

(***************************************************************************)
(* pipelineTileLoop.  Head: prefetch the next tile, then wait for this     *)
(* one.  Stores are issued where the copy was and waited for one iteration *)
(* later, those of the last iteration behind the loop.                     *)
(***************************************************************************)
Prologue(l) == Each(Transfers(l, "load"), "start", l.lb)

Prefetch(l, iv) ==
    IF iv + l.step < l.ub THEN Each(Transfers(l, "load"), "start", iv + l.step)
                          ELSE <<>>

LoopHead(l, iv) == Prefetch(l, iv) \o Each(Transfers(l, "load"), "wait", iv)

PipelinedBody(l, iv) ==
    LET rest == SelectSeq(l.items, LAMBDA i : i.op # "load")
    IN  [k \in DOMAIN rest |->
            Instr(IF rest[k].op = "store" THEN "start" ELSE "compute",
                  rest[k], iv)]

StoreWaits(l, iv) ==
    IF iv > l.lb THEN Each(Transfers(l, "store"), "wait", iv - l.step)
                 ELSE <<>>

Epilogue(l) == Each(Transfers(l, "store"), "wait", LastIv(l))

Pipelined(l) ==
    Prologue(l)
        \o FlattenSeq([n \in 1..Trips(l) |->
               LET iv == Iv(l, n)
               IN  LoopHead(l, iv) \o PipelinedBody(l, iv) \o StoreWaits(l, iv)])
        \o Epilogue(l) \o Afterwards(l)

(***************************************************************************)
(* The slot of an iteration, and of a buffer in it: only the staged        *)
(* buffers of a pipelined loop have two.                                   *)
(***************************************************************************)
CreateSlot(l, iv) == ((iv - l.lb) \div l.step) % kNumBuffers

SlotOf(l, two, b, iv) ==
    IF two /\ b \in Staged(l) /\ iv # l.ub THEN CreateSlot(l, iv) ELSE 0

-----------------------------------------------------------------------------
(***************************************************************************)
(* What the instructions do to memory.  A computed row is the term of what *)
(* it was computed from.                                                   *)
(***************************************************************************)
Junk == <<>>
Memory(l) ==
    [ddr |-> [b \in DOMAIN l.allocs |->
                 [iv \in {Iv(l, n) : n \in 1..Trips(l)} \cup {l.ub} |->
                     [r \in 1..l.step |-> <<b, iv, r>>]]],
     vtcm |-> [b \in DOMAIN l.allocs |->
                 [s \in 0..(kNumBuffers - 1) |->
                     [r \in 1..l.step |-> Junk]]],
     scratch |-> [offset \in {r * l.slice : r \in 0..(l.step - 1)} |-> Junk]]

Term(l, two, m, item, iv, r) ==
    <<item.id, [b \in item.reads |-> m.vtcm[b][SlotOf(l, two, b, iv)][r]]>>

Write(l, two, m, b, iv, r, value) ==
    [m EXCEPT !.vtcm[b][SlotOf(l, two, b, iv)][r] = value]

CopyRow(l, two, m, item, iv, r) ==
    IF item.op = "load"
    THEN Write(l, two, m, item.buf, iv, r, m.ddr[item.buf][iv][r])
    ELSE [m EXCEPT !.ddr[item.buf][iv][r] =
              m.vtcm[item.buf][SlotOf(l, two, item.buf, iv)][r]]

AllRows(l, iv, m, Row(_, _)) == FoldLeft(Row, m, [r \in 1..RowsAt(l, iv) |-> r])

CopyTile(l, two, m, item, iv) ==
    LET Row(acc, r) == CopyRow(l, two, acc, item, iv, r)
    IN  AllRows(l, iv, m, Row)

ComputeTile(l, two, m, item, iv) ==
    LET Row(acc, r) ==
            Write(l, two, acc, item.writes, iv, r, Term(l, two, m, item, iv, r))
    IN  AllRows(l, iv, m, Row)

(***************************************************************************)
(* The reference: the loop as written, one instruction after the other.    *)
(***************************************************************************)
SequentialResult(l) ==
    LET Run(m, instr) ==
            IF instr.op = "copy" THEN CopyTile(l, FALSE, m, instr.item, instr.iv)
                                 ELSE ComputeTile(l, FALSE, m, instr.item, instr.iv)
    IN  FoldLeft(Run, Memory(l), Sequential(l)).ddr

-----------------------------------------------------------------------------
(***************************************************************************)
(* Compilation, pass by pass.  Failed passes end it.                       *)
(***************************************************************************)
NoPart == Acquired(0, 0)
Nothing == [row |-> 0, at |-> "idle"]
Threads == Workers \cup {"dispatch"}

Init ==
    /\ loop \in Loops
    /\ phase = "tile"
    /\ compiled = [pipelined |-> FALSE, code |-> <<>>, vtcm |-> 0, threads |-> 1,
                   bounded |-> TRUE]
    /\ part = NoPart /\ placed = <<>>
    /\ pc = 1 /\ group = 0 /\ mem = [ddr |-> <<>>]
    /\ dma = <<>> /\ tag = <<>> /\ issued = 0
    /\ spawned = 0 /\ ended = 0 /\ pool = <<>>
    /\ running = [t \in Threads |-> Nothing]

runVars == <<partVars, pc, group, mem, dmaVars, taskVars>>

(***************************************************************************)
(* HexagonVTCMTiling: at most one operation carries VTCM tile sizes.  Then *)
(* the staging markers are placed and lowered.                             *)
(***************************************************************************)
Tile ==
    /\ phase = "tile"
    /\ phase' = IF loop.configs > 1 THEN "failed" ELSE "pipeline"
    /\ loop' = Lowered(loop)
    /\ UNCHANGED <<compiled, runVars>>

(***************************************************************************)
(* The tile loop is marked or not, and pipelined or not.  Double buffering *)
(* doubles the staged buffers.                                             *)
(***************************************************************************)
DoubleBuffered(l) ==
    [l EXCEPT !.allocs = [b \in DOMAIN l.allocs |->
        IF b \in Staged(l)
        THEN [l.allocs[b] EXCEPT !.bytes = kNumBuffers * l.allocs[b].bytes]
        ELSE l.allocs[b]]]

PipelineTransfers ==
    /\ phase = "pipeline"
    /\ phase' = "privatize"
    /\ compiled' = [compiled EXCEPT !.pipelined = Pipelines(loop),
                       !.code = IF Pipelines(loop) THEN Pipelined(loop)
                                                   ELSE Sequential(loop)]
    /\ loop' = IF Pipelines(loop) THEN DoubleBuffered(loop) ELSE loop
    /\ UNCHANGED runVars

(***************************************************************************)
(* HexagonPrivatizeThreadAllocations, then the hoisting that moves static  *)
(* allocations out of every loop.                                          *)
(***************************************************************************)
Chunks(l) == l.step

\* Without scratch a chunk keeps its row to itself.
PrivatizedAllocations(l) ==
    LET inBody == {b \in DOMAIN l.allocs : l.allocs[b].inThreads}
    IN  [l EXCEPT !.allocs = [b \in DOMAIN l.allocs |->
                      IF b \in inBody THEN Privatized(l.allocs[b], Chunks(l))
                                      ELSE l.allocs[b]],
                  !.slice = IF inBody = {} THEN 1
                            ELSE Max({PaddedSlice(l.allocs[b]) : b \in inBody})]

Hoisted(l) ==
    [l EXCEPT !.allocs = [b \in DOMAIN l.allocs |->
        [l.allocs[b] EXCEPT !.inLoop = @ /\ l.allocs[b].dynamic]]]

PrivatizeThreadAllocations ==
    /\ phase = "privatize"
    /\ LET inBody == {b \in DOMAIN loop.allocs : loop.allocs[b].inThreads}
       IN  phase' = IF /\ inBody # {}
                       /\ \/ ~loop.threadsStatic \/ loop.threadRank # 1
                          \/ \E b \in inBody : ~Privatizable(loop.allocs[b])
                    THEN "failed" ELSE "threads"
    /\ loop' = Hoisted(PrivatizedAllocations(loop))
    /\ UNCHANGED <<compiled, runVars>>

(***************************************************************************)
(* HexagonFormAsyncThreads, and what the dispatch then declares: the       *)
(* largest group of tasks in the code the passes have left, and the sum of *)
(* what the allocations may take.  A size that is not known declares all   *)
(* of VTCM, a group size that is not known any number of threads; an       *)
(* allocation left in a loop is an error.                                  *)
(***************************************************************************)
Threaded(code) ==
    \E k \in DOMAIN code : code[k].op = "compute" /\ code[k].item.threads
FormAsyncThreads ==
    /\ phase = "threads"
    /\ phase' = IF Threaded(compiled.code) /\ loop.threadRank # 1
                THEN "failed" ELSE "annotate"
    /\ UNCHANGED <<compileVars, runVars>>

DeclaredVtcm(l) ==
    SumOver([b \in DOMAIN l.allocs |->
                 PartitionAllocBytes(l.allocs[b].bytes, l.allocs[b].align)],
            DOMAIN l.allocs)

DeclaredThreads(l, code) == IF Threaded(code) THEN Max({1, Chunks(l)}) ELSE 1

AnnotateResources ==
    /\ phase = "annotate"
    /\ LET unbounded == \E b \in DOMAIN loop.allocs : loop.allocs[b].dynamic
       IN  compiled' = [compiled EXCEPT
               !.vtcm = IF unbounded THEN AlignDown(PoolBytes, LargeAlignment)
                                     ELSE DeclaredVtcm(loop),
               !.bounded = ~unbounded,
               !.threads = IF Threaded(compiled.code) /\ ~loop.threadsStatic
                           THEN Max({Chunks(loop), Cardinality(Threads)})
                           ELSE DeclaredThreads(loop, compiled.code)]
    /\ phase' = IF \E b \in DOMAIN loop.allocs : loop.allocs[b].inLoop
                THEN "failed" ELSE "launch"
    /\ UNCHANGED <<loop, runVars>>

-----------------------------------------------------------------------------
(***************************************************************************)
(* The dispatch runs: the partition it declared, reset for each workgroup, *)
(* the allocations of the function entry, then the code.  A declaration    *)
(* larger than the pool aborts.                                            *)
(***************************************************************************)
Launch ==
    /\ phase = "launch"
    /\ \E base \in Bases : part' = Acquired(base, compiled.vtcm)
    /\ phase' = IF part'.size <= PoolBytes THEN "workgroup" ELSE "aborted"
    /\ UNCHANGED <<compileVars, placed, pc, group, mem, dmaVars, taskVars>>

StartWorkgroup ==
    /\ phase = "workgroup"
    /\ part' = Reset(part) /\ placed' = <<>>
    /\ mem' = Memory(loop) /\ pc' = 1
    /\ tag' = <<>> /\ issued' = 0
    /\ phase' = "allocate"
    /\ UNCHANGED <<compileVars, group, dma, taskVars>>

Allocate ==
    /\ phase = "allocate"
    /\ Len(placed) < Len(loop.order)
    /\ LET b == loop.order[Len(placed) + 1]
           a == loop.allocs[b]
           got == PartitionAlloc(part, a.bytes, a.align)
       IN  /\ part' = IF got.code = "placed" THEN got.part ELSE part
           /\ placed' = IF got.code = "placed"
                        THEN Append(placed, [buf |-> b, begin |-> got.begin,
                                             end |-> got.begin + a.bytes])
                        ELSE placed
           /\ phase' = IF got.code = "placed" THEN phase ELSE got.code
    /\ UNCHANGED <<compileVars, pc, group, mem, dmaVars, taskVars>>

Allocated ==
    /\ phase = "allocate"
    /\ Len(placed) = Len(loop.order)
    /\ phase' = "run"
    /\ UNCHANGED <<compileVars, runVars>>

At(op) ==
    /\ phase = "run"
    /\ pc \in DOMAIN compiled.code
    /\ compiled.code[pc].op = op
Now == compiled.code[pc]
Returns == pc \notin DOMAIN compiled.code
two == compiled.pipelined

(***************************************************************************)
(* The DMA engine.  A descriptor that is too long for one dimension is     *)
(* rejected, one too wide for two is copied row by row on the spot, others *)
(* queue.  The engine takes descriptors in the order they were issued and  *)
(* packs rows in VTCM.                                                     *)
(***************************************************************************)
DmaAccepts(view, rows) ==
    IF view.ddrStride = view.width
    THEN IF view.width * rows * (view.bits \div 8) > kMax1DTransferBytes
         THEN "reject" ELSE "queue"
    ELSE IF \/ view.width * (view.bits \div 8) > kMax2DFieldValue
            \/ view.ddrStride * (view.bits \div 8) > kMax2DFieldValue
         THEN "copy" ELSE "queue"

DmaRow(m, instr, r) ==
    IF instr.item.view.vtcmStride = instr.item.view.width \/ r = 1
    THEN CopyRow(loop, two, m, instr.item, instr.iv, r)
    ELSE m

DmaStart ==
    /\ At("start")
    /\ LET accepts == DmaAccepts(Now.item.view, RowsAt(loop, Now.iv))
           key == <<Now.item.buf, Now.item.op, CreateSlot(loop, Now.iv)>>
       IN  /\ dma' = IF accepts = "queue"
                     THEN Append(dma, [instr |-> Now, token |-> issued + 1,
                                       row |-> 1])
                     ELSE dma
           /\ mem' = IF accepts = "copy"
                     THEN CopyTile(loop, two, mem, Now.item, Now.iv) ELSE mem
           /\ tag' = [k \in DOMAIN tag \cup {key} |->
                         IF k = key THEN issued + 1 ELSE tag[k]]
    /\ issued' = issued + 1
    /\ pc' = pc + 1
    /\ UNCHANGED <<phase, compileVars, partVars, group, taskVars>>

DmaMove ==
    /\ dma # <<>>
    /\ LET d == Head(dma) IN
           /\ mem' = DmaRow(mem, d.instr, d.row)
           /\ dma' = IF d.row = RowsAt(loop, d.instr.iv) THEN Tail(dma)
                     ELSE [dma EXCEPT ![1].row = @ + 1]
    /\ UNCHANGED <<phase, compileVars, partVars, pc, group, tag, issued,
                   taskVars>>

DmaWait ==
    /\ At("wait")
    /\ LET key == <<Now.item.buf, Now.item.op, CreateSlot(loop, Now.iv)>>
       IN  key \in DOMAIN tag =>
               \A k \in DOMAIN dma : dma[k].token # tag[key]
    /\ pc' = pc + 1
    /\ UNCHANGED <<phase, compileVars, partVars, group, mem, dmaVars, taskVars>>

Copy ==
    /\ At("copy")
    /\ mem' = CopyTile(loop, two, mem, Now.item, Now.iv)
    /\ pc' = pc + 1
    /\ UNCHANGED <<phase, compileVars, partVars, group, dmaVars, taskVars>>

ComputeAlone ==
    /\ At("compute") /\ ~Now.item.threads
    /\ mem' = ComputeTile(loop, two, mem, Now.item, Now.iv)
    /\ pc' = pc + 1
    /\ UNCHANGED <<phase, compileVars, partVars, group, dmaVars, taskVars>>

-----------------------------------------------------------------------------
(***************************************************************************)
(* A compute split over threads: a task per chunk, one row each, handed to *)
(* the pool; then the dispatch thread waits for the group, running queued  *)
(* tasks itself meanwhile.  A task leaves its row in its scratch slice     *)
(* before it writes the row of the result.                                 *)
(***************************************************************************)
Execute ==
    /\ At("compute") /\ Now.item.threads
    /\ spawned < Chunks(loop)
    /\ spawned' = spawned + 1
    /\ pool' = Append(pool, spawned + 1)
    /\ UNCHANGED <<phase, compileVars, partVars, pc, group, mem, dmaVars,
                   ended, running>>

TakeTask(t) ==
    /\ running[t] = Nothing
    /\ pool # <<>>
    /\ running' = [running EXCEPT ![t] = [row |-> Head(pool), at |-> "gather"]]
    /\ pool' = Tail(pool)
    /\ UNCHANGED <<phase, compileVars, partVars, pc, group, mem, dmaVars,
                   spawned, ended>>

RunTask(t) ==
    /\ running[t] # Nothing
    /\ LET r == running[t].row
           offset == (r - 1) * loop.slice
           inTile == r <= RowsAt(loop, Now.iv)
       IN  IF running[t].at = "gather"
           THEN /\ mem' = IF inTile
                          THEN [mem EXCEPT !.scratch[offset] =
                                   Term(loop, two, mem, Now.item, Now.iv, r)]
                          ELSE mem
                /\ running' = [running EXCEPT ![t].at = "write"]
                /\ UNCHANGED ended
           ELSE /\ mem' = IF inTile
                          THEN Write(loop, two, mem, Now.item.writes, Now.iv, r,
                                     mem.scratch[offset])
                          ELSE mem
                /\ running' = [running EXCEPT ![t] = Nothing]
                /\ ended' = ended + 1
    /\ UNCHANGED <<phase, compileVars, partVars, pc, group, dmaVars, spawned,
                   pool>>

AwaitEnds ==
    /\ At("compute") /\ Now.item.threads
    /\ ended = Chunks(loop)
    /\ pc' = pc + 1 /\ spawned' = 0 /\ ended' = 0
    /\ UNCHANGED <<phase, compileVars, partVars, group, mem, dmaVars, pool,
                   running>>

\* A mistake the runs must catch: the dispatch thread only sleeps until the
\* pool has run its tasks.
AwaitAsleep == AwaitEnds

AwaitAll ==
    \/ spawned = Chunks(loop) /\ At("compute") /\ TakeTask("dispatch")
    \/ RunTask("dispatch")
    \/ AwaitEnds

EndWorkgroup ==
    /\ phase = "run" /\ Returns
    /\ group' = group + 1
    /\ phase' = IF group + 1 < Workgroups THEN "workgroup" ELSE "done"
    /\ UNCHANGED <<compileVars, partVars, pc, mem, dmaVars, taskVars>>

Compile ==
    \/ Tile \/ PipelineTransfers \/ PrivatizeThreadAllocations
    \/ FormAsyncThreads \/ AnnotateResources

Dispatch ==
    \/ Launch \/ StartWorkgroup \/ Allocate \/ Allocated
    \/ DmaStart \/ DmaWait \/ Copy \/ ComputeAlone \/ Execute \/ AwaitAll
    \/ EndWorkgroup

Worker(w) == TakeTask(w) \/ RunTask(w)

Ended == phase \in {"done", "failed", "overflow", "aborted"} /\ UNCHANGED vars

Next == Compile \/ Dispatch \/ DmaMove \/ (\E w \in Workers : Worker(w)) \/ Ended

(***************************************************************************)
(* The compiler, the dispatch thread and the DMA engine keep going, and so *)
(* does a worker that has a task.  A worker need not take one: the pool is *)
(* shared with other dispatches.                                           *)
(***************************************************************************)
Spec ==
    /\ Init /\ [][Next]_vars
    /\ WF_vars(Compile) /\ WF_vars(Dispatch) /\ WF_vars(DmaMove)
    /\ \A w \in Workers : WF_vars(RunTask(w))

-----------------------------------------------------------------------------
(***************************************************************************)
(* However the DMA engine and the pool are scheduled, the tile loop leaves *)
(* in DDR what the loop as written would, and it has left it there when    *)
(* the workgroup returns (HexagonPipelineVTCMTransfers.cpp,                *)
(* HexagonCoalesceVTCMLoops.cpp, HexagonPrivatizeThreadAllocations.cpp).   *)
(***************************************************************************)
LoopKeepsItsResult ==
    phase = "run" /\ Returns =>
        /\ mem.ddr = SequentialResult(loop)
        /\ dma = <<>>

(***************************************************************************)
(* What HexagonAnnotateDispatchResources declares is enough: a dispatch    *)
(* with known sizes never runs out of its partition (partition_overflow),  *)
(* its buffers lie apart in it, each at its alignment and each slice of a  *)
(* thread at it too, and no more tasks are in flight than declared.  Only  *)
(* powers of two are alignments: a partition refuses others, or, below     *)
(* MinAllocation, gives MinAllocation instead.                             *)
(***************************************************************************)
DeclaredResourcesSuffice ==
    /\ compiled.bounded => phase # "overflow"
    /\ \A j, k \in DOMAIN placed : j < k =>
           placed[j].end <= placed[k].begin \/ placed[k].end <= placed[j].begin
    /\ \A k \in DOMAIN placed :
           LET a == loop.allocs[placed[k].buf]
               slices == IF a.slice = 0 THEN {0} ELSE {0, a.slice}
           IN  a.align \in PowersOf2 /\ a.bytes > 0 => \A offset \in slices :
                   (part.base + placed[k].begin + offset) % a.align = 0
    /\ Len(pool) + Cardinality({t \in Threads : running[t] # Nothing})
           <= compiled.threads

(***************************************************************************)
(* A launched dispatch ends, even if no thread of the pool ever helps it   *)
(* (hexagon_runtime_thread_await_all runs queued tasks) and whatever it    *)
(* waits for from the DMA engine.                                          *)
(***************************************************************************)
DispatchEnds == phase = "launch" ~> phase \in {"done", "overflow", "aborted"}
=============================================================================

------------------------------ MODULE HmxLowering ------------------------------
(***************************************************************************)
(* A contraction on its way to the matrix unit: specialization to a named  *)
(* matmul, conversion to pack, matmul and unpack of tile grids, tiling and *)
(* fusion per output tile, expansion into accumulator operations, the      *)
(* check of the kernels' preconditions, and the run of the resulting       *)
(* kernel calls.  Addresses are bytes, strides and buffers are elements.   *)
(***************************************************************************)
EXTENDS HmxKernels, Sequences

CONSTANTS
    Programs,   \* the contractions to compile and run
    Bases,      \* byte addresses an allocation may get
    Trips       \* iterations of the surrounding loops that may have passed

VARIABLES
    prog,       \* the contraction, its operands and its buffers
    phase,      \* the pass or the kernel call that is next
    at,         \* byte addresses of the staged sources, grids, destination
    origin,     \* the marker or buffer each operand's data really comes from
    packed,     \* the packed grids of lhs and rhs
    acc,        \* the accumulator of the matrix unit
    readout,    \* tiles read from the accumulator
    dest,       \* the memory around the destination
    written,    \* the elements that were unpacked to, by row and column
    cur         \* the output tile and the K tile in work, the bias programmed

vars == <<prog, phase, at, origin, packed, acc, readout, dest,
          written, cur>>
data == <<at, origin, packed, acc, readout, dest, written, cur>>

Size == prog.size
M == 1
N == 2
K == 3

TileCount(elements) == (elements + HmxTile - 1) \div HmxTile
HalfVectorAlignment == 2 * HmxTile
HvxAlignment == 4 * HmxTile
HmxAlignment == 2 * TileElements

---------------------------------------------------------------------------
(* Conversion                                                               *)

\* An f16 contraction with one M, N and K and an M x N result.
HasHmxElementTypes(p) == p.types = "hmx"
IsLowerable(p) ==
    /\ p.form \in {"matmul", "batch_matmul"}
    /\ HasHmxElementTypes(p)
    /\ ~p.outTransposed

\* A mistake the runs must catch: what a loop yields is not looked at.
TraceInitOnly(node) == <<node.args[1]>>

\* The values a loop-carried value may be: the initial one and the yielded.
TraceForCarried(node) == <<node.args[1], node.args[2]>>

\* The values a value gets its buffer from: views, destination-style results
\* and foralls pass one on, when they are tied to one.
Carriers(node) ==
    IF node.op = "for" THEN TraceForCarried(node) ELSE node.args

NothingSeen == [staged |-> FALSE, empty |-> FALSE, unknown |-> FALSE]

Merge(s, t) == [staged |-> s.staged \/ t.staged,
                empty |-> s.empty \/ t.empty,
                unknown |-> s.unknown \/ t.unknown]

\* Every way back from a value; a value that is being traced adds nothing.
RECURSIVE Trace(_, _, _)
Trace(graph, v, active) ==
    LET node == graph[v]
        from == Carriers(node)
        seen(i) == Trace(graph, from[i], active \cup {v})
    IN CASE v \in active -> NothingSeen
         [] v \notin active /\ node.op = "stage" ->
                [NothingSeen EXCEPT !.staged = TRUE]
         [] v \notin active /\ node.op = "empty" ->
                [NothingSeen EXCEPT !.empty = TRUE]
         [] v \notin active /\ node.op \in {"view", "dps", "for", "forall"}
                            /\ Len(from) = 1 -> seen(1)
         [] v \notin active /\ node.op = "for" /\ Len(from) = 2 ->
                Merge(seen(1), seen(2))
         [] OTHER -> [NothingSeen EXCEPT !.unknown = TRUE]

HasProvenance(p, v, marker) ==
    LET s == Trace(p.graph, v, {})
    IN /\ ~s.unknown
       /\ s.staged # s.empty
       /\ IF marker = "stage" THEN s.staged ELSE s.empty

\* The grids are as large as the bounds of the dimensions, rounded up.
LhsGrid(p) == <<TileCount(p.bound[M]), TileCount(p.bound[K])>>
RhsGrid(p) == <<TileCount(p.bound[K]), TileCount(p.bound[N])>>
AccGrid(p) == <<TileCount(p.bound[M]), TileCount(p.bound[N])>>

\* The clone of a generic replaces it when it becomes a matmul that can be
\* lowered; otherwise the generic stays.
Specialize ==
    /\ phase = "specialize"
    /\ prog' = IF prog.form = "generic" /\ HasHmxElementTypes(prog)
                                        /\ ~prog.outTransposed
               THEN [prog EXCEPT !.form = "matmul"] ELSE prog
    /\ phase' = "convert"
    /\ UNCHANGED data

\* A batch of one is dropped; a larger one should have been tiled.
RankReduced(p) ==
    IF p.form = "batch_matmul" /\ p.batch = 1
    THEN [p EXCEPT !.form = "matmul"] ELSE p

IsUntiledBatch(p) ==
    p.form = "batch_matmul" /\ HasHmxElementTypes(p) /\ p.static

\* A matmul with other element types is left to other lowerings; one that
\* cannot be lowered for another reason fails the compilation.
AnalyzeMatmul(p) ==
    CASE p.form # "matmul" \/ ~HasHmxElementTypes(p) -> "left"
      [] /\ p.form = "matmul"
         /\ IsLowerable(p)
         /\ HasProvenance(p, p.args[1], "stage")
         /\ HasProvenance(p, p.args[2], "stage")
         /\ HasProvenance(p, p.args[3], "empty")
         /\ \A d \in {M, N, K} : p.bound[d] > 0 -> "fuse"
      [] OTHER -> "error"

Convert ==
    /\ phase = "convert"
    /\ prog' = RankReduced(prog)
    /\ phase' = IF IsUntiledBatch(prog') THEN "error" ELSE AnalyzeMatmul(prog')
    /\ UNCHANGED data

---------------------------------------------------------------------------
(* Tiling and fusion                                                        *)

\* The part of a destination extent that the tile at an offset has; it is
\* negative for a tile that the run-time extent does not reach.
ClippedTileSize(p, d, offset) ==
    IF p.static /\ p.size[d] % HmxTile = 0
    THEN HmxTile
    ELSE IF p.size[d] - offset < HmxTile THEN p.size[d] - offset ELSE HmxTile

\* A loop over the result asks for tiles at multiples of its step, whose size
\* is the step or the step clipped at the end of a static extent; a loop of
\* one iteration asks for the extent at offset 0.
IsKnownTileAligned(p) == p.ask.step % HmxTile = 0

IsExactClippedTileSize(p) == p.static /\ p.ask.step = HmxTile

IsExactLogicalTileSize(p, d) ==
    \/ p.static /\ p.size[d] <= p.ask.step /\ p.size[d] <= HmxTile
    \/ /\ IsKnownTileAligned(p)
       /\ IF p.ask.clipped
          THEN IsExactClippedTileSize(p)
          ELSE /\ p.ask.step = HmxTile
               /\ ~p.static \/ p.size[d] % HmxTile = 0

\* The unpack joins a loop over its result where every asked tile is one of
\* its own, and a loop over its source where no tile is clipped.
FusesIntoConsumer(p) == \A d \in {M, N} : IsExactLogicalTileSize(p, d)

HasTileAlignedDest(p) ==
    p.static /\ \A d \in {M, N} : p.size[d] % HmxTile = 0

\* Whether the unpack runs once per output tile, in the loop with its matmul.
UnpackIsFused(p) ==
    \/ p.anchor = "unpack"
    \/ p.anchor = "matmul" /\ HasTileAlignedDest(p)
    \/ p.anchor = "consumer" /\ FusesIntoConsumer(p)

MatmulIsTiled(p) == p.anchor = "matmul" \/ p.fused

TileAndFuse ==
    /\ phase = "fuse"
    /\ prog' = [prog EXCEPT !.fused = UnpackIsFused(prog)]
    /\ phase' = "expand"
    /\ UNCHANGED data

\* The output tiles the loop visits: the whole grid, or the tiles at which
\* the loop of a consumer asks for a part of the result.
Visited(p, tile) ==
    IF p.anchor = "consumer" /\ p.fused
    THEN \A d \in {M, N} :
            /\ (tile[d] * HmxTile) % p.ask.step = 0
            /\ tile[d] * HmxTile < p.size[d]
    ELSE TRUE

TileOf(p, t) == <<t \div AccGrid(p)[2], t % AccGrid(p)[2]>>

TilesFrom(p, t) ==
    {u \in t .. AccGrid(p)[1] * AccGrid(p)[2] - 1 :
        Visited(p, TileOf(p, u))}

\* The matmul of an output tile takes a row of lhs tiles and a column of rhs
\* tiles; its K loop takes them pairwise.
LhsTileAt(p, tile, k) == tile[M] * LhsGrid(p)[2] + k
RhsTileAt(p, tile, k) == k * RhsGrid(p)[2] + tile[N]

\* The part of the destination that an output tile is unpacked to.
DestTile(p, tile) ==
    LET row == tile[M] * HmxTile
        col == tile[N] * HmxTile
    IN [offset |-> <<row, col>>,
        size |-> <<ClippedTileSize(p, M, row), ClippedTileSize(p, N, col)>>]

---------------------------------------------------------------------------
(* Expansion and alignment                                                  *)

Declared(place) == place.alloc # "arg"

\* Views keep the address of an operand when their offset does, so it is the
\* allocation below them that is aligned, if it is the function's own.
AlignedScratch(place) ==
    IF Declared(place) /\ place.align # 0 /\ place.align % HmxAlignment = 0
    THEN place ELSE [place EXCEPT !.alloc = "hexagonmem", !.align = HmxAlignment]

CanBeAligned(place) ==
    \/ place.alloc \in {"hexagonmem", "memref"}
    \/ Declared(place) /\ place.align # 0 /\ place.align % HmxAlignment = 0

Expand ==
    /\ phase = "expand"
    /\ IF \/ ~MatmulIsTiled(prog) /\ AccGrid(prog) # <<1, 1>>
          \/ ~CanBeAligned(prog.grid)
       THEN phase' = "error" /\ UNCHANGED prog
       ELSE /\ phase' = "verify"
            /\ prog' = [prog EXCEPT !.grid = AlignedScratch(@)]
    /\ UNCHANGED data

\* A mistake the runs must catch: offsets of views are taken to be aligned.
OffsetsIgnored(view, alignment) == \A i \in DOMAIN view.dims :
                                        view.dims[i].strideKnown

RECURSIVE Gcd(_, _)
Gcd(a, b) == IF b = 0 THEN a ELSE Gcd(b, a % b)

\* What a view adds to the address is a multiple of the alignment: the sum of
\* the constant offsets is, and each other offset has a sufficient divisor.
SubViewKeepsAlignment(view, alignment) ==
    LET bytes(i) == view.dims[i].stride * view.bytes
        constant == {i \in DOMAIN view.dims : view.dims[i].offKnown}
    IN /\ \A i \in DOMAIN view.dims : view.dims[i].strideKnown
       /\ \A i \in DOMAIN view.dims \ constant :
            view.dims[i].off % (alignment \div Gcd(bytes(i), alignment)) = 0
       /\ MapThenSumSet(LAMBDA i : view.dims[i].off * bytes(i), constant)
            % alignment = 0

ProvidesAlignment(place, views, alignment) ==
    /\ Declared(place)
    /\ place.align % alignment = 0
    /\ \A i \in DOMAIN views : SubViewKeepsAlignment(views[i], alignment)

Dim(off, stride, strideKnown) ==
    [off |-> off, offKnown |-> FALSE, stride |-> stride,
     strideKnown |-> strideKnown]

\* One tile of a grid, at run-time tile indices.
TileView(grid) ==
    [dims |-> <<Dim(1, grid[2] * TileElements, TRUE),
                Dim(1, TileElements, TRUE)>>, bytes |-> 2]

ElementBytes(p) == IF p.result = "f16" THEN 2 ELSE 4
DestStride(p) == p.size[N] + p.pad

\* One logical tile of the destination, at multiples of the tile edge.
DestTileView(p) ==
    [dims |-> <<Dim(HmxTile, DestStride(p), p.dst.strideKnown),
                Dim(HmxTile, 1, TRUE)>>, bytes |-> ElementBytes(p)]

InVtcm(place) == place.vtcm

GridCovers(p, grid, d1, d2) ==
    /\ p.bound[d1] <= grid[1] * HmxTile
    /\ p.bound[d2] <= grid[2] * HmxTile

PackPreconditions(p, grid, d1, d2) ==
    /\ InVtcm(p.src)
    /\ ProvidesAlignment(p.src, p.src.views, HalfVectorAlignment)
    /\ InVtcm(p.grid)
    /\ ProvidesAlignment(p.grid, p.grid.views, HmxAlignment)
    /\ GridCovers(p, grid, d1, d2)

MmaPreconditions(p) ==
    \A grid \in {LhsGrid(p), RhsGrid(p)} :
        ProvidesAlignment(p.grid, Append(p.grid.views, TileView(grid)),
                          HmxAlignment)

\* A rank-3 accumulator is replaced by a scratch tile that is aligned.
AccReadPreconditions(p) ==
    p.accTile \/ ProvidesAlignment(p.grid,
                    Append(p.grid.views, TileView(AccGrid(p))), HmxAlignment)

UnpackPreconditions(p) ==
    LET alignment == IF p.result = "f16"
                     THEN HalfVectorAlignment ELSE HvxAlignment
        views == IF p.fused
                 THEN Append(p.dst.views, DestTileView(p)) ELSE p.dst.views
    IN /\ InVtcm(p.dst)
       /\ ProvidesAlignment(p.dst, views, alignment)
       /\ GridCovers(p, AccGrid(p), M, N)

Verify ==
    /\ phase = "verify"
    /\ phase' = IF /\ PackPreconditions(prog, LhsGrid(prog), M, K)
                   /\ PackPreconditions(prog, RhsGrid(prog), K, N)
                   /\ MmaPreconditions(prog)
                   /\ AccReadPreconditions(prog)
                   /\ UnpackPreconditions(prog)
                THEN "load" ELSE "error"
    /\ UNCHANGED <<prog, data>>

---------------------------------------------------------------------------
(* The run                                                                  *)

\* The matrices: any values that tell the elements apart.
A(i, k) == ((3 * i + 5 * k) % 11) - 4
B(k, j) == ((7 * k + 2 * j) % 13) - 5
Before(e) == e % 17

\* A row-major matrix with room between its rows.
Stored(matrix, rows, cols, stride) ==
    [e \in 0 .. rows * stride - 1 |->
        IF e % stride < cols THEN matrix[e \div stride][e % stride] ELSE Junk]

LhsStride(p) == (IF p.lhsDim = 0 THEN p.size[K] ELSE p.size[M]) + p.pad
RhsStride(p) == (IF p.rhsDim = 0 THEN p.size[N] ELSE p.size[K]) + p.pad

StagedLhs(p) ==
    LET m == p.size[M]
        k == p.size[K]
    IN IF p.lhsDim = 0
       THEN Stored([i \in 0 .. m - 1 |-> [j \in 0 .. k - 1 |-> A(i, j)]],
                   m, k, LhsStride(p))
       ELSE Stored([i \in 0 .. k - 1 |-> [j \in 0 .. m - 1 |-> A(j, i)]],
                   k, m, LhsStride(p))

StagedRhs(p) ==
    LET k == p.size[K]
        n == p.size[N]
    IN IF p.rhsDim = 0
       THEN Stored([i \in 0 .. k - 1 |-> [j \in 0 .. n - 1 |-> B(i, j)]],
                   k, n, RhsStride(p))
       ELSE Stored([i \in 0 .. n - 1 |-> [j \in 0 .. k - 1 |-> B(j, i)]],
                   n, k, RhsStride(p))

\* The pack operation becomes a call of one of two kernels.
PackCall(source, stride, dim, size0, size1, grid) ==
    IF dim = 1 THEN PackTransposedF16(source, stride, size1, size0, grid)
    ELSE PackF16(source, stride, size0, size1, grid)

UnpackCall(p, offset, source, stride, rows, cols, grid) ==
    IF p.result = "f32"
    THEN UnpackAccF16ToF32(dest, offset, source, stride,
                           U32(rows), U32(cols), grid)
    ELSE UnpackAccF16ToF16(dest, offset, source, stride,
                           U32(rows), U32(cols), grid)

\* Where a value's data comes from in an iteration of the loops around it.
RECURSIVE Origin(_, _, _)
Origin(graph, v, trip) ==
    LET node == graph[v]
    IN CASE node.op = "for" /\ trip = 0 -> Origin(graph, node.args[1], 0)
         [] node.op = "for" /\ trip > 0 -> Origin(graph, node.args[2], trip - 1)
         [] node.op \in {"view", "dps", "forall"} /\ node.args # <<>> ->
                Origin(graph, node.args[1], trip)
         [] OTHER -> node.op

\* The address of an operand: an allocation anywhere its alignment allows, and
\* the offsets of the views on it, each a multiple of what is known of it.
Address(place, base, times) ==
    base + MapThenSumSet(
        LAMBDA i : MapThenSumSet(
            LAMBDA d : place.views[i].dims[d].stride * place.views[i].bytes
                        * place.views[i].dims[d].off
                        * (IF place.views[i].dims[d].offKnown
                           THEN 1 ELSE times),
            DOMAIN place.views[i].dims),
        DOMAIN place.views)

Allocated(place) == {b \in Bases : b % place.align = 0}

Load ==
    /\ phase = "load"
    /\ \E trip \in Trips, times \in 0 .. 1, sb \in Allocated(prog.src),
          gb \in Allocated(prog.grid), db \in Allocated(prog.dst) :
        /\ origin' = [i \in 1 .. 3 |-> Origin(prog.graph, prog.args[i], trip)]
        /\ at' = [src  |-> Address(prog.src, sb, times),
                  grid |-> Address(prog.grid, gb, times),
                  dst  |-> Address(prog.dst, db, times)]
    /\ LET extent == AccGrid(prog)[1] * HmxTile * DestStride(prog)
                        + AccGrid(prog)[2] * HmxTile
       IN dest' = [e \in 0 .. extent - 1 |-> Before(e)]
    /\ readout' = [e \in 0 .. (IF prog.accTile THEN 1
                               ELSE AccGrid(prog)[1] * AccGrid(prog)[2])
                              * TileElements - 1 |-> Junk]
    /\ phase' = "setup"
    /\ UNCHANGED <<prog, packed, acc, written, cur>>

AccSetupRead ==
    /\ phase = "setup"
    /\ cur' = [cur EXCEPT !.programmed = TRUE]
    /\ phase' = "pack"
    /\ UNCHANGED <<prog, at, origin, packed, acc, readout, dest, written>>

Pack ==
    /\ phase = "pack"
    /\ packed' =
        <<PackCall(StagedLhs(prog), LhsStride(prog), prog.lhsDim,
                   Size[IF prog.lhsDim = 0 THEN M ELSE K],
                   Size[IF prog.lhsDim = 0 THEN K ELSE M], LhsGrid(prog)),
          PackCall(StagedRhs(prog), RhsStride(prog), prog.rhsDim,
                   Size[IF prog.rhsDim = 0 THEN K ELSE N],
                   Size[IF prog.rhsDim = 0 THEN N ELSE K], RhsGrid(prog))>>
    /\ phase' = "zero"
    /\ UNCHANGED <<prog, at, origin, acc, readout, dest, written, cur>>

AccZero ==
    /\ phase = "zero"
    /\ acc' = AccClear
    /\ cur' = [cur EXCEPT !.k = 0]
    /\ phase' = "mma"
    /\ UNCHANGED <<prog, at, origin, packed, readout, dest, written>>

Mma ==
    LET tile == TileOf(prog, cur.tile)
    IN /\ phase = "mma"
       /\ acc' = MmaF16(acc,
                    TileAt(packed[1], LhsTileAt(prog, tile, cur.k)),
                    TileAt(packed[2], RhsTileAt(prog, tile, cur.k)))
       /\ cur' = [cur EXCEPT !.k = @ + 1]
       /\ phase' = IF cur.k + 1 = LhsGrid(prog)[2] THEN "read" ELSE "mma"
       /\ UNCHANGED <<prog, at, origin, packed, readout, dest, written>>

NextTile(p, t) ==
    IF TilesFrom(p, t + 1) = {} THEN t ELSE Min(TilesFrom(p, t + 1))

ReadoutTile(p, t) == IF p.accTile THEN 0 ELSE t

AccRead ==
    LET first == ReadoutTile(prog, cur.tile) * TileElements
        tile == AccReadF16(acc, cur.programmed)
        last == TilesFrom(prog, cur.tile + 1) = {}
    IN /\ phase = "read"
       /\ readout' = [e \in DOMAIN readout |->
                        IF e - first \in DOMAIN tile
                        THEN tile[e - first] ELSE readout[e]]
       /\ acc' = AccClear
       /\ phase' = IF prog.fused \/ last THEN "unpack" ELSE "zero"
       /\ cur' = IF prog.fused \/ last THEN cur
                 ELSE [cur EXCEPT !.tile = NextTile(prog, @)]
       /\ UNCHANGED <<prog, at, origin, packed, dest, written>>

\* The unpack of one tile into its part of the destination, or of the grid.
Unpack ==
    LET part == DestTile(prog, TileOf(prog, cur.tile))
        stride == DestStride(prog)
    IN /\ phase = "unpack"
       /\ dest' = IF prog.fused
                  THEN UnpackCall(prog, part.offset[M] * stride + part.offset[N],
                        TileAt(readout, ReadoutTile(prog, cur.tile)), stride,
                        part.size[M], part.size[N], <<1, 1>>)
                  ELSE UnpackCall(prog, 0, readout, stride,
                        Size[M], Size[N], AccGrid(prog))
       /\ written' = written \cup
                (IF prog.fused
                 THEN {<<part.offset[M] + cell[1], part.offset[N] + cell[2]>> :
                        cell \in UnpackedCells(U32(part.size[M]),
                                              U32(part.size[N]), <<1, 1>>)}
                 ELSE UnpackedCells(Size[M], Size[N], AccGrid(prog)))
       /\ IF prog.fused /\ TilesFrom(prog, cur.tile + 1) # {}
          THEN phase' = "zero" /\ cur' = [cur EXCEPT !.tile = NextTile(prog, @)]
          ELSE phase' = "done" /\ UNCHANGED cur
       /\ UNCHANGED <<prog, at, origin, packed, acc, readout>>

---------------------------------------------------------------------------

Init ==
    /\ prog \in Programs
    /\ phase = "specialize"
    /\ at = [src |-> 0, grid |-> 0, dst |-> 0]
    /\ origin = <<>>
    /\ packed = <<>>
    /\ acc = [i \in Edge |-> [j \in Edge |-> Junk]]
    /\ readout = <<>>
    /\ dest = <<>>
    /\ written = {}
    /\ cur = [tile |-> 0, k |-> 0, programmed |-> FALSE]

Next ==
    \/ Specialize \/ Convert \/ TileAndFuse \/ Expand \/ Verify
    \/ Load \/ AccSetupRead \/ Pack \/ AccZero \/ Mma \/ AccRead \/ Unpack

Spec == Init /\ [][Next]_vars

---------------------------------------------------------------------------
(* Properties                                                               *)

\* The product by definition, added to what the destination held.
Product(i, j) ==
    Before(i * DestStride(prog) + j)
        + MapThenSumSet(LAMBDA k : A(i, k) * B(k, j), 0 .. Size[K] - 1)

\* The elements of the destination.
Result == (0 .. Size[M] - 1) \X (0 .. Size[N] - 1)

\* Packing, the passes over the tiles, the accumulator and unpacking together
\* add the product of the two matrices to the destination and touch no other
\* element around it: for full and ragged tiles, for transposed operands, for
\* rows with room between them, for padding tiles that the unpack of a whole
\* grid skips, and whichever operation the tile loop is built around. (A loop
\* that unpacks tile by tile has to be reached by the extents in all its tiles,
\* see below.)
HmxComputesMatmul ==
    phase = "done" =>
        /\ written = Result
        /\ \A e \in DOMAIN dest :
            LET i == e \div DestStride(prog)
                j == e % DestStride(prog)
            IN dest[e] = IF i < Size[M] /\ j < Size[N]
                         THEN Product(i, j) ELSE Before(e)

\* "its boundary slice must remain in bounds" (HexagonTilingInterfaceImpl.cpp:33),
\* "Only the valid region of each boundary tile is written, so the destination
\* stays exactly the logical size (padding tiles are skipped)" (hmx.c:326-327):
\* an unpack reads and writes elements of the destination alone.
UnpackStaysInBounds == written \subseteq Result

Running == phase \in {"setup", "pack", "zero", "mma", "read", "unpack", "done"}

\* The address of a row of a full tile that a fast path reads or writes.
RowsAligned(address, rows, cols, stride, bytes, alignment) ==
    \A rt \in 0 .. TileCount(rows) - 1, ct \in 0 .. TileCount(cols) - 1 :
        FullTile(TileExtent(rows, rt), TileExtent(cols, ct), stride) =>
            \A r \in Edge :
                (address + ((rt * HmxTile + r) * stride + ct * HmxTile) * bytes)
                    % alignment = 0

\* What the check of the kernels' preconditions accepts runs on aligned
\* addresses, wherever the allocations are placed and whatever values the
\* offsets of the views take: tile grids for the matrix unit, and the rows of
\* sources and destination for the vector accesses of the fast paths.
KernelsReadAligned ==
    Running =>
        /\ at.grid % HmxAlignment = 0
        /\ RowsAligned(at.src, Size[IF prog.lhsDim = 0 THEN M ELSE K],
                       Size[IF prog.lhsDim = 0 THEN K ELSE M],
                       LhsStride(prog), 2, HalfVectorAlignment)
        /\ RowsAligned(at.src, Size[IF prog.rhsDim = 0 THEN K ELSE N],
                       Size[IF prog.rhsDim = 0 THEN N ELSE K],
                       RhsStride(prog), 2, HalfVectorAlignment)
        /\ RowsAligned(at.dst, Size[M], Size[N], DestStride(prog),
                       ElementBytes(prog),
                       IF prog.result = "f16"
                       THEN HalfVectorAlignment ELSE HvxAlignment)

\* A contraction is lowered to the matrix unit only if its inputs are staged
\* in VTCM and its destination is a VTCM buffer, in every iteration of the
\* loops that carry them.
OperandsAreInVtcm ==
    Running => origin = <<"stage", "stage", "empty">>

=============================================================================

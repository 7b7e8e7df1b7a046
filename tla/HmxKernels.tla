------------------------------ MODULE HmxKernels ------------------------------
(***************************************************************************)
(* The kernels around the matrix unit (dsp/ukernel/hmx/hmx.c): packing of  *)
(* row-major and transposed matrices into grids of square tiles, the       *)
(* vector-shuffle ladder that transposes a full tile, and unpacking of the *)
(* accumulator read-out.  A buffer is a function from element indices to   *)
(* integers; the tile edge is a parameter, so that small tiles exercise    *)
(* the same paths as HMX_TILE = 32.  A vector holds two tile rows.         *)
(***************************************************************************)
EXTENDS Integers, FiniteSetsExt

CONSTANTS
    HmxTile,    \* HMX_TILE, a power of two
    Junk        \* what an element holds before it is first written

ASSUME HmxTileAssumption == HmxTile \in {4, 8, 16, 32}

Edge == 0 .. HmxTile - 1
TileElements == HmxTile * HmxTile
TileVectors == HmxTile \div 2
Lanes == 0 .. 2 * HmxTile - 1

\* A negative extent reaches the kernels as a huge unsigned number; nothing
\* below tells huge numbers apart.
U32(extent) == IF extent < 0 THEN 2147483647 ELSE extent

TileExtent(actual, tile) ==
    IF tile * HmxTile >= actual
    THEN 0
    ELSE IF actual - tile * HmxTile < HmxTile
         THEN actual - tile * HmxTile ELSE HmxTile

\* The gate of every fast path.
FullTile(validRows, validCols, stride) ==
    /\ validRows >= HmxTile
    /\ validCols >= HmxTile
    /\ stride % HmxTile = 0

---------------------------------------------------------------------------
(* Vectors                                                                  *)

RowPair(row0, row1) ==
    [x \in Lanes |-> IF x < HmxTile THEN row0[x] ELSE row1[x - HmxTile]]

\* Q6_Vh_vshuff_Vh interleaves the two halves of a vector, Q6_Vh_vdeal_Vh
\* separates them again.
Vshuff(v) ==
    [x \in Lanes |-> v[IF x % 2 = 0 THEN x \div 2 ELSE HmxTile + x \div 2]]

Vdeal(v) ==
    [x \in Lanes |-> v[IF x < HmxTile THEN 2 * x ELSE 2 * (x - HmxTile) + 1]]

\* Q6_W_vshuff_VVR for a control word whose set bits are all those from a
\* block size upwards: one exchange between the vectors of a pair per block
\* size, in ascending order.
Exchange(w, block) ==
    [lo |-> [x \in Lanes |-> IF (x \div block) % 2 = 0
                             THEN w.lo[x] ELSE w.hi[x - block]],
     hi |-> [x \in Lanes |-> IF (x \div block) % 2 = 0
                             THEN w.lo[x + block] ELSE w.hi[x]]]

RECURSIVE VshuffPair(_, _)
VshuffPair(w, block) ==
    IF block > HmxTile THEN w ELSE VshuffPair(Exchange(w, block), 2 * block)

\* The vectors of a tile one after the other.
Flattened(vectors) ==
    [e \in 0 .. TileElements - 1 |->
        vectors[e \div (2 * HmxTile)][e % (2 * HmxTile)]]

VectorOf(tile, p) == [x \in Lanes |-> tile[p * 2 * HmxTile + x]]

\* Row pairs of a square of rows, each interleaved.
Interleaved(rows) ==
    Flattened([p \in 0 .. TileVectors - 1 |->
        Vshuff(RowPair(rows[2 * p], rows[2 * p + 1]))])

---------------------------------------------------------------------------
(* Packing                                                                  *)

\* A mistake the runs must catch: the scratch square is not cleared first.
Uncleared(r, c) == Junk

\* What the scratch square of a boundary tile holds before the gather.
Cleared(r, c) == 0

\* The valid part of a boundary tile in the scratch square.
Gathered(valid) ==
    [r \in Edge |-> [c \in Edge |->
        IF <<r, c>> \in DOMAIN valid THEN valid[r, c] ELSE Cleared(r, c)]]

PackRmRaggedTile(source, stride, baseRow, baseCol, validRows, validCols) ==
    Interleaved(Gathered(
        [r \in 0 .. validRows - 1, c \in 0 .. validCols - 1 |->
            source[(baseRow + r) * stride + baseCol + c]]))

PackRmTile(source, stride, baseRow, baseCol, validRows, validCols) ==
    IF FullTile(validRows, validCols, stride)
    THEN Interleaved([r \in Edge |-> [c \in Edge |->
            source[(baseRow + r) * stride + baseCol + c]]])
    ELSE PackRmRaggedTile(source, stride, baseRow, baseCol,
                          validRows, validCols)

\* One stage of the transposing ladder: the vectors a distance d apart trade
\* blocks.
VshuffCrossStage(v, d, block) ==
    LET low(i) == (i \div d) % 2 = 0
        pair(i) == VshuffPair([lo |-> v[i], hi |-> v[i + d]], block)
    IN [i \in DOMAIN v |-> IF low(i) THEN pair(i).lo ELSE pair(i - d).hi]

RECURSIVE InnerStages(_, _)
InnerStages(v, d) ==
    IF d < 2 THEN v ELSE InnerStages(VshuffCrossStage(v, d, 4), d \div 2)

\* For tiles of 32 the distances are 1; 8, 4, 2; 1.
PackTransposedFullTile(source, stride, baseI, baseO) ==
    LET row(o) == [i \in Edge |-> source[(baseO + o) * stride + baseI + i]]
        loaded == [p \in 0 .. TileVectors - 1 |->
                    RowPair(row(2 * p), row(2 * p + 1))]
        first == VshuffCrossStage(loaded, 1, 2)
    IN Flattened(VshuffCrossStage(InnerStages(first, HmxTile \div 4), 1, 2))

PackTransposedRaggedTile(source, stride, baseI, baseO, validI, validO) ==
    Interleaved(Gathered(
        [i \in 0 .. validI - 1, o \in 0 .. validO - 1 |->
            source[(baseO + o) * stride + baseI + i]]))

PackTransposedTile(source, stride, baseI, baseO, validI, validO) ==
    IF FullTile(validI, validO, stride)
    THEN PackTransposedFullTile(source, stride, baseI, baseO)
    ELSE PackTransposedRaggedTile(source, stride, baseI, baseO,
                                  validI, validO)

\* The tiles of a grid that hold more than padding, each with its corner and its
\* valid extents; tiles are numbered row by row.
DataTiles(rows, cols, grid) ==
    {t \in 0 .. grid[1] * grid[2] - 1 :
        /\ TileExtent(rows, t \div grid[2]) > 0
        /\ TileExtent(cols, t % grid[2]) > 0}

TileShape(t, rows, cols, grid) ==
    [row |-> (t \div grid[2]) * HmxTile, col |-> (t % grid[2]) * HmxTile,
     rows |-> TileExtent(rows, t \div grid[2]), cols |-> TileExtent(cols, t % grid[2])]

\* The grid as one buffer; a tile of padding alone is cleared.
PackedGrid(tiles, grid) ==
    [e \in 0 .. grid[1] * grid[2] * TileElements - 1 |->
        IF e \div TileElements \in DOMAIN tiles
        THEN tiles[e \div TileElements][e % TileElements] ELSE 0]

PackF16(source, stride, rows, cols, grid) ==
    LET tiles == [t \in DataTiles(rows, cols, grid) |->
                    LET s == TileShape(t, rows, cols, grid)
                    IN PackRmTile(source, stride, s.row, s.col, s.rows, s.cols)]
    IN PackedGrid(tiles, grid)

PackTransposedF16(source, stride, interleave, other, grid) ==
    LET tiles == [t \in DataTiles(interleave, other, grid) |->
                    LET s == TileShape(t, interleave, other, grid)
                    IN PackTransposedTile(source, stride, s.row, s.col, s.rows, s.cols)]
    IN PackedGrid(tiles, grid)

---------------------------------------------------------------------------
(* The matrix unit                                                          *)

TileAt(grid, t) ==
    [e \in 0 .. TileElements - 1 |-> grid[t * TileElements + e]]

\* Where the unit looks for element (r, c) of a packed tile.
Packed(r, c) == (r \div 2) * 2 * HmxTile + 2 * c + (r % 2)

AccClear == [i \in Edge |-> [j \in Edge |-> 0]]

MmaF16(acc, activation, weight) ==
    [i \in Edge |-> [j \in Edge |->
        acc[i][j] + MapThenSumSet(
            LAMBDA k : activation[Packed(i, k)] * weight[Packed(k, j)], Edge)]]

\* Converts through the bias table, which has to be programmed before.
AccReadF16(acc, programmed) ==
    [e \in 0 .. TileElements - 1 |->
        LET p == e \div (2 * HmxTile)
            x == e % (2 * HmxTile)
        IN IF programmed THEN acc[2 * p + (x % 2)][x \div 2] ELSE Junk]

---------------------------------------------------------------------------
(* Unpacking                                                                *)

\* Q6_Wsf_vcvt_Vhf widens the even lanes into the low vector of a pair and
\* the odd lanes into the high one.
WidenedRows(tile) ==
    [r \in Edge |-> [c \in Edge |->
        VectorOf(tile, r \div 2)[2 * c + (r % 2)]]]

DealtRows(tile) ==
    [r \in Edge |-> [c \in Edge |->
        Vdeal(VectorOf(tile, r \div 2))[(r % 2) * HmxTile + c]]]

\* Adds the valid part of a square of rows to the destination at an offset;
\* whether vectors or elements are added makes no difference to the sum.
AddedTile(dest, at, rows, stride, validRows, validCols) ==
    [e \in DOMAIN dest |->
        dest[e] + MapThenSumSet(
            LAMBDA r : rows[r][e - at - r * stride],
            {r \in 0 .. validRows - 1 :
                e - at - r * stride \in 0 .. validCols - 1})]

\* The tiles of a grid of squares, one after the other; tiles of padding
\* alone add nothing.
RECURSIVE UnpackFrom(_, _, _, _, _, _, _, _)
UnpackFrom(dest, at, squares, stride, rows, cols, grid, t) ==
    IF t = grid[1] * grid[2]
    THEN dest
    ELSE LET rt == t \div grid[2]
             ct == t % grid[2]
         IN UnpackFrom(
                AddedTile(dest, at + rt * HmxTile * stride + ct * HmxTile,
                          squares[t], stride,
                          TileExtent(rows, rt), TileExtent(cols, ct)),
                at, squares, stride, rows, cols, grid, t + 1)

\* The elements, by row and column of the destination, that the unpack of a grid
\* reads and writes back.
UnpackedCells(rows, cols, grid) ==
    {<<(t \div grid[2]) * HmxTile + r, (t % grid[2]) * HmxTile + c>> :
        t \in DataTiles(rows, cols, grid), r \in Edge, c \in Edge}
    \cap ((0 .. rows - 1) \X (0 .. cols - 1))

UnpackAccF16ToF32(dest, at, source, stride, rows, cols, grid) ==
    LET squares == [t \in 0 .. grid[1] * grid[2] - 1 |->
                        WidenedRows(TileAt(source, t))]
    IN UnpackFrom(dest, at, squares, stride, rows, cols, grid, 0)

UnpackAccF16ToF16(dest, at, source, stride, rows, cols, grid) ==
    LET squares == [t \in 0 .. grid[1] * grid[2] - 1 |->
                        DealtRows(TileAt(source, t))]
    IN UnpackFrom(dest, at, squares, stride, rows, cols, grid, 0)

=============================================================================

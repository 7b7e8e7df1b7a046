---------------------------- MODULE MCHmxLowering ----------------------------
(***************************************************************************)
(* Contractions over full, ragged and clipped tiles with every layout of   *)
(* their operands, carried through loops, and with buffers of various      *)
(* alignment.                                                              *)
(***************************************************************************)
EXTENDS HmxLowering

\* At the real size of a tile the ladder of vector shuffles transposes it.
Real == INSTANCE HmxKernels WITH HmxTile <- 32, Junk <- 0
ASSUME LadderTransposes ==
    LET source == [e \in 0 .. 32 * 64 - 1 |-> e]
        tile == Real!PackTransposedFullTile(source, 64, 32, 0)
    IN \A i, o \in 0 .. 31 : tile[Real!Packed(i, o)] = o * 64 + 32 + i

T == HmxTile

Node(op, args) == [op |-> op, args |-> args]

\* Values: markers, an operand in DDR, and what carries them.
Graph(carriers) ==
    [v \in {"a", "b", "c", "ddr"} \cup DOMAIN carriers |->
        CASE v = "a" -> Node("stage", <<>>)
          [] v = "b" -> Node("stage", <<>>)
          [] v = "c" -> Node("empty", <<>>)
          [] v = "ddr" -> Node("other", <<>>)
          [] OTHER -> carriers[v]]

Off(off, known, stride) ==
    [off |-> off, offKnown |-> known, stride |-> stride, strideKnown |-> TRUE]
View(bytes, dims) == [dims |-> dims, bytes |-> bytes]

Place(alloc, align, views) ==
    [alloc |-> alloc, align |-> align, vtcm |-> TRUE, views |-> views,
     strideKnown |-> TRUE]

Tile1 == Place("hexagonmem", 2 * T * T, <<>>)

Basic ==
    [form |-> "matmul", types |-> "hmx", outTransposed |-> FALSE, batch |-> 0,
     lhsDim |-> 0, rhsDim |-> 0, size |-> <<T, T, T>>, bound |-> <<T, T, T>>,
     static |-> TRUE, pad |-> 0, result |-> "f32", anchor |-> "unpack",
     ask |-> [step |-> T, clipped |-> FALSE], accTile |-> FALSE,
     fused |-> FALSE, graph |-> Graph(<<>>), args |-> <<"a", "b", "c">>,
     src |-> Tile1, grid |-> Tile1, dst |-> Tile1]

Static(s) == [Basic EXCEPT !.size = s, !.bound = s]

\* Layouts: every choice of sides, strides and result type.
Layouts ==
    {[Static(s) EXCEPT !.lhsDim = l, !.rhsDim = r, !.pad = pad, !.result = t] :
        s \in {<<T, T, T>>, <<T - 1, T, T + 1>>, <<T + 1, T - 1, T>>,
               <<2 * T, T + 1, T>>, <<T, 2 * T, T>>},
        l \in 0 .. 1, r \in 0 .. 1, pad \in {0, 1, T}, t \in {"f16", "f32"}}

\* Boundary tiles of a loop: the extents are not known statically, and all tiles of
\* the grid are reached.
Dynamic(s) ==
    [Basic EXCEPT !.size = s, !.bound = <<2 * T, 2 * T, T>>, !.static = FALSE]

Boundaries ==
    {[Dynamic(s) EXCEPT !.accTile = a, !.rhsDim = r] :
        s \in {<<T + 3, T + 1, T>>, <<T + 1, 2 * T, T - 1>>, <<2 * T, 2 * T, T>>},
        a \in BOOLEAN, r \in 0 .. 1}

\* The extents do not reach every tile. A grid that is unpacked at once has
\* padding tiles; a loop that unpacks tile by tile visits tiles beyond the
\* destination.
Beyond(anchor) ==
    {[Dynamic(s) EXCEPT !.anchor = anchor, !.result = t, !.rhsDim = r] :
        s \in {<<3, T + 1, T>>, <<T + 3, 3, T - 1>>, <<2, 3, T>>},
        t \in {"f16", "f32"}, r \in 0 .. 1}

PaddingTiles == Beyond("matmul")
TilesBeyond == Beyond("unpack")

\* Loops built around another operation than the unpack.
Anchors ==
    {[Static(s) EXCEPT !.anchor = "matmul"] :
        s \in {<<2 * T, 2 * T, T>>, <<T + 1, T + 2, T>>, <<T - 1, T, T>>}}
    \cup
    {[Static(s) EXCEPT !.anchor = "consumer",
                       !.ask = [step |-> step, clipped |-> c]] :
        s \in {<<2 * T, T, T>>, <<T + 1, T + 2, T>>, <<T - 1, T - 1, T>>},
        step \in {T \div 2, T, 2 * T}, c \in BOOLEAN}

\* Values carried by loops, views and destination-style operations.
Carriers1 ==
    [fill |-> Node("dps", <<"c">>), slice |-> Node("view", <<"a">>),
     loop |-> Node("for", <<"a", "slice2">>),
     slice2 |-> Node("view", <<"loop">>),
     turn |-> Node("for", <<"a", "ddr">>),
     mixed |-> Node("for", <<"c", "a">>),
     all |-> Node("forall", <<"c">>), free |-> Node("forall", <<>>),
     outer |-> Node("for", <<"fill", "inner">>),
     inner |-> Node("for", <<"outer", "sum">>),
     sum |-> Node("dps", <<"inner">>),
     swap |-> Node("for", <<"a", "swap2">>),
     swap2 |-> Node("for", <<"ddr", "swap">>)]

Carried ==
    {[Basic EXCEPT !.graph = Graph(Carriers1), !.args = <<l, "b", o>>] :
        l \in {"a", "slice", "loop", "turn", "mixed", "swap", "ddr", "c"},
        o \in {"c", "fill", "all", "free", "outer", "mixed", "a"}}

\* Buffers: views at known and unknown offsets of more or less aligned
\* allocations.
Places ==
    {Place(alloc, align, views) :
        alloc \in {"memref", "assume"}, align \in {T, 2 * T, 4 * T, 2 * T * T},
        views \in {<<>>,
                   <<View(4, <<Off(0, TRUE, 4 * T), Off(T, TRUE, 1)>>)>>,
                   <<View(2, <<Off(1, TRUE, 3 * T), Off(T, TRUE, 1)>>)>>,
                   <<View(2, <<Off(2, FALSE, 2 * T), Off(T, FALSE, 1)>>)>>,
                   <<View(2, <<Off(1, FALSE, T), Off(2, FALSE, 1)>>)>>,
                   <<View(2, <<Off(1, FALSE, 2 * T), Off(0, TRUE, 1)>>),
                     View(2, <<Off(T, FALSE, 2 * T), Off(T, TRUE, 1)>>)>>}}
    \cup {Place("arg", 2 * T * T, <<>>),
          [Tile1 EXCEPT !.vtcm = FALSE],
          [Tile1 EXCEPT !.strideKnown = FALSE]}

Placed ==
    {[Basic EXCEPT !.src = pl] : pl \in Places}
    \cup {[Basic EXCEPT !.dst = pl, !.result = t] :
            pl \in Places, t \in {"f16", "f32"}}
    \cup {[Basic EXCEPT !.grid = pl] :
            pl \in Places \cup {Place("memref", T * 2, <<>>)}}

Forms ==
    {[Basic EXCEPT !.form = f, !.types = t, !.outTransposed = o, !.batch = b,
                   !.static = s, !.bound = bound] :
        f \in {"generic", "batch_matmul"}, t \in {"hmx", "other"},
        o \in BOOLEAN, b \in 1 .. 2, s \in BOOLEAN,
        bound \in {<<T, T, T>>, <<0, T, T>>}}

AllPrograms ==
    Layouts \cup Boundaries \cup PaddingTiles \cup Anchors \cup Carried \cup Placed \cup Forms

AllBases == {0, T, 2 * T, 4 * T, 2 * T * T}

=============================================================================

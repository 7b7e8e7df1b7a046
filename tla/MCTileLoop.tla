----------------------------- MODULE MCTileLoop -----------------------------
(***************************************************************************)
(* Instances for TLC: tile loops of two or three tiles of at most two      *)
(* rows, one per question a pass asks of a loop, and allocations that pad. *)
(***************************************************************************)
EXTENDS TileLoop

View(width, ddrStride, vtcmStride) ==
    [rank |-> 2, width |-> width, ddrStride |-> ddrStride,
     vtcmStride |-> vtcmStride, bits |-> 32, cast |-> FALSE,
     recomputable |-> TRUE]
V == View(64, 64, 64)
Strided == View(64, 128, 64)

Stage(b) == [op |-> "stage", buf |-> b, view |-> V, nested |-> FALSE]
Store(b) == [op |-> "store", buf |-> b, view |-> V, nested |-> FALSE]
Compute(id, reads, writes) ==
    [op |-> "compute", id |-> id, reads |-> reads, writes |-> writes,
     threads |-> FALSE, nested |-> FALSE]
OnThreads(item) == [item EXCEPT !.threads = TRUE]
Through(item, view) == [item EXCEPT !.view = view]

Alloc(bytes, align) ==
    [bytes |-> bytes, align |-> align, element |-> 4, dynamic |-> FALSE,
     inLoop |-> FALSE, inThreads |-> FALSE, slice |-> 0]
Scratch(bytes, align) == [Alloc(bytes, align) EXCEPT !.inThreads = TRUE]

\* A tensor the loop carries; the DDR result is sliced and inserted into.
Arg(staged, uses) == [staged |-> staged, uses |-> uses]
Result == Arg(FALSE, {"slice", "insertInto"})

Body(items) ==
    [lb |-> 1, ub |-> 6, step |-> 2, static |-> TRUE, args |-> {Result},
     iterArgs |-> FALSE, inThreads |-> FALSE, outer |-> FALSE, outerTileLoops |-> FALSE,
     doubleBuffer |-> TRUE, configs |-> 1, empty |-> {}, items |-> items,
     after |-> {}, threadRank |-> 1, threadsStatic |-> TRUE, slice |-> 0,
     order |-> <<"a", "o">>,
     allocs |-> [b \in {"a", "o"} |-> Alloc(512, 128)]]

\* o := f(a): an input and a result that starts empty.
Plain ==
    [Body(<<Stage("a"), Stage("o"), Compute(1, {"a"}, "o"), Store("o")>>)
        EXCEPT !.empty = {"o"}]
\* o := f(a, o): the result is read, updated and written back.
InOut == Body(<<Stage("o"), Stage("a"), Compute(1, {"a", "o"}, "o"), Store("o")>>)
Keeps(arg) ==
    [Body(<<Stage("a"), Compute(1, {"a", "o"}, "o"), Store("o")>>)
        EXCEPT !.ub = 4, !.args = @ \cup {arg}]
WithScratch(l, bytes, align) ==
    [l EXCEPT !.items = [k \in DOMAIN l.items |->
                  IF l.items[k].op = "compute" THEN OnThreads(l.items[k])
                                               ELSE l.items[k]],
              !.order = <<"o", "s", "a">>,
              !.allocs = [b \in {"a", "o", "s"} |->
                  IF b = "s" THEN Scratch(bytes, align) ELSE @[b]]]

MCLoops ==
    LET short == [InOut EXCEPT !.lb = 0, !.ub = 4] IN
    { Plain, InOut, [InOut EXCEPT !.doubleBuffer = FALSE],
      \* one tile; bounds that are not constant; other reasons not to
      [InOut EXCEPT !.ub = 3], [short EXCEPT !.static = FALSE],
      [short EXCEPT !.iterArgs = TRUE], [short EXCEPT !.inThreads = TRUE],
      [short EXCEPT !.outer = TRUE],
      [short EXCEPT !.outer = TRUE, !.outerTileLoops = TRUE],
      [short EXCEPT !.configs = 2],
      \* strides, wide rows and long transfers
      [InOut EXCEPT !.items[1] = Through(@, Strided), !.items[4] = Through(@, Strided)],
      [InOut EXCEPT !.items[1] = Through(@, View(64, 20000, 64))],
      [short EXCEPT !.items[2] = Through(@, View(4000000, 4000000, 4000000))],
      [short EXCEPT !.items[2] = Through(@, View(64, 64, 96))],
      [short EXCEPT !.items[2] = Through(@, View(64, 0, 64))],
      [short EXCEPT !.items[2] = Through(@, View(0, 0, 0))],
      [short EXCEPT !.items[2].view.cast = TRUE],
      \* a buffer used behind its store, behind the loop, or loaded twice
      Body(<<Stage("a"), Compute(1, {"a"}, "o"), Store("o"), Compute(2, {"a"}, "o")>>),
      Body(<<Stage("a"), Compute(1, {"a"}, "o"), Store("o"),
             Compute(2, {"a", "o"}, "a"), Store("a")>>),
      [short EXCEPT !.after = {"o"}],
      Body(<<Stage("a"), Compute(1, {"a"}, "o"), Stage("a"),
             Compute(2, {"a", "o"}, "o"), Store("o")>>),
      [short EXCEPT !.items[2].nested = TRUE],
      \* a result kept in VTCM from tile to tile: it starts as a staged value and is
      \* updated by slices, or is an operand
      Keeps(Arg(TRUE, {"slice", "insertInto"})), Keeps(Arg(FALSE, {"operand"})),
      \* threads, with scratch that must be padded or can not be
      WithScratch(Plain, 96, 0), WithScratch(short, 96, 64),
      WithScratch(short, 1000, 4096),
      [WithScratch(short, 90, 64) EXCEPT !.allocs["s"].element = 3],
      [WithScratch(short, 96, 64) EXCEPT !.threadsStatic = FALSE],
      [WithScratch(short, 96, 64) EXCEPT !.threadRank = 2],
      [WithScratch(short, 96, 64) EXCEPT !.threadsStatic = FALSE,
                                         !.allocs["s"].inThreads = FALSE],
      [WithScratch(short, 96, 64) EXCEPT !.threadRank = 2,
                                         !.allocs["s"].inThreads = FALSE],
      \* allocations whose alignment pads, at either end
      [short EXCEPT !.allocs["a"] = Alloc(100, 1024), !.allocs["o"] = Alloc(1, 0)],
      [short EXCEPT !.allocs["a"] = Alloc(100, 2048), !.allocs["o"] = Alloc(2049, 4096)],
      [short EXCEPT !.allocs["a"] = Alloc(65536, 128)],
      \* nothing, and an alignment the partition refuses
      [short EXCEPT !.allocs["a"] = Alloc(100, 2048), !.allocs["o"] = Alloc(0, 4096)],
      [short EXCEPT !.allocs["a"] = Alloc(100, 192)],
      [short EXCEPT !.allocs["a"] = Alloc(100, 96)],
      [short EXCEPT !.allocs["a"].inLoop = TRUE],
      [short EXCEPT !.allocs["a"].dynamic = TRUE],
      [short EXCEPT !.allocs["a"].dynamic = TRUE, !.allocs["a"].inLoop = TRUE] }

MCBases == {0, 2048, 6144}
=============================================================================

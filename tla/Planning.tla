------------------------------ MODULE Planning ------------------------------
(***************************************************************************)
(* How the compiler plans one dispatch (CodeGen/Strategy/Planning): relate *)
(* the loops of its operations, select a strategy for the root, find VTCM  *)
(* tiles, select a compute tile for every other operation, bound it by the *)
(* tile of the root, verify the plan, encode it.                           *)
(*                                                                         *)
(* An operation is a record:                                               *)
(*   kind      "named" (matmul, batch_matmul), "generic", "conv2d",        *)
(*             "window" (depthwise convolution, pooling), "copy" (between  *)
(*             buffers), "fill", "linalg" (any other) or "tiling" (no      *)
(*             Linalg operation, without indexing maps)                    *)
(*   iters     "p" or "r" for each loop; extents: their bounds, or Dynamic *)
(*   con       [m, n, k, batch]: sequences of loops if it is a contraction *)
(*   operands  [val, map, init, empty, bytes]; map[d] is the loop that     *)
(*             indexes dimension d of the value, 0 if no single loop does; *)
(*             "empty" marks the result of a tensor.empty; bytes is 0 for  *)
(*             elements that are neither integers nor floats               *)
(*   result    the value it defines                                        *)
(* with tensors (works on tensors, not on buffers), nchw and configured.   *)
(* Operations are in topological order.                                    *)
(***************************************************************************)
EXTENDS Integers, Sequences, FiniteSets, SequencesExt

CONSTANTS
  Dispatches,    \* the dispatches to plan: [translated, ops]
  Options,       \* planning options: [vtcm, doubleBuffer, hmx] of BOOLEANs
  VectorBytes,   \* the native vector size of the target
  HmxTile,       \* side of the hardware's matrix tile
  ContractionTile, GenericReductionTile, CacheTileCap,   \* the preferred tiles
  TileBudget,    \* bytes of VTCM for the tiles of a root
  DynamicSize,   \* what the footprint model takes for a dynamic extent
  Dynamic        \* marks a dynamic extent

ASSUME PlanningAssumption ==
  /\ {VectorBytes, HmxTile, ContractionTile, GenericReductionTile, CacheTileCap} \subseteq Nat \ {0}
  /\ Dynamic \in Int /\ Dynamic < 0
  /\ {TileBudget, DynamicSize} \subseteq Nat

\* Loops have bounds and operands name them; a value is defined before it is read, by one
\* operation.
ASSUME DispatchesAssumption ==
  \A p \in Dispatches :
    /\ p.ops \in Seq(Range(p.ops))
    /\ \A i \in DOMAIN p.ops :
         /\ p.ops[i].iters \in Seq({"p", "r"})
         /\ p.ops[i].extents \in [DOMAIN p.ops[i].iters -> Nat \cup {Dynamic}]
         /\ p.ops[i].operands \in Seq(Range(p.ops[i].operands)) /\ p.ops[i].operands # <<>>
         /\ \A k \in DOMAIN p.ops[i].operands :
              /\ p.ops[i].operands[k].map \in Seq(0..Len(p.ops[i].iters))
              /\ p.ops[i].operands[k].bytes \in Nat
         /\ \A j \in DOMAIN p.ops :
              /\ p.ops[i].result = p.ops[j].result => i = j
              /\ \A k \in DOMAIN p.ops[j].operands : p.ops[j].operands[k].val = p.ops[i].result => i < j

VARIABLES
  input,       \* the dispatch and the options
  stage,       \* the next stage, or "done" or "failed"
  reason,      \* why planning failed, or how it was done
  at,          \* where the analysis is: [op, operand, dim]; before the operands it is at 0
  known,       \* <<value, dimension>> -> the loop that was first seen to index it
  classes,     \* the partition of all loops seen so far, loops are <<op, position>>
  root,        \* index of the root operation
  strategy,    \* [pipeline, peel, dist, cache, hmx, compute, vtcm]
  tiles,       \* op -> compute tile, for the operations other than the root that got one
  config       \* op -> encoded levels

vars == <<input, stage, reason, at, known, classes, root, strategy, tiles, config>>

Ops == input.dispatch.ops
Rank(op) == Len(op.iters)
LoopsOf(op) == 1..Rank(op)
Parallel(op) == {d \in LoopsOf(op) : op.iters[d] = "p"}
Reductions(op) == {d \in LoopsOf(op) : op.iters[d] = "r"}
IsLinalg(op) == op.kind # "tiling"
IsContraction(op) == op.con.k # <<>>
\* The operands that are destinations, and the others.
Inits(op) == {k \in DOMAIN op.operands : op.operands[k].init}
Inputs(op) == DOMAIN op.operands \ Inits(op)

Tile(n) == [size |-> n, fixed |-> FALSE]
FixedTile(n) == [size |-> n, fixed |-> TRUE]
Untiled(op) == [d \in LoopsOf(op) |-> Tile(0)]
AnyTiled(t) == \E d \in DOMAIN t : t[d].size # 0

Fail(why) == stage' = "failed" /\ reason' = why
------------------------------------------------------------------------------
(* Dispatch analysis: a loop per operation and position, united where two   *)
(* operations index the same dimension of a value with a plain loop.        *)

ClassOf(l, part) == CHOOSE c \in part : l \in c
Unite(part, a, b) ==
  LET ca == ClassOf(a, part)
      cb == ClassOf(b, part)
  IN  (part \ {ca, cb}) \cup {ca \cup cb}

\* The loop that indexes dimension d of an operand, 0 if there is none. Without indexing
\* maps a value of the rank of the loops is taken to be indexed by them.
LoopAt(i, k, d) == IF Ops[i].kind = "tiling" THEN d ELSE Ops[i].operands[k].map[d]
\* A mistake the runs must catch: operations that share an uninitialized destination are related.
RelatesAny(i, k) ==
  IF Ops[i].kind = "tiling" THEN Len(Ops[i].operands[k].map) = Rank(Ops[i]) ELSE TRUE
Relates(i, k) ==
  IF Ops[i].kind = "tiling" THEN Len(Ops[i].operands[k].map) = Rank(Ops[i]) ELSE ~ Ops[i].operands[k].empty

Global(i, d) == ClassOf(<<i, d>>, classes)
PresentInRoot(c) == \E d \in LoopsOf(Ops[root]) : <<root, d>> \in c
Level(i, d) ==
  IF Ops[i].iters[d] = "r" THEN "reduction"
  ELSE IF PresentInRoot(Global(i, d)) THEN "common" ELSE "inner"
------------------------------------------------------------------------------
(* Tile sizes.                                                              *)

Least(a, b) == IF a < b THEN a ELSE b
VectorWidth(bytes) == IF bytes = 0 THEN 1 ELSE Max({1, VectorBytes \div bytes})
BoundedBy(extent, n) == IF extent = Dynamic THEN n ELSE Least(extent, n)

\* A divisor of the bound: the cofactors of small divisors first, then small divisors.
ChooseStaticTilingFactor(bound, preferred) ==
  IF preferred <= 0 THEN 0
  ELSE IF bound = Dynamic THEN preferred
  ELSE IF bound <= 0 THEN Least(bound, preferred)
  ELSE LET small == {d \in 1..bound : bound % d = 0 /\ d <= bound \div d}
           fits == {d \in small : bound \div d <= preferred}
           fitsSmall == {d \in small : d <= preferred}
       IN  IF fits # {} THEN bound \div Min(fits) ELSE Max(fitsSmall)

\* One element in every parallel loop but the last, which gets a vector.
InnermostParallelTile(op, bytes) ==
  [d \in LoopsOf(op) |->
     IF d \notin Parallel(op) THEN Tile(0)
     ELSE IF d = Max(Parallel(op)) THEN Tile(BoundedBy(op.extents[d], VectorWidth(bytes)))
     ELSE Tile(1)]

DestBytes(op) == IF Inits(op) = {} THEN op.operands[1].bytes ELSE op.operands[Min(Inits(op))].bytes
DestMap(op) == op.operands[Min(Inits(op))].map

SupportedContraction(op) ==
  Len(op.con.m) = 1 /\ Len(op.con.n) = 1 /\ Len(op.con.k) = 1 /\ Len(op.con.batch) <= 1
TransposedRhs(op) ==
  LET withN == {k \in Inputs(op) : op.con.n[1] \in Range(op.operands[k].map)}
  IN  withN # {} /\ Last(op.operands[Min(withN)].map) = op.con.k[1]
ContractionComputeTile(op, useHmx) ==
  LET width == VectorWidth(DestBytes(op))
      m == op.con.m[1]  n == op.con.n[1]  k == op.con.k[1]
      mTile == IF TransposedRhs(op) THEN 1 ELSE ContractionTile
      nTile == IF TransposedRhs(op) THEN 1 ELSE width
      kTile == IF TransposedRhs(op) THEN width ELSE Least(ContractionTile, width)
  IN  [d \in LoopsOf(op) |->
         CASE d \in Range(op.con.batch) -> Tile(1)
           [] d = m -> IF useHmx THEN FixedTile(HmxTile)
                       ELSE Tile(ChooseStaticTilingFactor(op.extents[m], mTile))
           [] d = n -> IF useHmx THEN FixedTile(HmxTile) ELSE Tile(BoundedBy(op.extents[n], nTile))
           [] d = k -> IF useHmx THEN Tile(0)
                       ELSE Tile(ChooseStaticTilingFactor(op.extents[k], kTile))
           [] OTHER -> Tile(0)]

GenericComputeTile(op) ==
  LET width == VectorWidth(DestBytes(op))
      lastR == IF Reductions(op) = {} THEN 0 ELSE Max(Reductions(op))
      vectorizeR == Cardinality(Parallel(op)) >= 2 /\ lastR = Rank(op)
  IN  [d \in LoopsOf(op) |->
         IF d = lastR
           THEN Tile(ChooseStaticTilingFactor(op.extents[d],
                                              IF vectorizeR THEN width ELSE GenericReductionTile))
         ELSE IF d \in Reductions(op) THEN Tile(0)
         ELSE IF d # Max(Parallel(op)) \/ vectorizeR THEN Tile(1)
         ELSE Tile(BoundedBy(op.extents[d], width))]

IsConvolution(op) == op.kind \in {"conv2d", "window"}
ConvolutionDistributionTile(op) ==
  LET w == VectorWidth(DestBytes(op))
      nhwc == IF op.kind = "conv2d" THEN <<1, 1, w, w, 1, 1, w>> ELSE <<1, 1, w, w, 1, w>>
      perm == IF op.kind = "conv2d" THEN <<1, 4, 2, 3, 7, 5, 6>> ELSE <<1, 4, 2, 3, 5, 6>>
      preferred == IF op.nchw THEN [p \in DOMAIN perm |-> nhwc[perm[p]]] ELSE nhwc
  IN  [d \in LoopsOf(op) |->
         IF d \notin Parallel(op) THEN Tile(0)
         ELSE Tile(ChooseStaticTilingFactor(op.extents[d],
                                            IF d \in DOMAIN preferred THEN preferred[d] ELSE 1))]
ConvolutionComputeTile(op) ==
  [d \in LoopsOf(op) |->
     IF d \in Parallel(op) /\ d # Last(DestMap(op)) THEN Tile(1)
     ELSE ConvolutionDistributionTile(op)[d]]
------------------------------------------------------------------------------
(* Strategies of the root, in the order they are tried.                     *)

Strategy(pipeline, peel, dist, cache, hmx, compute) ==
  [pipeline |-> pipeline, peel |-> peel, dist |-> dist, cache |-> cache, hmx |-> hmx,
   compute |-> compute, vtcm |-> <<>>]

HmxTypes(op) == DestBytes(op) \in {2, 4} /\ \A k \in Inputs(op) : op.operands[k].bytes = 2
MBeforeN(op) == LET place(l) == CHOOSE p \in DOMAIN DestMap(op) : DestMap(op)[p] = l
                IN  place(op.con.m[1]) < place(op.con.n[1])
HmxLowerable(op) == op.kind = "named" /\ HmxTypes(op) /\ SupportedContraction(op) /\ MBeforeN(op)

MakeDefaultStrategy(op) == Strategy("Default", FALSE, Untiled(op), Untiled(op), <<>>, Untiled(op))

\* A candidate matches the root or not: one strategy, or none.
NoMatch == {}
Match(s) == {s}
FirstMatch(candidates, none) ==
  LET matching == {c \in DOMAIN candidates : candidates[c] # NoMatch}
  IN  IF matching = {} THEN none ELSE CHOOSE s \in candidates[Min(matching)] : TRUE

SelectBufferCopyStrategy(op) ==
  IF op.kind # "copy" THEN NoMatch
  ELSE LET compute == InnermostParallelTile(op, DestBytes(op))
       IN  Match(Strategy("BufferOps", FALSE, compute, Untiled(op), <<>>, compute))
SelectConvolutionStrategy(op) ==
  IF ~ IsConvolution(op) THEN NoMatch
  ELSE Match(Strategy("Conv", FALSE, ConvolutionDistributionTile(op), Untiled(op), <<>>,
                      ConvolutionComputeTile(op)))
SelectHmxStrategy(op) ==
  IF ~ input.options.hmx \/ ~ IsContraction(op) \/ ~ HmxLowerable(op) THEN NoMatch
  ELSE Match(Strategy("Hmx", FALSE, Untiled(op), Untiled(op),
                      [d \in LoopsOf(op) |-> IF d \in Range(op.con.batch) THEN FixedTile(1) ELSE Tile(0)],
                      ContractionComputeTile(op, TRUE)))
SelectContractionStrategy(op) ==
  IF ~ IsContraction(op) \/ ~ SupportedContraction(op) THEN NoMatch
  ELSE LET cache == [d \in LoopsOf(op) |->
                       IF d \in {op.con.m[1], op.con.n[1]}
                         THEN Tile(ChooseStaticTilingFactor(op.extents[d], CacheTileCap))
                       ELSE IF d \in Range(op.con.batch) THEN Tile(1)
                       ELSE Tile(0)]
       IN  Match(Strategy("MultiTiling", op.tensors, Untiled(op), cache, <<>>, ContractionComputeTile(op, FALSE)))
SelectUnsupportedContractionFallback(op) ==
  IF ~ IsContraction(op) \/ SupportedContraction(op) THEN NoMatch ELSE Match(MakeDefaultStrategy(op))
SelectGenericStrategy(op) ==
  IF op.kind # "generic" THEN NoMatch
  ELSE LET cache == [d \in LoopsOf(op) |->
                       IF d \in Parallel(op) /\ d # Max(Parallel(op))
                         THEN Tile(ChooseStaticTilingFactor(op.extents[d], CacheTileCap)) ELSE Tile(0)]
       IN  Match(Strategy("MultiTiling", op.tensors, Untiled(op), cache, <<>>, GenericComputeTile(op)))
SelectTilingInterfaceStrategy(op) ==
  LET linalg == op.kind # "tiling"
  IN  Match(Strategy(IF linalg THEN "MultiTiling" ELSE "Default", linalg /\ op.tensors,
                     Untiled(op), Untiled(op), <<>>, InnermostParallelTile(op, DestBytes(op))))

SelectedStrategy(op) ==
  FirstMatch(<<SelectBufferCopyStrategy(op), SelectConvolutionStrategy(op), SelectHmxStrategy(op),
               SelectContractionStrategy(op), SelectUnsupportedContractionFallback(op),
               SelectGenericStrategy(op), SelectTilingInterfaceStrategy(op)>>,
             MakeDefaultStrategy(op))

(* What the lowering pipelines consume. *)
Scope(common, reduction, inner) == [common |-> common, reduction |-> reduction, inner |-> inner]
Contract(pipeline) ==
  CASE pipeline = "BufferOps" ->
         [anchor |-> FALSE, cache |-> FALSE, hmx |-> FALSE, scope |-> Scope("every", "unused", "unused"),
          refines |-> FALSE, vectors |-> TRUE, others |-> TRUE, vtcm |-> "unsupported", peels |-> TRUE]
    [] pipeline = "MultiTiling" ->
         [anchor |-> TRUE, cache |-> TRUE, hmx |-> FALSE, scope |-> Scope("root", "every", "lastOnEachSide"),
          refines |-> TRUE, vectors |-> TRUE, others |-> TRUE, vtcm |-> "optional", peels |-> TRUE]
    [] pipeline = "Hmx" ->
         [anchor |-> TRUE, cache |-> FALSE, hmx |-> TRUE, scope |-> Scope("root", "unused", "lastOnEachSide"),
          refines |-> TRUE, vectors |-> TRUE, others |-> TRUE, vtcm |-> "required", peels |-> FALSE]
    [] pipeline = "Conv" ->
         [anchor |-> TRUE, cache |-> FALSE, hmx |-> FALSE, scope |-> Scope("root", "root", "unused"),
          refines |-> FALSE, vectors |-> TRUE, others |-> FALSE, vtcm |-> "unsupported", peels |-> TRUE]
    [] pipeline = "Default" ->
         [anchor |-> FALSE, cache |-> FALSE, hmx |-> FALSE, scope |-> Scope("lastOnEachSide", "unused", "unused"),
          refines |-> FALSE, vectors |-> FALSE, others |-> FALSE, vtcm |-> "unsupported", peels |-> FALSE]
contract == Contract(strategy.pipeline)
Refinable(op) == contract.refines /\ op.kind # "fill"
------------------------------------------------------------------------------
(* Preflight and analysis.                                                  *)

Init ==
  /\ input \in [dispatch : Dispatches, options : Options]
  /\ stage = "preflight"
  /\ reason = "none"
  /\ at = [op |-> 1, operand |-> 0, dim |-> 1]
  /\ known = <<>>
  /\ classes = {}
  /\ root = 0
  /\ strategy = <<>>
  /\ tiles = <<>>
  /\ config = <<>>

Eligible(i) == Rank(Ops[i]) > 0

\* A translated dispatch is left alone, one without compute operations gets the default
\* pipeline, one that already has a lowering configuration is an error.
Preflight ==
  /\ stage = "preflight"
  /\ CASE input.dispatch.translated -> stage' = "done" /\ reason' = "translated"
       [] ~ input.dispatch.translated /\ Ops = <<>> -> stage' = "done" /\ reason' = "default"
       [] ~ input.dispatch.translated /\ \E o \in Range(Ops) : o.configured -> Fail("configured")
       [] OTHER -> stage' = "analyze" /\ UNCHANGED reason
  /\ UNCHANGED <<input, at, known, classes, root, strategy, tiles, config>>

\* The operations one after the other: fresh loops, then every dimension of every operand,
\* then the result.
NumberLoops ==
  /\ stage = "analyze" /\ at.op \in DOMAIN Ops /\ at.operand = 0
  /\ IF Eligible(at.op)
       THEN /\ classes' = classes \cup {{<<at.op, d>>} : d \in LoopsOf(Ops[at.op])}
            /\ at' = [at EXCEPT !.operand = 1]
       ELSE at' = [at EXCEPT !.op = @ + 1] /\ UNCHANGED classes
  /\ UNCHANGED <<input, stage, reason, known, root, strategy, tiles, config>>

AtOperand == stage = "analyze" /\ at.op \in DOMAIN Ops /\ at.operand \in DOMAIN Ops[at.op].operands
Operand == Ops[at.op].operands[at.operand]

\* The first reader of a dimension of a value records its loop; later ones unite with it.
ReadDimension ==
  /\ AtOperand /\ at.dim \in DOMAIN Operand.map
  /\ LET x == <<Operand.val, at.dim>>
         loop == <<at.op, LoopAt(at.op, at.operand, at.dim)>>
     IN  CASE ~ Relates(at.op, at.operand) \/ loop[2] = 0 -> UNCHANGED <<known, classes>>
           [] Relates(at.op, at.operand) /\ loop[2] # 0 /\ x \notin DOMAIN known ->
                /\ known' = [y \in DOMAIN known \cup {x} |-> IF y = x THEN loop ELSE known[y]]
                /\ UNCHANGED classes
           [] OTHER -> classes' = Unite(classes, known[x], loop) /\ UNCHANGED known
  /\ at' = [at EXCEPT !.dim = @ + 1]
  /\ UNCHANGED <<input, stage, reason, root, strategy, tiles, config>>

NextOperand ==
  /\ AtOperand /\ at.dim \notin DOMAIN Operand.map
  /\ at' = [at EXCEPT !.operand = @ + 1, !.dim = 1]
  /\ UNCHANGED <<input, stage, reason, known, classes, root, strategy, tiles, config>>

\* The result has the dimensions of the destination it is tied to.
ResultDims(i) ==
  LET k == Min(Inits(Ops[i]))
      ranked == Ops[i].kind = "tiling" => Len(Ops[i].operands[k].map) = Rank(Ops[i])
  IN  IF Inits(Ops[i]) = {} \/ ~ ranked THEN {}
      ELSE {d \in DOMAIN Ops[i].operands[k].map : LoopAt(i, k, d) # 0}
DefineResult ==
  /\ stage = "analyze" /\ at.op \in DOMAIN Ops /\ at.operand = Len(Ops[at.op].operands) + 1
  /\ LET v == Ops[at.op].result
         old == {x \in DOMAIN known : x[1] # v}
     IN  known' = [x \in old \cup {<<v, d>> : d \in ResultDims(at.op)} |->
                     IF x[1] = v THEN <<at.op, LoopAt(at.op, Min(Inits(Ops[at.op])), x[2])>> ELSE known[x]]
  /\ at' = [op |-> at.op + 1, operand |-> 0, dim |-> 1]
  /\ UNCHANGED <<input, stage, reason, classes, root, strategy, tiles, config>>

\* IREE chooses the root among the compute operations.
ChooseRoot(i) ==
  /\ stage = "analyze"
  /\ at.op \notin DOMAIN Ops
  /\ IF Eligible(i) THEN root' = i /\ stage' = "strategy" /\ UNCHANGED reason
                    ELSE stage' = "done" /\ reason' = "default" /\ UNCHANGED root
  /\ UNCHANGED <<input, at, known, classes, strategy, tiles, config>>

SelectStrategy ==
  /\ stage = "strategy"
  /\ strategy' = SelectedStrategy(Ops[root])
  /\ stage' = "vtcm"
  /\ UNCHANGED <<input, reason, at, known, classes, root, tiles, config>>
------------------------------------------------------------------------------
(* VTCM tiles. The search belongs to hexagon-mlir: it returns tiles whose   *)
(* footprint fits, or gives up; it only shrinks the dimensions it is given. *)

Product(ns) == FoldLeft(LAMBDA p, n : p * n, 1, ns)
Extent(op, d) == IF op.extents[d] = Dynamic THEN DynamicSize ELSE op.extents[d]
Footprint(op, t) ==
  FoldLeft(LAMBDA sum, o : sum + o.bytes * Product([p \in DOMAIN o.map |-> IF o.map[p] = 0 THEN 1 ELSE t[o.map[p]]]),
           0, op.operands)
Searched(op, budget, dims) ==
  {t \in [LoopsOf(op) -> UNION {1..Extent(op, d) : d \in LoopsOf(op)}] :
     /\ \A d \in LoopsOf(op) : IF d \in dims THEN t[d] <= Extent(op, d) ELSE t[d] = Extent(op, d)
     /\ Footprint(op, t) \in 0..budget}
  \cup {<<>>}

SearchBudget == IF input.options.doubleBuffer THEN TileBudget \div 2 ELSE TileBudget
\* A mistake the runs must catch: what the search returned is taken as it is.
KeepsAnything(op, t) == TRUE
KeepsReductionsWhole(op, t) == \A d \in Reductions(op) : t[d] = op.extents[d]
UnboundedFootprint(op) ==
  (\E o \in Range(op.operands) : o.bytes = 0) \/ (\E d \in Reductions(op) : op.extents[d] = Dynamic)

StagedTiles(op) ==
  {t \in Searched(op, SearchBudget, LoopsOf(op)) : t # <<>> /\ KeepsReductionsWhole(op, t)}
  \cup (IF Parallel(op) = {} THEN {<<>>} ELSE Searched(op, SearchBudget, Parallel(op)))

VtcmUnavailable ==
  /\ IF contract.vtcm = "required" THEN Fail("required VTCM")
                                   ELSE stage' = "compute" /\ UNCHANGED reason
  /\ UNCHANGED strategy
VtcmPlanned(t) ==
  /\ strategy' = [strategy EXCEPT !.vtcm = [d \in DOMAIN t |-> Tile(t[d])],
                                  !.cache = [d \in DOMAIN @ |-> [@[d] EXCEPT !.size = 0]]]
  /\ stage' = "compute"
  /\ UNCHANGED reason

PlanVtcm ==
  /\ stage = "vtcm"
  /\ LET op == Ops[root]
     IN  IF contract.vtcm = "unsupported" THEN stage' = "compute" /\ UNCHANGED <<reason, strategy>>
         ELSE IF ~ input.options.vtcm \/ ~ IsLinalg(op) \/ ~ op.tensors \/ UnboundedFootprint(op)
           THEN VtcmUnavailable
         ELSE \E t \in StagedTiles(op) : IF t = <<>> THEN VtcmUnavailable ELSE VtcmPlanned(t)
  /\ UNCHANGED <<input, at, known, classes, root, tiles, config>>
------------------------------------------------------------------------------
(* Compute tiles of the other operations, each from its own shape, and then *)
(* bounded by the tile of the root.                                         *)

SelectBufferCopyComputeTile(op) ==
  IF op.kind = "copy" THEN Match(InnermostParallelTile(op, DestBytes(op))) ELSE NoMatch
SelectConvolutionComputeTile(op) == IF IsConvolution(op) THEN Match(ConvolutionComputeTile(op)) ELSE NoMatch
SelectContractionComputeTile(op) ==
  IF IsContraction(op) /\ SupportedContraction(op)
    THEN Match(ContractionComputeTile(op, strategy.pipeline = "Hmx" /\ HmxTypes(op))) ELSE NoMatch
SelectGenericComputeTile(op) == IF op.kind = "generic" THEN Match(GenericComputeTile(op)) ELSE NoMatch
SelectTilingInterfaceComputeTile(op) == Match(InnermostParallelTile(op, DestBytes(op)))

OwnComputeTile(op) ==
  FirstMatch(<<SelectBufferCopyComputeTile(op), SelectConvolutionComputeTile(op), SelectContractionComputeTile(op),
               SelectGenericComputeTile(op), SelectTilingInterfaceComputeTile(op)>>, Untiled(op))

Others == {i \in DOMAIN Ops : Eligible(i) /\ i # root}

SelectComputeTiles ==
  /\ stage = "compute"
  /\ tiles' = [i \in IF contract.others THEN Others ELSE {} |-> OwnComputeTile(Ops[i])]
  /\ stage' = "reconcile"
  /\ UNCHANGED <<input, reason, at, known, classes, root, strategy, config>>

\* The producers that fusion pulls into the reduction loop of the root.
ReadBy(i) == {j \in DOMAIN Ops : \E o \in Range(Ops[i].operands) : o.val = Ops[j].result}
InputProducers ==
  LET first == {j \in DOMAIN Ops : \E k \in Inputs(Ops[root]) : Ops[root].operands[k].val = Ops[j].result}
  IN  {j \in DOMAIN Ops : \A s \in SUBSET DOMAIN Ops :
         first \subseteq s /\ (\A i \in s : ReadBy(i) \subseteq s) => j \in s}

RootTiles(iter, c) ==
  {d \in LoopsOf(Ops[root]) :
     Ops[root].iters[d] = iter /\ <<root, d>> \in c /\ strategy.compute[d].size # 0}
Bound(i, c) ==
  IF RootTiles("p", c) # {} THEN strategy.compute[Min(RootTiles("p", c))].size
  ELSE IF i \in InputProducers /\ RootTiles("r", c) # {} THEN strategy.compute[Min(RootTiles("r", c))].size
  ELSE 0
Bounded(i, d) == Level(i, d) = "common" /\ Bound(i, Global(i, d)) # 0 /\ tiles[i][d].size # 0
\* A mistake the runs must catch: what cannot be tiled further is only made to fit.
FittedTile(i, d) == ChooseStaticTilingFactor(Bound(i, Global(i, d)), tiles[i][d].size)
BoundedTile(i, d) ==
  IF Refinable(Ops[i]) THEN ChooseStaticTilingFactor(Bound(i, Global(i, d)), tiles[i][d].size)
                       ELSE Bound(i, Global(i, d))
Adjusted(i, d) == Bounded(i, d) /\ BoundedTile(i, d) # tiles[i][d].size

Reconcile ==
  /\ stage = "reconcile"
  /\ IF contract.scope.common = "root"
       THEN IF \E i \in DOMAIN tiles : \E d \in DOMAIN tiles[i] : Adjusted(i, d) /\ tiles[i][d].fixed
              THEN Fail("hardware-fixed") /\ UNCHANGED tiles
              ELSE /\ tiles' = [i \in DOMAIN tiles |-> [d \in DOMAIN tiles[i] |->
                                  IF Adjusted(i, d) THEN [tiles[i][d] EXCEPT !.size = BoundedTile(i, d)]
                                                    ELSE tiles[i][d]]]
                   /\ stage' = "verify"
                   /\ UNCHANGED reason
       ELSE stage' = "verify" /\ UNCHANGED <<reason, tiles>>
  /\ UNCHANGED <<input, at, known, classes, root, strategy, config>>
------------------------------------------------------------------------------
(* Verification, encoding.                                                  *)

AllTiles == [i \in DOMAIN tiles \cup {root} |-> IF i = root THEN strategy.compute ELSE tiles[i]]

ShapeVerifies ==
  /\ \A i \in DOMAIN Ops : Eligible(i) => \A d \in LoopsOf(Ops[i]) : \E c \in classes : <<i, d>> \in c
  /\ {} \notin classes
RequirementsVerify ==
  /\ strategy.peel => contract.peels
  /\ contract.vtcm = "required" => strategy.vtcm # <<>>
  /\ contract.vtcm = "unsupported" => strategy.vtcm = <<>>
  /\ strategy.vtcm # <<>> => ~ AnyTiled(strategy.cache)
RootVerifies ==
  /\ \A t \in {strategy.dist, strategy.cache, strategy.compute} : Len(t) = Rank(Ops[root])
  /\ \A t \in {strategy.hmx, strategy.vtcm} : t # <<>> => Len(t) = Rank(Ops[root])
  /\ \A t \in {strategy.dist, strategy.cache, strategy.compute, strategy.hmx, strategy.vtcm} :
       \A d \in DOMAIN t : t[d].size >= 0
  /\ AnyTiled(strategy.cache) => contract.cache
  /\ AnyTiled(strategy.hmx) => contract.hmx
FitsRoot(i, d) ==
  LET size == tiles[i][d].size
      bound == Bound(i, Global(i, d))
  IN  Bounded(i, d) => size <= bound /\ bound % size = 0 /\ (Refinable(Ops[i]) \/ size = bound)
TilesVerify ==
  /\ tiles # <<>> => contract.others
  /\ \A i \in DOMAIN tiles :
       /\ i \in Others
       /\ \A d \in DOMAIN tiles[i] : tiles[i][d].size >= 0
       /\ contract.scope.common = "root" => \A d \in DOMAIN tiles[i] : FitsRoot(i, d)

\* Every level of every tile has a consumer in the pipeline.
Carrying(level) ==
  {i \in DOMAIN AllTiles : \E d \in DOMAIN AllTiles[i] : AllTiles[i][d].size # 0 /\ Level(i, d) = level}
HasAnchor == contract.anchor \/ AnyTiled(strategy.dist)
LastOnEachSide(s) ==
  IF HasAnchor
    THEN {i \in s : i # root /\ \A j \in s : (j < root <=> i < root) /\ j # root => j <= i}
    ELSE {i \in s : \A j \in s : j <= i}
LoopConsumes(level, s) ==
  CASE contract.scope[level] = "unused" -> {}
    [] contract.scope[level] = "root" -> s \cap {root}
    [] contract.scope[level] = "every" -> s
    [] contract.scope[level] = "lastOnEachSide" -> LastOnEachSide(s)
ConsumptionVerifies ==
  \A level \in {"common", "reduction", "inner"} :
    contract.refines \/ contract.vectors \/ Carrying(level) \subseteq LoopConsumes(level, Carrying(level))

PlanVerifies == ShapeVerifies /\ RequirementsVerify /\ RootVerifies /\ TilesVerify /\ ConsumptionVerifies

Verify ==
  /\ stage = "verify"
  /\ IF PlanVerifies THEN stage' = "encode" /\ UNCHANGED reason ELSE Fail("verification")
  /\ UNCHANGED <<input, at, known, classes, root, strategy, tiles, config>>

\* One entry per tiling level that has a tile; the anchor keeps its distribution level.
Sizes(t) == [d \in DOMAIN t |-> t[d].size]
LevelSizes(i, t, level) == [d \in DOMAIN t |-> IF Level(i, d) = level THEN t[d].size ELSE 0]
Given(levels, anchor) ==
  {l \in DOMAIN levels : levels[l] # <<>> /\ (\E d \in DOMAIN levels[l] : levels[l][d] # 0
                                            \/ (anchor /\ l = "distribution"))}
Encoded(i) ==
  LET t == AllTiles[i]
      r == i = root
      levels == [distribution |-> IF r THEN Sizes(strategy.dist) ELSE <<>>,
                 cache |-> IF r THEN Sizes(strategy.cache) ELSE <<>>,
                 common |-> LevelSizes(i, t, "common"), reduction |-> LevelSizes(i, t, "reduction"),
                 inner |-> LevelSizes(i, t, "inner"),
                 vtcm |-> IF r THEN Sizes(strategy.vtcm) ELSE <<>>,
                 hmx |-> IF r THEN Sizes(strategy.hmx) ELSE <<>>]
  IN  [l \in Given(levels, r /\ contract.anchor) |-> levels[l]]
Anchors == {i \in DOMAIN AllTiles : "distribution" \in DOMAIN Encoded(i)}

EncodeAndApply ==
  /\ stage = "encode"
  /\ contract.anchor => Anchors = {root}
  /\ config' = [i \in {i \in DOMAIN AllTiles : DOMAIN Encoded(i) # {}} |-> Encoded(i)]
  /\ stage' = "done"
  /\ reason' = "planned"
  /\ UNCHANGED <<input, at, known, classes, root, strategy, tiles>>

Next ==
  \/ Preflight
  \/ NumberLoops \/ ReadDimension \/ NextOperand \/ DefineResult
  \/ \E i \in DOMAIN Ops : ChooseRoot(i)
  \/ SelectStrategy \/ PlanVtcm \/ SelectComputeTiles \/ Reconcile \/ Verify \/ EncodeAndApply

Spec == Init /\ [][Next]_vars
------------------------------------------------------------------------------
\* The values whose dimensions an operand describes: the one it reads, unless that is an
\* uninitialized destination, and the result tied to it.
ValuesOf(i, k) ==
  {v \in {Ops[i].operands[k].val, Ops[i].result} :
     /\ Ops[i].kind = "tiling" => Len(Ops[i].operands[k].map) = Rank(Ops[i])
     /\ \/ v = Ops[i].operands[k].val /\ (Ops[i].kind = "tiling" \/ ~ Ops[i].operands[k].empty)
        \/ v = Ops[i].result /\ Inits(Ops[i]) # {} /\ k = Min(Inits(Ops[i]))}
\* Two loops index the same dimension of a value.
SameDimension(l, m) ==
  \E k \in DOMAIN Ops[l[1]].operands : \E n \in DOMAIN Ops[m[1]].operands :
    /\ ValuesOf(l[1], k) \cap ValuesOf(m[1], n) # {}
    /\ \E d \in DOMAIN Ops[l[1]].operands[k].map \cap DOMAIN Ops[m[1]].operands[n].map :
         LoopAt(l[1], k, d) = l[2] /\ LoopAt(m[1], n, d) = m[2]

\* The analysis partitions the loops of the dispatch into the connected components of the
\* values: loops that index the same dimension of a value are one dimension of the dispatch,
\* and no dimension has two parts that no value connects. Sharing the destination of a
\* tensor.empty connects nothing.
AnalysisIsConnectivity ==
  stage = "strategy" =>
    /\ UNION classes = UNION {{<<i, d>> : d \in LoopsOf(Ops[i])} : i \in DOMAIN Ops}
    /\ \A c, e \in classes : c # e => c \cap e = {}
    /\ \A c \in classes :
         /\ \A l \in c : \A m \in UNION classes : SameDimension(l, m) => m \in c
         /\ \A s \in (SUBSET c) \ {{}, c} : \E l \in s, m \in c \ s : SameDimension(l, m)

\* The stages agree with each other: what selection and reconciliation produce passes
\* verification and encodes with one anchor, so planning fails only for a configured
\* operation, required VTCM that is not there, or a hardware tile that cannot be fused.
VerifierAgrees ==
  /\ stage = "verify" => PlanVerifies
  /\ stage = "encode" => (contract.anchor => Anchors = {root})
  /\ stage = "done" /\ reason = "planned" =>
       \A i \in DOMAIN config : \A d \in LoopsOf(Ops[i]) :
         \A l, k \in DOMAIN config[i] \cap {"common", "reduction", "inner"} :
           config[i][l][d] # 0 /\ config[i][k][d] # 0 => l = k

\* What the VTCM tiling pass stages, which is every reduction whole, fits into the budget,
\* twice if transfers are double buffered, and nothing is tiled for the cache as well.
StagedTilesFit ==
  stage = "done" /\ reason = "planned" /\ strategy.vtcm # <<>> =>
    LET op == Ops[root]
        staged == [d \in LoopsOf(op) |-> IF d \in Reductions(op) THEN Extent(op, d) ELSE strategy.vtcm[d].size]
    IN  /\ Footprint(op, staged) * (IF input.options.doubleBuffer THEN 2 ELSE 1) <= TileBudget
        /\ "cache" \notin DOMAIN config[root]
============================================================================

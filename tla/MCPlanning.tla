----------------------------- MODULE MCPlanning -----------------------------
(* Dispatches around a matmul, and one or two of every other kind of root. *)
EXTENDS Planning

In(v, map) == [val |-> v, map |-> map, init |-> FALSE, empty |-> FALSE, bytes |-> 2]
Out(v, map) == [val |-> v, map |-> map, init |-> TRUE, empty |-> FALSE, bytes |-> 4]
Empty(v, map) == [val |-> v, map |-> map, init |-> TRUE, empty |-> TRUE, bytes |-> 2]
NoCon == [m |-> <<>>, n |-> <<>>, k |-> <<>>, batch |-> <<>>]
Op(kind, iters, extents, con, operands, result) ==
  [kind |-> kind, iters |-> iters, extents |-> extents, con |-> con, operands |-> operands,
   result |-> result, tensors |-> kind # "copy", nchw |-> FALSE, configured |-> FALSE]
MatmulCon == [m |-> <<1>>, n |-> <<2>>, k |-> <<3>>, batch |-> <<>>]
BatchCon == [m |-> <<2>>, n |-> <<3>>, k |-> <<4>>, batch |-> <<1>>]

\* A fill of the accumulator and a producer of the left side (which share a tensor.empty
\* when their shapes agree), the matmul, and a consumer, possibly transposing.
AroundMatmul(m, n, k, rhsMap, consumerMap, outer) ==
  << Op("fill", <<"p", "p">>, <<m, n>>, NoCon, <<Empty("e", <<1, 2>>)>>, "acc"),
     Op("generic", <<"p", "p">>, <<m, k>>, NoCon,
        <<In("x", <<1, 2>>), Empty(IF n = k THEN "e" ELSE "f", <<1, 2>>)>>, "lhs"),
     Op("named", <<"p", "p", "r">>, <<m, n, k>>, MatmulCon,
        <<In("lhs", <<1, 3>>), In("rhs", rhsMap), Out("acc", <<1, 2>>)>>, "prod"),
     Op("generic", outer, IF Len(outer) = 2 THEN <<m, n>> ELSE <<m, n, k>>, NoCon,
        IF Len(outer) = 2 THEN <<In("prod", consumerMap), Empty("g", <<1, 2>>)>>
                          ELSE <<In("prod", consumerMap), In("lhs", <<1, 3>>), Empty("g", <<1, 2, 3>>)>>, "out") >>
MatmulDispatches ==
  { AroundMatmul(m, n, k, <<3, 2>>, <<1, 2>>, <<"p", "p">>) : m \in {3, Dynamic}, n \in {4, 6}, k \in {3, 4, Dynamic} }
  \cup { AroundMatmul(4, 4, 4, <<2, 3>>, c, o) : c \in {<<1, 2>>, <<2, 1>>},
                                               o \in {<<"p", "p">>, <<"p", "p", "p">>, <<"p", "p", "r">>} }

\* The rows of the consumer are the batch of the root.
Batched(second) ==
  << Op("named", <<"p", "p", "p", "r">>, <<2, 4, 4, 2>>, BatchCon,
        <<In("x", <<1, 2, 4>>), In("y", <<1, 4, 3>>), Out("acc", <<1, 2, 3>>)>>, "prod"),
     Op("named", <<"p", "p", "r">>, <<2, 4, 4>>, MatmulCon,
        <<In(second, <<1, 3>>), In("w", <<3, 2>>), Out("acc2", <<1, 2>>)>>, "out"),
     Op("generic", <<"p", "p", "p">>, <<2, 4, 4>>, NoCon,
        <<In("prod", <<1, 2, 3>>), In("out", <<1, 0>>), Out("acc3", <<1, 2, 3>>)>>, "sum") >>

Conv(kind, nchw) ==
  LET pooling == kind = "window"
      iters == IF pooling THEN <<"p", "p", "p", "p", "r", "r">> ELSE <<"p", "p", "p", "p", "r", "r", "r">>
      extents == IF pooling THEN <<1, 2, 4, 4, 2, 2>> ELSE <<1, 2, 4, 6, 2, 2, 3>>
  IN  << [Op(kind, iters, extents, NoCon, <<In("img", <<1, 0, 0, 4>>), Out("acc", <<1, 2, 3, 4>>)>>, "conv")
            EXCEPT !.nchw = nchw],
         Op("generic", <<"p", "p", "p", "p">>, SubSeq(extents, 1, 4), NoCon,
            <<In("conv", <<1, 2, 3, 4>>), Empty("e", <<1, 2, 3, 4>>)>>, "out") >>

Rest ==
  { << Op("copy", <<"p", "p">>, <<3, 6>>, NoCon, <<In("x", <<1, 2>>), Out("y", <<1, 2>>)>>, "none"),
       Op("copy", <<"p">>, <<2>>, NoCon, <<In("z", <<1>>), Out("y2", <<1>>)>>, "none2") >>,
    << Op("tiling", <<"p", "r">>, <<Dynamic, 4>>, NoCon, <<In("x", <<1, 1>>), Out("y", <<1>>)>>, "t"),
       Op("tiling", <<"p">>, <<Dynamic>>, NoCon, <<In("t", <<1>>), Out("y3", <<1>>)>>, "u"),
       Op("linalg", <<"p">>, <<Dynamic>>, NoCon, <<In("u", <<1>>), Empty("e", <<1>>)>>, "v") >>,
    << Op("generic", <<"p", "p", "r">>, <<2, 3, 6>>, NoCon,
          <<In("x", <<1, 2, 3>>), Out("y", <<1, 2>>)>>, "rowmax"),
       Op("generic", <<"p", "p", "p">>, <<2, 3, 6>>, NoCon,
          <<In("x", <<1, 2, 3>>), In("rowmax", <<1, 2>>), [Out("z", <<1, 2, 3>>) EXCEPT !.bytes = 0]>>, "out") >>,
    << Op("generic", <<"r">>, <<6>>, NoCon, <<In("x", <<1>>), Out("y", <<>>)>>, "sum"),
       Op("generic", <<>>, <<>>, NoCon, <<In("sum", <<>>), Out("z", <<>>)>>, "sqrt") >>,
    << Op("generic", <<"p", "r", "r">>, <<2, 3, 2>>, [m |-> <<1>>, n |-> <<>>, k |-> <<2, 3>>, batch |-> <<>>],
          <<In("x", <<1, 2, 3>>), In("y", <<2, 3>>), Out("z", <<1>>)>>, "dot") >> }

MCDispatches ==
  [translated : {FALSE},
   ops : MatmulDispatches \cup Rest \cup {Batched("prod2"), Batched("x2"), Batched("prod")}
           \cup {Conv(k, n) : k \in {"conv2d", "window"}, n \in BOOLEAN}]
  \cup {[translated |-> TRUE, ops |-> <<>>], [translated |-> FALSE, ops |-> <<>>],
        [translated |-> FALSE,
         ops |-> <<[Op("fill", <<"p">>, <<2>>, NoCon, <<Empty("e", <<1>>)>>, "x") EXCEPT !.configured = TRUE]>>]}
MCOptions == [vtcm : BOOLEAN, doubleBuffer : BOOLEAN, hmx : BOOLEAN]
MCDynamic == -1
============================================================================

---------------------------- MODULE MCHostQueue ----------------------------
(* Two callers that share buffers, command buffers and descriptors. *)
EXTENDS HostQueue, TLC

CONSTANTS t1, t2, b1, b2, b3, c1, c2, sa, sb

At1(s) == [s |-> s, v |-> 1]
At2(s) == [s |-> s, v |-> 2]
Allocate(b, w, g) == [kind |-> "alloca", buf |-> b, wait |-> w, signal |-> g]
Deallocate(b, w, g) == [kind |-> "dealloca", buf |-> b, wait |-> w, signal |-> g]
Unref(b, w, g) == [kind |-> "release", buf |-> b, wait |-> w, signal |-> g]
Record(c, cmds, w, g) ==
  [kind |-> "record", cmdBuf |-> c, cmds |-> cmds, retained |-> TRUE, wait |-> w, signal |-> g]
Unretained(op) == [op EXCEPT !.retained = FALSE]
Execute(c, bufs, w, g) == [kind |-> "execute", cmdBuf |-> c, bindings |-> bufs, wait |-> w, signal |-> g]
UnrefCmdBuf(c, w, g) == [kind |-> "releaseCmdBuf", cmdBuf |-> c, wait |-> w, signal |-> g]

\* One caller allocates and frees, the other records and executes. b1 is only kept
\* by the command buffer when it runs; b3 can get the descriptor of b1, and is not
\* kept by the command buffer that it is recorded into.
Pipeline ==
  (t1 :> << Allocate(b1, {}, <<At1(sa)>>),
            Allocate(b2, {}, <<At2(sa)>>),
            Unref(b1, {At1(sb)}, <<>>),
            Deallocate(b2, {At2(sb)}, <<>>),
            Allocate(b3, {}, <<>>),
            Unretained(Record(c2, <<{b3}>>, {}, <<>>)),
            Execute(c2, {}, {}, <<>>),
            Unref(b3, {}, <<>>),
            UnrefCmdBuf(c2, {}, <<>>) >>)
    @@
  (t2 :> << Record(c1, <<{b1}, {}>>, {At1(sa)}, <<At1(sb)>>),
            Execute(c1, {b2}, {At2(sa)}, <<At2(sb)>>),
            Execute(c1, {}, {}, <<>>),
            UnrefCmdBuf(c1, {}, <<>>) >>)

\* Both callers execute at the same time, on a shared buffer and on their own.
Concurrent ==
  (t1 :> << Allocate(b1, {}, <<>>),
            Allocate(b2, {}, <<At1(sa)>>),
            Record(c1, <<{b1, b2}, {b1}>>, {}, <<>>),
            Execute(c1, {}, {}, <<>>),
            Unref(b1, {}, <<>>),
            UnrefCmdBuf(c1, {}, <<>>),
            Unref(b2, {At1(sb)}, <<>>) >>)
    @@
  (t2 :> << Record(c2, <<{}>>, {At1(sa)}, <<>>),
            Allocate(b3, {}, <<>>),
            Execute(c2, {b2, b3}, {}, <<At1(sb)>>),
            Unref(b3, {}, <<>>),
            UnrefCmdBuf(c2, {}, <<>>) >>)

\* An empty execution passes its semaphores on; a value signalled twice is an error.
Barriers ==
  (t1 :> << Execute(None, {}, {}, <<At1(sa), At1(sb)>>),
            Execute(None, {}, {At2(sa)}, <<At2(sb)>>) >>)
    @@
  (t2 :> << Execute(None, {}, {At1(sa), At1(sb)}, <<At2(sa)>>),
            Execute(None, {}, {}, <<At1(sb)>>) >>)

MCPrograms == {Pipeline, Concurrent, Barriers}
============================================================================

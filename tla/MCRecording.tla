---------------------------- MODULE MCRecording ----------------------------
(* Two allocations, of which buffers 1 to 3 are windows. *)
EXTENDS Recording

MCAllocSize == <<5, 4>>
MCBuffers == << [fd |-> 1, base |-> 0, len |-> 5],
                [fd |-> 1, base |-> 2, len |-> 3],
                [fd |-> 2, base |-> 1, len |-> 3] >>

Direct(b, off, len) == [buf |-> b, slot |-> 0, off |-> off, len |-> len]
Slot(n, off, len) == [buf |-> 0, slot |-> n, off |-> off, len |-> len]
Fill(pattern, trgt) == [kind |-> "fill", pattern |-> pattern, trgt |-> trgt]
Copy(src, trgt) == [kind |-> "copy", src |-> src, trgt |-> trgt]
Barrier(n) == [kind |-> "barrier", bufferBarriers |-> n]
Dispatch(indirect, conBytes, size, count, bindings) ==
  [kind |-> "dispatch", fn |-> "f", indirectParams |-> indirect, conBytes |-> conBytes,
   wgSize |-> size, wgCount |-> count, bindings |-> bindings]

\* A fill of the whole rest of a binding is left to MCFillsWhole.
MCPalette ==
  { Fill(<<>>, Direct(1, 0, 1)), Fill(<<1, 2, 3, 1, 2>>, Direct(1, 0, 1)),
    Fill(<<1, 2>>, Direct(1, 0, 2)), Fill(<<3>>, Direct(1, 2, 1)), Fill(<<1, 2>>, Direct(2, 1, Whole)),
    Fill(<<1, 2, 3>>, Direct(2, 0, 0)), Fill(<<2>>, Direct(2, 1, 3)),
    Fill(<<2, 1>>, Slot(0, 1, 1)), Fill(<<1>>, Slot(1, 0, 2)),
    Copy(Direct(2, 0, 2), Direct(3, 0, Whole)), Copy(Direct(3, 1, 2), Direct(1, 0, 1)),
    Copy(Slot(0, 0, Whole), Direct(1, 3, 2)), Copy(Direct(1, 0, 2), Slot(0, 0, Whole)),
    Barrier(0), Barrier(1), [kind |-> "unsupported"],
    Dispatch(FALSE, 8, <<0, 2, 3>>, <<1, 2, 3>>, <<Direct(1, 1, 2), Slot(0, 0, Whole)>>),
    Dispatch(FALSE, 0, <<1, 1, 4>>, <<1, 1, 4>>, <<>>),
    Dispatch(FALSE, 0, <<1, 1, 1>>, <<1, 1, 4>>, <<Direct(3, 0, Whole), Direct(2, 0, 3)>>),
    Dispatch(FALSE, 6, <<1, 1, 1>>, <<1, 1, 1>>, <<>>),
    Dispatch(FALSE, 16, <<1, 1, 1>>, <<1, 1, 1>>, <<>>),
    Dispatch(TRUE, 0, <<1, 1, 1>>, <<1, 1, 1>>, <<>>) }
MCTables == { <<>>, <<Direct(3, 1, 2)>>, <<Direct(3, 0, 1), Direct(2, 1, Whole)>> }

MCFillsWhole == {Fill(<<1, 2>>, Slot(0, 1, Whole)), Barrier(0)}
============================================================================

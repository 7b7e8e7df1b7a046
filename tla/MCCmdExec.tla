----------------------------- MODULE MCCmdExec -----------------------------
(* Small command buffers for CmdExec: every sequence of up to MaxLen commands over a
   palette in which each command competes with the others for slots, for residency or
   for VTCM. *)
EXTENDS CmdExec

CONSTANTS f1, f2, f3, MaxLen

Sizes == [fd \in Fd |-> 1]

Dispatch(s, v, hmx) == [kind |-> "dispatch", refs |-> s, vtcm |-> v, hmx |-> hmx]
Other(kind, s) == [kind |-> kind, refs |-> s, vtcm |-> 0, hmx |-> FALSE]

Palette == {
  Dispatch(<<f1>>, 1, FALSE),
  Dispatch(<<f2, f3, f2>>, 2, FALSE),
  Dispatch(<<f3>>, 0, FALSE),
  Dispatch(<<f1>>, All, TRUE),
  Other("barrier", <<>>),
  Other("copy", <<f1, f2>>),
  Other("fill", <<f3>>)}

\* Commands that end the execution early: used alone after one of the palette.
Faulty == {
  Dispatch(<<f1, BadRef>>, 0, FALSE),
  Dispatch(<<f1>>, VtcmPool + 1, FALSE),
  Dispatch(<<f1, f2, f3>>, 0, FALSE),
  Other("copy", <<f2, BadRef>>),
  Other("invalid", <<>>)}

Dispatches == {c \in Palette : c.kind = "dispatch"}

MCPrograms ==
  UNION {[1 .. n -> Palette] : n \in 0 .. MaxLen}
    \cup [1 .. MaxLen + 1 -> Dispatches]
    \cup {<<a, b, c>> : a \in Palette, b \in Palette, c \in Faulty}

\* Two dispatches that can run at the same time, but the second declared nothing: it waits
\* for the partition of the first.
WaitsForVtcm == {<<Dispatch(<<f1>>, 1, FALSE), Dispatch(<<f2>>, All, FALSE)>>}
============================================================================

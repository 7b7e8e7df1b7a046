----------------------------- MODULE MCSession -----------------------------
(* Paths that resolve and do not, a path of the binary that fits at once, at a buffer's
   exact size, and never. *)
EXTENDS Session, TLC

MCConcurrency == {-1, 0, 1, 2, 3, 4}
MCDomainOf == [p \in Path |-> CASE p = "3" -> 3 [] p = "CDSP1" -> 4 [] p = "9" -> 9 [] OTHER -> NoDomain]
============================================================================

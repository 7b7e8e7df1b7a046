---------------------------- MODULE WeightedSum ----------------------------
(***************************************************************************)
(* Sums of natural-number weights over a finite set, without recursion:    *)
(* an element of weight w stands for w tokens, and the sum is the number   *)
(* of tokens. The lemmas a proof needs are in WeightedSumProofs.tla.       *)
(***************************************************************************)
EXTENDS Naturals, FiniteSets

Tokens(f, x) == {x} \X (1 .. f[x])
TokensOf(f, S) == UNION {Tokens(f, x) : x \in S}
SumOver(f, S) == Cardinality(TokensOf(f, S))
============================================================================

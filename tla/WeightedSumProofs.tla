------------------------- MODULE WeightedSumProofs -------------------------
(***************************************************************************)
(* Lemmas about SumOver: it is a natural number, it is additive in the set *)
(* and in the weights, and it is monotone.                                 *)
(***************************************************************************)
EXTENDS WeightedSum, Integers, FiniteSetTheorems, FunctionTheorems, TLAPS

\* The tokens of one element are as many as its weight.
LEMMA TokensCount ==
  ASSUME NEW f, NEW x, f[x] \in Nat
  PROVE  /\ IsFiniteSet(Tokens(f, x))
         /\ Cardinality(Tokens(f, x)) = f[x]
<1>1. IsFiniteSet(1 .. f[x]) /\ Cardinality(1 .. f[x]) = f[x]
  BY FS_Interval, SMTT(30)
<1>2. IsFiniteSet({x}) /\ Cardinality({x}) = 1
  BY FS_Singleton
<1>3. IsFiniteSet({x} \X (1 .. f[x]))
  BY <1>1, <1>2, FS_Product
<1>4. Cardinality({x} \X (1 .. f[x])) = Cardinality({x}) * Cardinality(1 .. f[x])
  BY <1>1, <1>2, FS_Product
<1>5. Cardinality({x} \X (1 .. f[x])) = f[x]
  BY <1>1, <1>2, <1>4
<1>6. QED
  BY <1>3, <1>5 DEF Tokens

\* Finitely many elements have finitely many tokens, so a sum is a natural number.
LEMMA SumType ==
  ASSUME NEW S, IsFiniteSet(S), NEW f, \A x \in S : f[x] \in Nat
  PROVE  IsFiniteSet(TokensOf(f, S)) /\ SumOver(f, S) \in Nat
<1> DEFINE T == {Tokens(f, x) : x \in S}
           F == [x \in S |-> Tokens(f, x)]
<1>1. F \in Surjection(S, T)
  <2>1. F \in [S -> T]
    OBVIOUS
  <2>2. \A t \in T : \E x \in S : F[x] = t
    OBVIOUS
  <2>3. QED
    BY <2>1, <2>2, Fun_IsSurj
<1>2. IsFiniteSet(T)
  <2> HIDE DEF T, F
  <2> QED BY <1>1, FS_Surjection
<1>3. \A t \in T : IsFiniteSet(t)
  BY TokensCount
<1>4. IsFiniteSet(UNION T)
  <2> HIDE DEF T, F
  <2> QED BY <1>2, <1>3, FS_UNION
<1>5. QED
  BY <1>4, FS_CardinalityType DEF TokensOf, SumOver

\* The empty sum.
LEMMA SumEmpty ==
  ASSUME NEW f
  PROVE  SumOver(f, {}) = 0
<1>1. TokensOf(f, {}) = {}
  BY DEF TokensOf
<1>2. QED
  BY <1>1, FS_EmptySet DEF SumOver

\* Adding an element adds its weight.
LEMMA SumAdd ==
  ASSUME NEW S, IsFiniteSet(S), NEW x, x \notin S, NEW f,
         \A y \in S \cup {x} : f[y] \in Nat
  PROVE  SumOver(f, S \cup {x}) = SumOver(f, S) + f[x]
<1>1. TokensOf(f, S \cup {x}) = TokensOf(f, S) \cup Tokens(f, x)
  BY DEF TokensOf
<1>2. TokensOf(f, S) \cap Tokens(f, x) = {}
  BY DEF TokensOf, Tokens
<1>3. IsFiniteSet(TokensOf(f, S)) /\ Cardinality(TokensOf(f, S)) \in Nat
  BY SumType DEF SumOver
<1>4. IsFiniteSet(Tokens(f, x)) /\ Cardinality(Tokens(f, x)) = f[x]
  BY TokensCount
<1>5. Cardinality(TokensOf(f, S) \cup Tokens(f, x))
        = Cardinality(TokensOf(f, S)) + f[x] - Cardinality({})
  BY <1>2, <1>3, <1>4, FS_Union
<1>6. Cardinality({}) = 0 /\ f[x] \in Nat
  BY FS_EmptySet
<1>7. Cardinality(TokensOf(f, S) \cup Tokens(f, x)) = Cardinality(TokensOf(f, S)) + f[x]
  BY <1>3, <1>5, <1>6
<1>8. QED
  BY <1>1, <1>7 DEF SumOver

\* Removing an element removes its weight.
LEMMA SumRemove ==
  ASSUME NEW S, IsFiniteSet(S), NEW x \in S, NEW f,
         \A y \in S : f[y] \in Nat
  PROVE  /\ SumOver(f, S) = SumOver(f, S \ {x}) + f[x]
         /\ SumOver(f, S \ {x}) \in Nat
<1>1. IsFiniteSet(S \ {x})
  BY FS_RemoveElement
<1>2. (S \ {x}) \cup {x} = S
  OBVIOUS
<1>3. SumOver(f, (S \ {x}) \cup {x}) = SumOver(f, S \ {x}) + f[x]
  BY <1>1, SumAdd
<1>4. QED
  BY <1>1, <1>2, <1>3, SumType

\* A sum over fewer elements is no larger.
LEMMA SumMonotone ==
  ASSUME NEW S, IsFiniteSet(S), NEW R \in SUBSET S, NEW f,
         \A y \in S : f[y] \in Nat
  PROVE  SumOver(f, R) <= SumOver(f, S)
<1>1. TokensOf(f, R) \in SUBSET TokensOf(f, S)
  BY DEF TokensOf
<1>2. QED
  BY <1>1, SumType, FS_Subset DEF SumOver

\* A sum depends only on the weights of its elements.
LEMMA SumSame ==
  ASSUME NEW S, NEW f, NEW g, \A x \in S : f[x] = g[x]
  PROVE  SumOver(f, S) = SumOver(g, S)
<1>1. \A x \in S : Tokens(f, x) = Tokens(g, x)
  BY DEF Tokens
<1>2. TokensOf(f, S) = TokensOf(g, S)
  BY <1>1 DEF TokensOf
<1>3. QED
  BY <1>2 DEF SumOver

\* Changing one weight changes the sum by the difference.
LEMMA SumUpdate ==
  ASSUME NEW S, IsFiniteSet(S), NEW x \in S, NEW f, NEW g,
         \A y \in S : f[y] \in Nat /\ g[y] \in Nat,
         \A y \in S \ {x} : f[y] = g[y]
  PROVE  SumOver(g, S) + f[x] = SumOver(f, S) + g[x]
<1>1. /\ SumOver(f, S) = SumOver(f, S \ {x}) + f[x]
      /\ SumOver(f, S \ {x}) \in Nat
  BY SumRemove
<1>2. /\ SumOver(g, S) = SumOver(g, S \ {x}) + g[x]
      /\ SumOver(g, S \ {x}) \in Nat
  BY SumRemove
<1>3. SumOver(f, S \ {x}) = SumOver(g, S \ {x})
  BY SumSame
<1>4. QED
  BY <1>1, <1>2, <1>3

\* A sum is zero exactly when every weight is.
LEMMA SumZero ==
  ASSUME NEW S, IsFiniteSet(S), NEW f, \A y \in S : f[y] \in Nat
  PROVE  SumOver(f, S) = 0 <=> \A y \in S : f[y] = 0
<1>1. ASSUME \A y \in S : f[y] = 0
      PROVE  SumOver(f, S) = 0
  <2>1. TokensOf(f, S) = {}
    BY <1>1 DEF TokensOf, Tokens
  <2>2. QED
    BY <2>1, FS_EmptySet DEF SumOver
<1>2. ASSUME SumOver(f, S) = 0, NEW y \in S
      PROVE  f[y] = 0
  <2>1. /\ SumOver(f, S) = SumOver(f, S \ {y}) + f[y]
        /\ SumOver(f, S \ {y}) \in Nat
    BY SumRemove
  <2>2. QED
    BY <1>2, <2>1
<1>3. QED
  BY <1>1, <1>2

\* The sizes of disjoint parts of a finite set add up to no more than its size.
LEMMA SumDisjoint ==
  ASSUME NEW S, NEW G, IsFiniteSet(G), NEW P \in [S -> SUBSET G],
         \A x, y \in S : x # y => P[x] \cap P[y] = {}
  PROVE  SumOver([x \in S |-> Cardinality(P[x])], S) <= Cardinality(G)
<1> DEFINE f == [x \in S |-> Cardinality(P[x])]
           T == TokensOf(f, S)
           b == [x \in S |-> CHOOSE h : h \in Bijection(1 .. f[x], P[x])]
           g == [k \in T |-> b[k[1]][k[2]]]
<1>1. ASSUME NEW x \in S PROVE b[x] \in Bijection(1 .. f[x], P[x])
  <2>1. P[x] \in SUBSET G OBVIOUS
  <2>2. IsFiniteSet(P[x]) BY <2>1, FS_Subset
  <2>3. ExistsBijection(1 .. f[x], P[x]) BY <2>2, FS_CardinalityType
  <2>4. \E h : h \in Bijection(1 .. f[x], P[x]) BY <2>3 DEF ExistsBijection
  <2> QED BY <2>4
<1>2. ASSUME NEW x \in S
      PROVE  /\ \A i \in 1 .. f[x] : b[x][i] \in P[x]
             /\ \A i, j \in 1 .. f[x] : b[x][i] = b[x][j] => i = j
  <2> HIDE DEF b, f
  <2> QED BY <1>1, ZenonT(30) DEF Bijection, Injection, IsInjective
<1>3. \A k \in T : k[1] \in S /\ k[2] \in 1 .. f[k[1]] /\ k = <<k[1], k[2]>>
  BY DEF TokensOf, Tokens
<1> HIDE DEF b, f, T
<1>4. \A k \in T : g[k] \in P[k[1]] BY <1>2, <1>3
<1>5. \A k \in T : P[k[1]] \in SUBSET G BY <1>3
<1>6. g \in [T -> G] BY <1>4, <1>5
<1>7. ASSUME NEW k \in T, NEW m \in T, g[k] = g[m] PROVE k = m
  <2>1. k[1] = m[1] BY <1>3, <1>4, <1>7
  <2>2. b[k[1]][k[2]] = b[k[1]][m[2]] BY <1>7, <2>1
  <2>3. k[2] = m[2] BY <1>2, <1>3, <2>1, <2>2
  <2> QED BY <1>3, <2>1, <2>3
<1>8. g \in Injection(T, G)
  <2> HIDE DEF g
  <2> QED BY <1>6, <1>7 DEF Injection, IsInjective
<1>9. Cardinality(T) <= Cardinality(G)
  <2> HIDE DEF g
  <2> QED BY <1>8, FS_Injection
<1> QED BY <1>9 DEF SumOver, T, f
============================================================================

--------------------------- MODULE PlanningProofs ---------------------------
(***************************************************************************)
(* Proofs about the planning of a dispatch, for every dispatch, every      *)
(* preferred tile and every VTCM budget.                                   *)
(***************************************************************************)
EXTENDS Planning, FiniteSetTheorems, SequenceTheorems, WellFoundedInduction, NaturalsInduction, TLAPS

----------------------------------------------------------------------------
(* Least and greatest elements. *)

(* A nonempty set of natural numbers has a least element. *)
LEMMA MinIn ==
  ASSUME NEW S \in SUBSET Nat, S # {}
  PROVE  Min(S) \in S /\ \A y \in S : Min(S) <= y
<1>1. PICK x \in S : \A y \in S : ~ (<<y, x>> \in OpToRel(<, Nat))
  BY NatLessThanWellFounded, WFMin
<1>2. \A y \in S : ~ (y < x)
  BY <1>1 DEF OpToRel
<1>3. \A y \in S : x <= y
  BY <1>2
<1>4. QED
  BY <1>3 DEF Min

(* A nonempty set of natural numbers below a bound has a greatest one. *)
LEMMA MaxIn ==
  ASSUME NEW n \in Nat, NEW S \in SUBSET (0..n), S # {}
  PROVE  Max(S) \in S /\ \A y \in S : Max(S) >= y
<1> DEFINE T == {n - x : x \in S}
<1>1. T \in SUBSET Nat /\ T # {}
  <2>1. \A x \in S : n - x \in Nat
    OBVIOUS
  <2>2. QED
    BY <2>1
<1>2. PICK m \in T : \A y \in T : m <= y
  BY <1>1, MinIn
<1>3. PICK x \in S : m = n - x
  BY <1>2
<1>4. ASSUME NEW y \in S PROVE x >= y
  <2>1. m <= n - y
    BY <1>2
  <2>2. QED
    BY <2>1, <1>3
<1>5. QED
  BY <1>3, <1>4 DEF Max

----------------------------------------------------------------------------
(* Dispatches. *)

IsInput == input \in [dispatch : Dispatches, options : Options]

(* What the assumptions say of the operations of a dispatch. *)
LEMMA OpFacts ==
  ASSUME IsInput
  PROVE  /\ Len(Ops) \in Nat /\ DOMAIN Ops = 1..Len(Ops)
         /\ \A i \in DOMAIN Ops :
              /\ Rank(Ops[i]) \in Nat /\ LoopsOf(Ops[i]) = 1..Rank(Ops[i])
              /\ \A d \in LoopsOf(Ops[i]) : Ops[i].iters[d] \in {"p", "r"}
              /\ \A d \in LoopsOf(Ops[i]) : Ops[i].extents[d] \in Nat \cup {Dynamic}
              /\ Len(Ops[i].operands) \in Nat \ {0}
              /\ DOMAIN Ops[i].operands = 1..Len(Ops[i].operands)
<1>1. Ops \in Seq(Range(Ops))
  BY DispatchesAssumption DEF IsInput, Ops
<1>2. ASSUME NEW i \in DOMAIN Ops
      PROVE  /\ Ops[i].iters \in Seq({"p", "r"})
             /\ Ops[i].extents \in [DOMAIN Ops[i].iters -> Nat \cup {Dynamic}]
             /\ Ops[i].operands \in Seq(Range(Ops[i].operands)) /\ Ops[i].operands # <<>>
  BY DispatchesAssumption DEF IsInput, Ops
<1>3. ASSUME NEW i \in DOMAIN Ops
      PROVE  /\ Rank(Ops[i]) \in Nat /\ LoopsOf(Ops[i]) = 1..Rank(Ops[i])
             /\ \A d \in LoopsOf(Ops[i]) : Ops[i].iters[d] \in {"p", "r"}
             /\ \A d \in LoopsOf(Ops[i]) : Ops[i].extents[d] \in Nat \cup {Dynamic}
             /\ Len(Ops[i].operands) \in Nat \ {0}
             /\ DOMAIN Ops[i].operands = 1..Len(Ops[i].operands)
  <2>1. /\ Len(Ops[i].iters) \in Nat /\ DOMAIN Ops[i].iters = 1..Len(Ops[i].iters)
        /\ \A d \in DOMAIN Ops[i].iters : Ops[i].iters[d] \in {"p", "r"}
    BY <1>2
  <2>2. LoopsOf(Ops[i]) = DOMAIN Ops[i].iters
    BY <2>1 DEF LoopsOf, Rank
  <2>3. \A d \in DOMAIN Ops[i].iters : Ops[i].extents[d] \in Nat \cup {Dynamic}
    BY <1>2
  <2>4. Len(Ops[i].operands) \in Nat \ {0} /\ DOMAIN Ops[i].operands = 1..Len(Ops[i].operands)
    BY <1>2
  <2>5. QED
    BY <2>1, <2>2, <2>3, <2>4 DEF LoopsOf, Rank
<1>4. QED
  BY <1>1, <1>3

(* What they say of the operands. *)
LEMMA OperandFacts ==
  ASSUME IsInput, NEW i \in DOMAIN Ops, NEW k \in DOMAIN Ops[i].operands
  PROVE  /\ Len(Ops[i].operands[k].map) \in Nat
         /\ DOMAIN Ops[i].operands[k].map = 1..Len(Ops[i].operands[k].map)
         /\ \A d \in DOMAIN Ops[i].operands[k].map : Ops[i].operands[k].map[d] \in 0..Rank(Ops[i])
         /\ Ops[i].operands[k].bytes \in Nat
<1>1. Ops[i].operands[k].map \in Seq(0..Len(Ops[i].iters)) /\ Ops[i].operands[k].bytes \in Nat
  BY DispatchesAssumption DEF IsInput, Ops
<1>2. QED
  BY <1>1 DEF Rank

(* Every value has one definition, before its readers. *)
LEMMA SsaFacts ==
  ASSUME IsInput, NEW i \in DOMAIN Ops, NEW j \in DOMAIN Ops
  PROVE  /\ Ops[i].result = Ops[j].result => i = j
         /\ \A k \in DOMAIN Ops[j].operands : Ops[j].operands[k].val = Ops[i].result => i < j
BY DispatchesAssumption DEF IsInput, Ops

(* The destinations are operands. *)
LEMMA InitFacts ==
  ASSUME IsInput, NEW i \in DOMAIN Ops, Inits(Ops[i]) # {}
  PROVE  Min(Inits(Ops[i])) \in DOMAIN Ops[i].operands
<1>1. Inits(Ops[i]) \in SUBSET Nat
  BY OpFacts DEF Inits
<1>2. Min(Inits(Ops[i])) \in Inits(Ops[i])
  BY <1>1, MinIn
<1>3. QED
  BY <1>2 DEF Inits

----------------------------------------------------------------------------
(* The analysis computes connected components. *)

\* Operand k of operation i says that its loop p indexes dimension d of value v.
Describes(i, k, v, d, p) ==
  /\ k \in DOMAIN Ops[i].operands /\ v \in ValuesOf(i, k)
  /\ d \in DOMAIN Ops[i].operands[k].map /\ LoopAt(i, k, d) = p /\ p # 0
Together(l, m) == \E c \in classes : l \in c /\ m \in c

\* How far the analysis is.
IsCursor == at \in [op : Nat \ {0}, operand : Nat, dim : Nat \ {0}] /\ (at.operand = 0 => at.dim = 1)
Started(i) == i < at.op \/ (i = at.op /\ at.operand > 0)
Done(i, k, v, d) ==
  \/ i < at.op
  \/ i = at.op /\ v # Ops[i].result /\ (k < at.operand \/ (k = at.operand /\ d < at.dim))

LoopsStarted ==
  \A l : l \in UNION classes <=> \E i \in DOMAIN Ops : Started(i) /\ \E d \in LoopsOf(Ops[i]) : l = <<i, d>>
Partitioned ==
  /\ {} \notin classes
  /\ \A c, e \in classes : c # e => c \cap e = {}
Connected(c) == \A s \in (SUBSET c) \ {{}, c} : \E l \in s, m \in c \ s : SameDimension(l, m)
KnownDescribes ==
  \A v, d : <<v, d>> \in DOMAIN known =>
    \E i \in DOMAIN Ops : \E k, p : /\ Describes(i, k, v, d, p)
                                    /\ known[<<v, d>>] = <<i, p>> /\ <<i, p>> \in UNION classes
DoneUnited ==
  \A i \in DOMAIN Ops : \A k, v, d, p : Describes(i, k, v, d, p) /\ Done(i, k, v, d) =>
    <<v, d>> \in DOMAIN known /\ Together(known[<<v, d>>], <<i, p>>)

GraphInv ==
  /\ IsInput /\ IsCursor /\ LoopsStarted /\ Partitioned
  /\ \A c \in classes : Connected(c)
  /\ KnownDescribes /\ DoneUnited

(* Only loops of the operation are described. *)
LEMMA DescribesLoop ==
  ASSUME IsInput, NEW i \in DOMAIN Ops, NEW k, NEW v, NEW d, NEW p, Describes(i, k, v, d, p)
  PROVE  p \in LoopsOf(Ops[i]) /\ d \in Nat
<1>1. k \in DOMAIN Ops[i].operands /\ d \in DOMAIN Ops[i].operands[k].map /\ LoopAt(i, k, d) = p /\ p # 0
  BY DEF Describes
<1>2. Ops[i].kind = "tiling" => Len(Ops[i].operands[k].map) = Rank(Ops[i])
  BY DEF Describes, ValuesOf
<1>3. /\ Len(Ops[i].operands[k].map) \in Nat
      /\ DOMAIN Ops[i].operands[k].map = 1..Len(Ops[i].operands[k].map)
      /\ \A e \in DOMAIN Ops[i].operands[k].map : Ops[i].operands[k].map[e] \in 0..Rank(Ops[i])
  BY <1>1, OperandFacts
<1>4. Rank(Ops[i]) \in Nat /\ LoopsOf(Ops[i]) = 1..Rank(Ops[i])
  BY OpFacts
<1>5. CASE Ops[i].kind = "tiling"
  BY <1>1, <1>2, <1>3, <1>4, <1>5 DEF LoopAt
<1>6. CASE Ops[i].kind # "tiling"
  <2>1. p = Ops[i].operands[k].map[d]
    BY <1>1, <1>6 DEF LoopAt
  <2>2. p \in 0..Rank(Ops[i])
    BY <2>1, <1>1, <1>3
  <2>3. QED
    BY <2>2, <1>1, <1>3, <1>4
<1>7. QED
  BY <1>5, <1>6

(* Two loops index the same dimension of a value if both describe it. *)
LEMMA SameDimensionIs ==
  ASSUME NEW i, NEW j, NEW p, NEW q, p # 0, q # 0
  PROVE  SameDimension(<<i, p>>, <<j, q>>)
           <=> \E k, n, v, d : Describes(i, k, v, d, p) /\ Describes(j, n, v, d, q)
<1>1. <<i, p>>[1] = i /\ <<i, p>>[2] = p /\ <<j, q>>[1] = j /\ <<j, q>>[2] = q
  OBVIOUS
<1>2. SameDimension(<<i, p>>, <<j, q>>) <=>
        \E k \in DOMAIN Ops[i].operands : \E n \in DOMAIN Ops[j].operands :
          /\ ValuesOf(i, k) \cap ValuesOf(j, n) # {}
          /\ \E d \in DOMAIN Ops[i].operands[k].map \cap DOMAIN Ops[j].operands[n].map :
               LoopAt(i, k, d) = p /\ LoopAt(j, n, d) = q
  BY <1>1, Zenon DEF SameDimension
<1>3. QED
  BY <1>2 DEF Describes

\* Q is P with the classes ca and cb united.
United(P, Q, ca, cb) ==
  /\ Q = (P \ {ca, cb}) \cup {ca \cup cb}
  /\ UNION Q = UNION P
  /\ {} \notin Q
  /\ \A c, e \in Q : c # e => c \cap e = {}
  /\ \A c \in P : \E e \in Q : c \subseteq e

(* What uniting two classes of a partition gives. *)
LEMMA UniteIs ==
  ASSUME NEW P, {} \notin P, \A c, e \in P : c # e => c \cap e = {},
         NEW a \in UNION P, NEW b \in UNION P
  PROVE  \E ca \in P : \E cb \in P : a \in ca /\ b \in cb /\ United(P, Unite(P, a, b), ca, cb)
<1> DEFINE ca == ClassOf(a, P)
           cb == ClassOf(b, P)
           N == (P \ {ca, cb}) \cup {ca \cup cb}
<1>1. ca \in P /\ a \in ca /\ cb \in P /\ b \in cb
  BY DEF ClassOf
<1>2. Unite(P, a, b) = N
  BY DEF Unite
<1> HIDE DEF ca, cb
<1>3. UNION N = UNION P
  <2>1. \A l \in UNION N : l \in UNION P
    BY <1>1
  <2>2. \A l \in UNION P : l \in UNION N
    <3> SUFFICES ASSUME NEW c \in P, NEW l \in c PROVE \E e \in N : l \in e
      OBVIOUS
    <3>1. CASE c \in {ca, cb}
      <4>1. ca \cup cb \in N /\ l \in ca \cup cb
        BY <3>1
      <4>2. QED
        BY <4>1
    <3>2. CASE c \notin {ca, cb}
      BY <3>2
    <3>3. QED
      BY <3>1, <3>2
  <2>3. QED
    BY <2>1, <2>2
<1>4. {} \notin N
  BY <1>1
<1>5. ASSUME NEW c \in N, NEW e \in N, c # e PROVE c \cap e = {}
  <2>1. CASE c \in P \ {ca, cb} /\ e \in P \ {ca, cb}
    BY <2>1, <1>5
  <2>2. CASE c = ca \cup cb /\ e \in P \ {ca, cb}
    BY <2>2, <1>1
  <2>3. CASE e = ca \cup cb /\ c \in P \ {ca, cb}
    BY <2>3, <1>1
  <2>4. QED
    BY <1>5, <2>1, <2>2, <2>3
<1>6. ASSUME NEW c \in P PROVE \E e \in N : c \subseteq e
  <2>1. CASE c \in {ca, cb}
    <3>1. ca \cup cb \in N /\ c \subseteq ca \cup cb
      BY <2>1
    <3>2. QED
      BY <3>1
  <2>2. CASE c \notin {ca, cb}
    BY <2>2
  <2>3. QED
    BY <2>1, <2>2
<1>7. UNION Unite(P, a, b) = UNION P /\ {} \notin Unite(P, a, b)
  BY <1>2, <1>3, <1>4
<1>8. \A c, e \in Unite(P, a, b) : c # e => c \cap e = {}
  BY <1>2, <1>5
<1>9. \A c \in P : \E e \in Unite(P, a, b) : c \subseteq e
  BY <1>2, <1>6
<1>10. Unite(P, a, b) = (P \ {ca, cb}) \cup {ca \cup cb}
  BY <1>2
<1>11. United(P, Unite(P, a, b), ca, cb)
  BY <1>7, <1>8, <1>9, <1>10 DEF United
<1>12. QED
  BY <1>1, <1>11

(* Two connected sets with a loop each that index the same dimension are connected. *)
LEMMA ConnectedUnion ==
  ASSUME NEW c, NEW e, Connected(c), Connected(e),
         NEW a \in c, NEW b \in e, SameDimension(a, b), SameDimension(b, a)
  PROVE  Connected(c \cup e)
<1> SUFFICES ASSUME NEW s \in (SUBSET (c \cup e)) \ {{}, c \cup e}
             PROVE  \E l \in s, m \in (c \cup e) \ s : SameDimension(l, m)
  BY DEF Connected
<1>1. CASE s \cap c \notin {{}, c}
  <2>1. PICK l \in s \cap c, m \in c \ (s \cap c) : SameDimension(l, m)
    BY <1>1 DEF Connected
  <2>2. QED
    BY <2>1
<1>2. CASE s \cap e \notin {{}, e}
  <2>1. PICK l \in s \cap e, m \in e \ (s \cap e) : SameDimension(l, m)
    BY <1>2 DEF Connected
  <2>2. QED
    BY <2>1
<1>3. CASE s \cap c = c /\ s \cap e = {}
  BY <1>3
<1>4. CASE s \cap c = {} /\ s \cap e = e
  BY <1>4
<1>5. ~ (s \cap c = {} /\ s \cap e = {}) /\ ~ (s \cap c = c /\ s \cap e = e)
  OBVIOUS
<1>6. QED
  BY <1>1, <1>2, <1>3, <1>4, <1>5

(* What the operations describe does not change. *)
LEMMA StaticDescribes ==
  ASSUME input' = input
  PROVE  /\ \A i, k, v, d, p : Describes(i, k, v, d, p)' <=> Describes(i, k, v, d, p)
         /\ \A l, m : SameDimension(l, m)' <=> SameDimension(l, m)
         /\ \A c : Connected(c)' <=> Connected(c)
<1>1. Ops' = Ops
  BY DEF Ops
<1>2. \A i, k, d : LoopAt(i, k, d)' = LoopAt(i, k, d)
  BY <1>1 DEF LoopAt
<1>3. \A i, k : ValuesOf(i, k)' = ValuesOf(i, k)
  BY <1>1 DEF ValuesOf
<1>4. \A i, k, v, d, p : Describes(i, k, v, d, p)' <=> Describes(i, k, v, d, p)
  BY <1>1, <1>2, <1>3 DEF Describes
<1>5. \A l, m : SameDimension(l, m)' <=> SameDimension(l, m)
  BY <1>1, <1>2, <1>3 DEF SameDimension
<1>6. \A c : Connected(c)' <=> Connected(c)
  BY <1>5 DEF Connected
<1>7. QED
  BY <1>4, <1>5, <1>6

(* The analysis starts with nothing. *)
LEMMA InitGraph ==
  ASSUME Init
  PROVE  GraphInv
<1>1. IsInput /\ at = [op |-> 1, operand |-> 0, dim |-> 1] /\ known = <<>> /\ classes = {}
  BY DEF Init, IsInput
<1>2. IsCursor
  BY <1>1 DEF IsCursor
<1>3. \A i \in DOMAIN Ops : ~ Started(i) /\ \A k, v, d : Describes(i, k, v, d, LoopAt(i, k, d)) => ~ Done(i, k, v, d)
  <2> SUFFICES ASSUME NEW i \in DOMAIN Ops
               PROVE  ~ Started(i) /\ \A k, v, d : Describes(i, k, v, d, LoopAt(i, k, d)) => ~ Done(i, k, v, d)
    OBVIOUS
  <2>1. i \in Nat /\ i >= 1
    BY <1>1, OpFacts
  <2>2. \A k, v, d : Describes(i, k, v, d, LoopAt(i, k, d)) => k \in Nat /\ k >= 1
    BY <1>1, OpFacts DEF Describes
  <2>3. QED
    BY <2>1, <2>2, <1>1 DEF Started, Done
<1>4. LoopsStarted
  BY <1>1, <1>3 DEF LoopsStarted
<1>5. DoneUnited
  BY <1>3 DEF DoneUnited, Describes
<1>6. Partitioned /\ KnownDescribes /\ \A c \in classes : Connected(c)
  <2>1. \A v, d : <<v, d>> \notin DOMAIN known
    BY <1>1
  <2>2. QED
    BY <1>1, <2>1 DEF Partitioned, KnownDescribes
<1>7. QED
  BY <1>1, <1>2, <1>4, <1>5, <1>6 DEF GraphInv

(* New loops are classes of their own. *)
LEMMA NumberLoopsGraph ==
  ASSUME GraphInv, NumberLoops
  PROVE  GraphInv'
<1>1. input' = input /\ known' = known /\ at.op \in DOMAIN Ops /\ at.operand = 0 /\ at.dim = 1
  BY DEF NumberLoops, GraphInv, IsCursor
<1>2. Ops' = Ops /\ IsInput'
  BY <1>1 DEF Ops, IsInput, GraphInv
<1>3. /\ \A i, k, v, d, p : Describes(i, k, v, d, p)' <=> Describes(i, k, v, d, p)
      /\ \A c : Connected(c)' <=> Connected(c)
  BY <1>1, StaticDescribes
<1>4. at \in [op : Nat \ {0}, operand : Nat, dim : Nat \ {0}]
  BY DEF GraphInv, IsCursor
<1>5. DOMAIN Ops \subseteq Nat
  BY OpFacts DEF GraphInv
<1>6. ASSUME NEW i \in DOMAIN Ops, NEW k, NEW v, NEW d, NEW p, Describes(i, k, v, d, p)
      PROVE  Describes(i, k, v, d, p) /\ k \in Nat \ {0} /\ d \in Nat \ {0}
  <2>1. k \in DOMAIN Ops[i].operands /\ d \in DOMAIN Ops[i].operands[k].map
    BY <1>6 DEF Describes
  <2>2. k \in Nat \ {0}
    BY <2>1, OpFacts DEF GraphInv
  <2>3. d \in Nat \ {0}
    BY <2>1, OperandFacts DEF GraphInv
  <2>4. QED
    BY <1>6, <2>2, <2>3
<1>7. CASE ~ Eligible(at.op)
  <2>1. classes' = classes /\ at' = [at EXCEPT !.op = @ + 1]
    BY <1>7 DEF NumberLoops
  <2>2. IsCursor' /\ at'.op = at.op + 1 /\ at'.operand = 0 /\ at'.dim = 1
    BY <2>1, <1>1, <1>4 DEF IsCursor
  <2>3. LoopsOf(Ops[at.op]) = {}
    BY <1>1, <1>7, OpFacts DEF GraphInv, Eligible
  <2>4. \A i \in DOMAIN Ops : Started(i)' <=> Started(i) \/ i = at.op
    BY <2>2, <1>1, <1>4, <1>5 DEF Started
  <2>5. LoopsStarted'
    <3>1. \A l : l \in UNION classes <=> \E i \in DOMAIN Ops : Started(i) /\ \E d \in LoopsOf(Ops[i]) : l = <<i, d>>
      BY DEF GraphInv, LoopsStarted
    <3>2. \A l : l \in UNION classes <=> \E i \in DOMAIN Ops : Started(i)' /\ \E d \in LoopsOf(Ops[i]) : l = <<i, d>>
      BY <3>1, <2>3, <2>4
    <3>3. QED
      BY <3>2, <2>1, <1>2 DEF LoopsStarted
  <2>6. DoneUnited'
    <3> SUFFICES ASSUME NEW i \in DOMAIN Ops, NEW k, NEW v, NEW d, NEW p,
                        Describes(i, k, v, d, p), Done(i, k, v, d)'
                 PROVE  <<v, d>> \in DOMAIN known /\ Together(known[<<v, d>>], <<i, p>>)
      BY <1>1, <1>2, <1>3, <2>1 DEF DoneUnited, Together
    <3>1. i # at.op
      BY <2>3, DescribesLoop DEF GraphInv
    <3>2. Done(i, k, v, d)
      BY <3>1, <2>2, <1>1, <1>4, <1>5, <1>6 DEF Done
    <3>3. QED
      BY <3>2 DEF GraphInv, DoneUnited
  <2>7. Partitioned' /\ KnownDescribes' /\ \A c \in classes' : Connected(c)'
    <3>1. Partitioned /\ KnownDescribes /\ \A c \in classes : Connected(c)
      BY DEF GraphInv
    <3>2. QED
      BY <3>1, <2>1, <1>1, <1>2, <1>3 DEF Partitioned, KnownDescribes
  <2>8. QED
    BY <1>2, <2>2, <2>5, <2>6, <2>7 DEF GraphInv
<1>8. CASE Eligible(at.op)
  <2> DEFINE F == {{<<at.op, d>>} : d \in LoopsOf(Ops[at.op])}
  <2>1. classes' = classes \cup F /\ at' = [at EXCEPT !.operand = 1]
    BY <1>8 DEF NumberLoops
  <2>2. IsCursor' /\ at'.op = at.op /\ at'.operand = 1 /\ at'.dim = 1
    BY <2>1, <1>1, <1>4 DEF IsCursor
  <2>3. \A i \in DOMAIN Ops : (Started(i)' <=> Started(i) \/ i = at.op) /\ (Started(i) => i # at.op)
    BY <2>2, <1>1, <1>4, <1>5 DEF Started
  <2>4. \A l : l \in UNION classes <=> \E i \in DOMAIN Ops : Started(i) /\ \E d \in LoopsOf(Ops[i]) : l = <<i, d>>
    BY DEF GraphInv, LoopsStarted
  <2>5. \A l : l \in UNION F <=> \E d \in LoopsOf(Ops[at.op]) : l = <<at.op, d>>
    OBVIOUS
  <2>6. \A l : ~ (l \in UNION F /\ l \in UNION classes)
    BY <2>3, <2>4, <2>5
  <2>7. \A c \in F : \A s \in SUBSET c : s = {} \/ s = c
    OBVIOUS
  <2>8. {} \notin F /\ \A c, e \in F : c # e => c \cap e = {}
    OBVIOUS
  <2>9. UNION (classes') = (UNION classes) \cup UNION F
    BY <2>1
  <2>10. LoopsStarted'
    <3>1. \A l : l \in UNION (classes') <=>
                  \E i \in DOMAIN Ops : Started(i)' /\ \E d \in LoopsOf(Ops[i]) : l = <<i, d>>
      BY <2>3, <2>4, <2>5, <2>9, <1>1
    <3>2. QED
      BY <3>1, <1>2 DEF LoopsStarted
  <2> HIDE DEF F
  <2>11. Partitioned'
    <3>1. Partitioned
      BY DEF GraphInv
    <3>2. ASSUME NEW c \in classes, NEW e \in F PROVE c \cap e = {}
      BY <2>6
    <3>3. {} \notin classes \cup F
      BY <3>1, <2>8 DEF Partitioned
    <3>4. \A c, e \in classes \cup F : c # e => c \cap e = {}
      <4> SUFFICES ASSUME NEW c \in classes \cup F, NEW e \in classes \cup F, c # e PROVE c \cap e = {}
        OBVIOUS
      <4>1. CASE c \in classes /\ e \in classes
        BY <4>1, <3>1 DEF Partitioned
      <4>2. CASE c \in F /\ e \in F
        BY <4>2, <2>8
      <4>3. CASE c \in F /\ e \in classes
        BY <4>3, <3>2
      <4>4. CASE c \in classes /\ e \in F
        BY <4>4, <3>2
      <4>5. QED
        BY <4>1, <4>2, <4>3, <4>4
    <3>5. QED
      BY <3>3, <3>4, <2>1 DEF Partitioned
  <2>12. \A c \in classes' : Connected(c)'
    <3>1. \A c \in F : Connected(c)
      BY <2>7 DEF Connected
    <3>2. \A c \in classes : Connected(c)
      BY DEF GraphInv
    <3>3. QED
      BY <3>1, <3>2, <2>1, <1>3
  <2>13. KnownDescribes'
    <3>1. KnownDescribes
      BY DEF GraphInv
    <3>2. \A l : l \in UNION classes => l \in UNION (classes')
      BY <2>9
    <3>3. \A v, d : <<v, d>> \in DOMAIN known =>
            \E i \in DOMAIN Ops : \E k, p : /\ Describes(i, k, v, d, p)
                                            /\ known[<<v, d>>] = <<i, p>> /\ <<i, p>> \in UNION (classes')
      <4> SUFFICES ASSUME NEW v, NEW d, <<v, d>> \in DOMAIN known
                   PROVE  \E i \in DOMAIN Ops : \E k, p :
                            /\ Describes(i, k, v, d, p)
                            /\ known[<<v, d>>] = <<i, p>> /\ <<i, p>> \in UNION (classes')
        OBVIOUS
      <4>1. PICK i \in DOMAIN Ops : \E k, p : /\ Describes(i, k, v, d, p)
                                              /\ known[<<v, d>>] = <<i, p>> /\ <<i, p>> \in UNION classes
        BY <3>1 DEF KnownDescribes
      <4>2. QED
        BY <4>1, <3>2
    <3>4. QED
      BY <3>3, <1>1, <1>2, <1>3 DEF KnownDescribes
  <2>14. DoneUnited'
    <3>1. \A l, m : Together(l, m) => Together(l, m)'
      BY <2>1 DEF Together
    <3> SUFFICES ASSUME NEW i \in DOMAIN Ops, NEW k, NEW v, NEW d, NEW p,
                        Describes(i, k, v, d, p), Done(i, k, v, d)'
                 PROVE  <<v, d>> \in DOMAIN known /\ Together(known[<<v, d>>], <<i, p>>)
      BY <1>1, <1>2, <1>3, <3>1 DEF DoneUnited
    <3>2. Done(i, k, v, d)
      BY <2>2, <1>1, <1>4, <1>5, <1>6 DEF Done
    <3>3. QED
      BY <3>2 DEF GraphInv, DoneUnited
  <2>15. QED
    BY <1>2, <2>2, <2>10, <2>11, <2>12, <2>13, <2>14 DEF GraphInv
<1>9. QED
  BY <1>7, <1>8

(* Which operations have started does not change while one is analyzed. *)
LEMMA StartedStays ==
  ASSUME GraphInv, input' = input, at.operand > 0, at'.operand > 0, at'.op = at.op,
         UNION (classes') = UNION classes
  PROVE  LoopsStarted'
<1>1. Ops' = Ops
  BY DEF Ops
<1>2. \A i : Started(i)' <=> Started(i)
  BY DEF Started
<1>3. \A l : l \in UNION classes <=> \E i \in DOMAIN Ops : Started(i) /\ \E d \in LoopsOf(Ops[i]) : l = <<i, d>>
  BY DEF GraphInv, LoopsStarted
<1>4. QED
  BY <1>1, <1>2, <1>3 DEF LoopsStarted

(* Recording or uniting a dimension of an operand. *)
LEMMA ReadDimensionGraph ==
  ASSUME GraphInv, ReadDimension
  PROVE  GraphInv'
<1>0. PICK i, k, d, v, p :
        /\ i = at.op /\ k = at.operand /\ d = at.dim /\ v = Operand.val
        /\ p = LoopAt(at.op, at.operand, at.dim)
  OBVIOUS
<1>1. /\ input' = input /\ at' = [at EXCEPT !.dim = @ + 1]
      /\ i \in DOMAIN Ops /\ k \in DOMAIN Ops[i].operands /\ d \in DOMAIN Ops[i].operands[k].map
      /\ v = Ops[i].operands[k].val
  BY <1>0 DEF ReadDimension, AtOperand, Operand
<1>2. Ops' = Ops /\ IsInput' /\ IsInput
  BY <1>1 DEF Ops, IsInput, GraphInv
<1>3. /\ \A j, n, w, e, q : Describes(j, n, w, e, q)' <=> Describes(j, n, w, e, q)
      /\ \A c : Connected(c)' <=> Connected(c)
  BY <1>1, StaticDescribes
<1>4. at \in [op : Nat \ {0}, operand : Nat, dim : Nat \ {0}]
  BY DEF GraphInv, IsCursor
<1>5. i \in Nat /\ k \in Nat \ {0} /\ d \in Nat \ {0} /\ DOMAIN Ops \subseteq Nat
  BY <1>0, <1>1, <1>2, <1>4, OpFacts
<1>6. IsCursor' /\ at'.op = at.op /\ at'.operand = at.operand /\ at'.dim = at.dim + 1
  BY <1>0, <1>1, <1>4, <1>5 DEF IsCursor
<1>7. ~ (v = Ops[i].result)
  BY <1>1, <1>2, <1>5, SsaFacts
<1>8. Relates(i, k) /\ p # 0 => Describes(i, k, v, d, p)
  BY <1>0, <1>1 DEF Describes, Relates, ValuesOf
<1>9. ASSUME NEW q, NEW w, w # Ops[i].result, Describes(i, k, w, d, q)
      PROVE  w = v /\ q = p /\ Relates(i, k) /\ p # 0
  BY <1>0, <1>1, <1>9 DEF Describes, Relates, ValuesOf
<1>10. ASSUME NEW j \in DOMAIN Ops, NEW n, NEW w, NEW e, NEW q, Describes(j, n, w, e, q), Done(j, n, w, e)'
       PROVE  Done(j, n, w, e) \/ (j = i /\ n = k /\ e = d /\ w = v /\ q = p /\ Relates(i, k) /\ p # 0)
  <2>1. n \in DOMAIN Ops[j].operands /\ e \in DOMAIN Ops[j].operands[n].map
    BY <1>10 DEF Describes
  <2>2. n \in Nat /\ e \in Nat /\ j \in Nat
    BY <2>1, <1>2, <1>5, OpFacts, OperandFacts
  <2>3. Done(j, n, w, e) \/ (j = i /\ n = k /\ e = d /\ w # Ops[i].result)
    BY <1>0, <1>10, <2>2, <1>2, <1>5, <1>6 DEF Done
  <2>4. QED
    BY <2>3, <1>9, <1>10
<1>11. \A l, m : Together(l, m) /\ classes' = classes => Together(l, m)'
  BY DEF Together
<1>12. KnownDescribes /\ DoneUnited /\ Partitioned /\ \A c \in classes : Connected(c)
  BY DEF GraphInv
<1>13. at.operand > 0 /\ at'.operand > 0
  BY <1>0, <1>5, <1>6
<1>14. \/ ~ (Relates(i, k) /\ p # 0) /\ known' = known /\ classes' = classes
       \/ /\ Relates(i, k) /\ p # 0 /\ <<v, d>> \notin DOMAIN known /\ classes' = classes
          /\ known' = [y \in DOMAIN known \cup {<<v, d>>} |-> IF y = <<v, d>> THEN <<i, p>> ELSE known[y]]
       \/ /\ Relates(i, k) /\ p # 0 /\ <<v, d>> \in DOMAIN known /\ known' = known
          /\ classes' = Unite(classes, known[<<v, d>>], <<i, p>>)
  <2>1. <<i, p>>[2] = p
    OBVIOUS
  <2>2. QED
    BY <1>0, <2>1, Zenon DEF ReadDimension
<1>15. CASE ~ (Relates(i, k) /\ p # 0) /\ known' = known /\ classes' = classes
  <2>1. LoopsStarted'
    BY <1>1, <1>6, <1>13, <1>15, StartedStays
  <2>2. Partitioned' /\ KnownDescribes' /\ \A c \in classes' : Connected(c)'
    BY <1>12, <1>15, <1>2, <1>3 DEF Partitioned, KnownDescribes
  <2>3. DoneUnited'
    BY <1>2, <1>3, <1>10, <1>11, <1>12, <1>15 DEF DoneUnited
  <2>4. QED
    BY <1>2, <1>6, <2>1, <2>2, <2>3 DEF GraphInv
<1>16. ASSUME Relates(i, k), p # 0 PROVE <<i, p>> \in UNION classes
  <2>1. p \in LoopsOf(Ops[i])
    BY <1>1, <1>2, <1>8, <1>16, DescribesLoop
  <2>2. Started(i)
    BY <1>0, <1>5, <1>13 DEF Started
  <2>3. QED
    BY <2>1, <2>2, <1>1 DEF GraphInv, LoopsStarted
<1>17. CASE /\ Relates(i, k) /\ p # 0 /\ <<v, d>> \notin DOMAIN known /\ classes' = classes
            /\ known' = [y \in DOMAIN known \cup {<<v, d>>} |-> IF y = <<v, d>> THEN <<i, p>> ELSE known[y]]
  <2>1. LoopsStarted'
    BY <1>1, <1>6, <1>13, <1>17, StartedStays
  <2>2. Partitioned' /\ \A c \in classes' : Connected(c)'
    BY <1>12, <1>17, <1>3 DEF Partitioned
  <2>3. DOMAIN known' = DOMAIN known \cup {<<v, d>>} /\ known'[<<v, d>>] = <<i, p>>
    BY <1>17
  <2>4. \A y \in DOMAIN known : known'[y] = known[y]
    BY <1>17
  <2>5. \A w, e : <<w, e>> = <<v, d>> <=> w = v /\ e = d
    OBVIOUS
  <2>6. KnownDescribes'
    <3>1. ASSUME NEW w, NEW e, <<w, e>> \in DOMAIN known'
          PROVE  \E j \in DOMAIN Ops : \E n, q : /\ Describes(j, n, w, e, q)
                                                  /\ known'[<<w, e>>] = <<j, q>> /\ <<j, q>> \in UNION classes
      <4>1. CASE <<w, e>> \in DOMAIN known
        BY <4>1, <2>4, <1>12 DEF KnownDescribes
      <4>2. CASE w = v /\ e = d
        BY <4>2, <2>3, <1>1, <1>8, <1>16, <1>17
      <4>3. QED
        BY <4>1, <4>2, <3>1, <2>3, <2>5
    <3>2. classes' = classes
      BY <1>17
    <3>3. QED
      BY <3>1, <3>2, <1>2, <1>3 DEF KnownDescribes
  <2>7. DoneUnited'
    <3> SUFFICES ASSUME NEW j \in DOMAIN Ops, NEW n, NEW w, NEW e, NEW q,
                        Describes(j, n, w, e, q), Done(j, n, w, e)'
                 PROVE  <<w, e>> \in DOMAIN known' /\ Together(known'[<<w, e>>], <<j, q>>)
      BY <1>2, <1>3, <1>17 DEF DoneUnited, Together
    <3>1. CASE Done(j, n, w, e)
      <4>1. <<w, e>> \in DOMAIN known /\ Together(known[<<w, e>>], <<j, q>>)
        BY <3>1, <1>12 DEF DoneUnited
      <4>2. QED
        BY <4>1, <2>3, <2>4
    <3>2. CASE j = i /\ n = k /\ e = d /\ w = v /\ q = p
      BY <3>2, <2>3, <1>16, <1>17 DEF Together
    <3>3. QED
      BY <3>1, <3>2, <1>10
  <2>8. QED
    BY <1>2, <1>6, <2>1, <2>2, <2>6, <2>7 DEF GraphInv
<1>18. CASE /\ Relates(i, k) /\ p # 0 /\ <<v, d>> \in DOMAIN known /\ known' = known
            /\ classes' = Unite(classes, known[<<v, d>>], <<i, p>>)
  <2>1. PICK j \in DOMAIN Ops : \E n, q : /\ Describes(j, n, v, d, q)
                                          /\ known[<<v, d>>] = <<j, q>> /\ <<j, q>> \in UNION classes
    BY <1>12, <1>18 DEF KnownDescribes
  <2>2. PICK n, q : Describes(j, n, v, d, q) /\ known[<<v, d>>] = <<j, q>> /\ <<j, q>> \in UNION classes
    BY <2>1
  <2>3. SameDimension(<<j, q>>, <<i, p>>) /\ SameDimension(<<i, p>>, <<j, q>>)
    <3>1. q # 0 /\ p # 0 /\ Describes(i, k, v, d, p)
      BY <2>2, <1>8, <1>18 DEF Describes
    <3>2. QED
      BY <3>1, <2>2, SameDimensionIs
  <2>10. <<i, p>> \in UNION classes /\ classes' = Unite(classes, <<j, q>>, <<i, p>>)
    BY <2>2, <1>16, <1>18
  <2>4. \E ca \in classes : \E cb \in classes :
           <<j, q>> \in ca /\ <<i, p>> \in cb /\ United(classes, Unite(classes, <<j, q>>, <<i, p>>), ca, cb)
    <3>1. {} \notin classes /\ \A c, e \in classes : c # e => c \cap e = {}
      BY <1>12 DEF Partitioned
    <3>2. QED
      BY <3>1, <2>2, <2>10, UniteIs
  <2>13. PICK ca \in classes : \E cb \in classes :
           <<j, q>> \in ca /\ <<i, p>> \in cb /\ United(classes, classes', ca, cb)
    BY <2>4, <2>10
  <2>14. PICK cb \in classes : <<j, q>> \in ca /\ <<i, p>> \in cb /\ United(classes, classes', ca, cb)
    BY <2>13
  <2>5. /\ <<j, q>> \in ca /\ <<i, p>> \in cb
        /\ classes' = (classes \ {ca, cb}) \cup {ca \cup cb}
        /\ UNION (classes') = UNION classes
        /\ {} \notin classes'
        /\ \A c, e \in classes' : c # e => c \cap e = {}
        /\ \A c \in classes : \E e \in classes' : c \subseteq e
    BY <2>14 DEF United
  <2>6. LoopsStarted'
    BY <1>1, <1>6, <1>13, <2>5, StartedStays
  <2>7. Partitioned'
    BY <2>5 DEF Partitioned
  <2>8. \A c \in classes' : Connected(c)'
    <3>1. Connected(ca \cup cb)
      BY <2>3, <2>5, <1>12, ConnectedUnion
    <3>2. \A c \in classes' : Connected(c)
      BY <3>1, <2>5, <1>12
    <3>3. QED
      BY <3>2, <1>3
  <2>9. KnownDescribes'
    <3>1. \A w, e : <<w, e>> \in DOMAIN known =>
            \E h \in DOMAIN Ops : \E o, r : /\ Describes(h, o, w, e, r)
                                            /\ known[<<w, e>>] = <<h, r>> /\ <<h, r>> \in UNION (classes')
      <4>1. UNION (classes') = UNION classes
        BY <2>5
      <4>2. QED
        BY <4>1, <1>12 DEF KnownDescribes
    <3>2. QED
      BY <3>1, <1>2, <1>3, <1>18 DEF KnownDescribes
  <2>12. DoneUnited'
    <3>1. \A l, m : Together(l, m) => Together(l, m)'
      <4> SUFFICES ASSUME NEW l, NEW m, Together(l, m) PROVE \E e \in classes' : l \in e /\ m \in e
        BY DEF Together
      <4>1. PICK c \in classes : l \in c /\ m \in c
        BY DEF Together
      <4>2. PICK e \in classes' : c \subseteq e
        BY <2>5
      <4>3. QED
        BY <4>1, <4>2
    <3>2. Together(<<j, q>>, <<i, p>>)'
      <4>1. ca \cup cb \in classes' /\ <<j, q>> \in ca \cup cb /\ <<i, p>> \in ca \cup cb
        BY <2>5
      <4>2. PICK l : l = <<j, q>>
        OBVIOUS
      <4>3. PICK m : m = <<i, p>>
        OBVIOUS
      <4>4. Together(l, m)'
        BY <4>1, <4>2, <4>3 DEF Together
      <4>5. QED
        BY <4>1 DEF Together
    <3> SUFFICES ASSUME NEW h \in DOMAIN Ops, NEW o, NEW w, NEW e, NEW r,
                        Describes(h, o, w, e, r), Done(h, o, w, e)'
                 PROVE  <<w, e>> \in DOMAIN known /\ Together(known[<<w, e>>], <<h, r>>)'
      BY <1>2, <1>3, <1>18 DEF DoneUnited
    <3>3. CASE Done(h, o, w, e)
      <4>1. <<w, e>> \in DOMAIN known /\ Together(known[<<w, e>>], <<h, r>>)
        BY <3>3, <1>12 DEF DoneUnited
      <4>2. QED
        BY <4>1, <3>1, <1>18
    <3>4. CASE h = i /\ o = k /\ e = d /\ w = v /\ r = p
      BY <3>4, <3>2, <2>2, <1>18
    <3>5. QED
      BY <3>3, <3>4, <1>10
  <2>11. QED
    BY <1>2, <1>6, <2>6, <2>7, <2>8, <2>9, <2>12 DEF GraphInv
<1>19. QED
  BY <1>14, <1>15, <1>17, <1>18

(* Passing to the next operand. *)
LEMMA NextOperandGraph ==
  ASSUME GraphInv, NextOperand
  PROVE  GraphInv'
<1>1. /\ input' = input /\ at' = [at EXCEPT !.operand = @ + 1, !.dim = 1]
      /\ known' = known /\ classes' = classes
      /\ at.op \in DOMAIN Ops /\ at.operand \in DOMAIN Ops[at.op].operands
      /\ at.dim \notin DOMAIN Ops[at.op].operands[at.operand].map
  BY DEF NextOperand, AtOperand, Operand
<1>2. Ops' = Ops /\ IsInput' /\ IsInput
  BY <1>1 DEF Ops, IsInput, GraphInv
<1>3. /\ \A j, n, w, e, q : Describes(j, n, w, e, q)' <=> Describes(j, n, w, e, q)
      /\ \A c : Connected(c)' <=> Connected(c)
  BY <1>1, StaticDescribes
<1>4. at \in [op : Nat \ {0}, operand : Nat, dim : Nat \ {0}]
  BY DEF GraphInv, IsCursor
<1>5. at.op \in Nat /\ at.operand \in Nat \ {0} /\ at.dim \in Nat \ {0} /\ DOMAIN Ops \subseteq Nat
  BY <1>1, <1>2, <1>4, OpFacts
<1>6. IsCursor' /\ at'.op = at.op /\ at'.operand = at.operand + 1 /\ at'.dim = 1
  <2>1. at' = [op |-> at.op, operand |-> at.operand + 1, dim |-> 1]
    BY <1>1, <1>4
  <2>2. QED
    BY <2>1, <1>4, <1>5 DEF IsCursor
<1>7. LoopsStarted'
  <2>1. at.operand > 0 /\ at'.operand > 0 /\ UNION (classes') = UNION classes
    BY <1>1, <1>5, <1>6
  <2>2. QED
    BY <2>1, <1>1, <1>6, StartedStays
<1>8. ASSUME NEW j \in DOMAIN Ops, NEW n, NEW w, NEW e, NEW q, Describes(j, n, w, e, q), Done(j, n, w, e)'
      PROVE  Done(j, n, w, e)
  <2>1. n \in DOMAIN Ops[j].operands /\ e \in DOMAIN Ops[j].operands[n].map
    BY <1>8 DEF Describes
  <2>2. n \in Nat /\ e \in Nat \ {0} /\ j \in Nat
    BY <2>1, <1>2, <1>5, OpFacts, OperandFacts, SMTT(30)
  <2>3. CASE j = at.op /\ n = at.operand
    <3>1. Len(Ops[j].operands[n].map) \in Nat
          /\ DOMAIN Ops[j].operands[n].map = 1..Len(Ops[j].operands[n].map)
      BY <2>1, <1>2, OperandFacts
    <3>2. e < at.dim
      BY <3>1, <2>1, <2>2, <2>3, <1>1, <1>5
    <3>3. QED
      BY <3>2, <2>3, <2>2, <1>2, <1>5, <1>6, <1>8 DEF Done
  <2>4. CASE ~ (j = at.op /\ n = at.operand)
    BY <2>4, <2>2, <1>2, <1>5, <1>6, <1>8 DEF Done
  <2>5. QED
    BY <2>3, <2>4
<1>9. KnownDescribes /\ DoneUnited /\ Partitioned /\ \A c \in classes : Connected(c)
  BY DEF GraphInv
<1>10. Partitioned' /\ KnownDescribes' /\ \A c \in classes' : Connected(c)'
  BY <1>1, <1>2, <1>3, <1>9 DEF Partitioned, KnownDescribes
<1>11. DoneUnited'
  BY <1>1, <1>2, <1>3, <1>8, <1>9 DEF DoneUnited, Together
<1>12. QED
  BY <1>2, <1>6, <1>7, <1>10, <1>11 DEF GraphInv

(* Defining the result of an operation. *)
LEMMA DefineResultGraph ==
  ASSUME GraphInv, DefineResult
  PROVE  GraphInv'
<1>0. PICK i, v, z : i = at.op /\ v = Ops[at.op].result /\ z = Min(Inits(Ops[at.op]))
  OBVIOUS
<1>1. /\ input' = input /\ at' = [op |-> i + 1, operand |-> 0, dim |-> 1]
      /\ classes' = classes
      /\ i \in DOMAIN Ops /\ at.operand = Len(Ops[i].operands) + 1
  BY <1>0 DEF DefineResult
<1>2. Ops' = Ops /\ IsInput' /\ IsInput
  BY <1>1 DEF Ops, IsInput, GraphInv
<1>3. /\ \A j, n, w, e, q : Describes(j, n, w, e, q)' <=> Describes(j, n, w, e, q)
      /\ \A c : Connected(c)' <=> Connected(c)
  BY <1>1, StaticDescribes
<1>4. at \in [op : Nat \ {0}, operand : Nat, dim : Nat \ {0}]
  BY DEF GraphInv, IsCursor
<1>5. i \in Nat \ {0} /\ at.operand \in Nat \ {0} /\ DOMAIN Ops \subseteq Nat /\ Len(Ops[i].operands) \in Nat
  BY <1>1, <1>2, <1>4, OpFacts
<1>6. IsCursor' /\ at'.op = i + 1 /\ at'.operand = 0 /\ at'.dim = 1
  BY <1>1, <1>4, <1>5 DEF IsCursor
<1>7. LoopsStarted'
  <2>1. \A j \in DOMAIN Ops : Started(j)' <=> Started(j)
    BY <1>0, <1>5, <1>6 DEF Started
  <2>2. \A l : l \in UNION classes <=> \E j \in DOMAIN Ops : Started(j) /\ \E d \in LoopsOf(Ops[j]) : l = <<j, d>>
    BY DEF GraphInv, LoopsStarted
  <2>3. QED
    BY <2>1, <2>2, <1>1, <1>2 DEF LoopsStarted
<1>8. KnownDescribes /\ DoneUnited /\ Partitioned /\ \A c \in classes : Connected(c)
  BY DEF GraphInv
<1>9. known' = [x \in {x \in DOMAIN known : x[1] # v} \cup {<<v, d>> : d \in ResultDims(i)} |->
                  IF x[1] = v THEN <<i, LoopAt(i, z, x[2])>> ELSE known[x]]
  BY <1>0 DEF DefineResult
<1>10. \A w, e : <<w, e>>[1] = w /\ <<w, e>>[2] = e
  OBVIOUS
<1>11. \A w, e : <<w, e>> \in DOMAIN known' <=>
         (w # v /\ <<w, e>> \in DOMAIN known) \/ (w = v /\ e \in ResultDims(i))
  <2>1. DOMAIN known' = {x \in DOMAIN known : x[1] # v} \cup {<<v, d>> : d \in ResultDims(i)}
    BY <1>9
  <2>2. \A w, e, d : <<w, e>> = <<v, d>> <=> w = v /\ e = d
    OBVIOUS
  <2>3. QED
    BY <2>1, <2>2, <1>10
<1>12. \A w, e : <<w, e>> \in DOMAIN known' =>
         known'[<<w, e>>] = IF w = v THEN <<i, LoopAt(i, z, e)>> ELSE known[<<w, e>>]
  BY <1>9, <1>10
<1>13. \A e \in ResultDims(i) : Describes(i, z, v, e, LoopAt(i, z, e))
  <2> SUFFICES ASSUME NEW e \in ResultDims(i) PROVE Describes(i, z, v, e, LoopAt(i, z, e))
    OBVIOUS
  <2>1. /\ Inits(Ops[i]) # {} /\ e \in DOMAIN Ops[i].operands[z].map /\ LoopAt(i, z, e) # 0
        /\ Ops[i].kind = "tiling" => Len(Ops[i].operands[z].map) = Rank(Ops[i])
    BY <1>0 DEF ResultDims
  <2>2. z \in DOMAIN Ops[i].operands
    BY <1>0, <1>1, <1>2, <2>1, InitFacts
  <2>3. v \in ValuesOf(i, z)
    BY <2>1, <1>0 DEF ValuesOf
  <2>4. QED
    BY <2>1, <2>2, <2>3 DEF Describes
<1>14. ASSUME NEW k, NEW e, NEW q, Describes(i, k, v, e, q)
       PROVE  e \in ResultDims(i) /\ q = LoopAt(i, z, e)
  <2>1. k \in DOMAIN Ops[i].operands /\ v \in ValuesOf(i, k) /\ e \in DOMAIN Ops[i].operands[k].map
        /\ LoopAt(i, k, e) = q /\ q # 0
    BY <1>14 DEF Describes
  <2>2. ~ (v = Ops[i].operands[k].val)
    BY <2>1, <1>0, <1>1, <1>2, <1>5, SsaFacts
  <2>3. Inits(Ops[i]) # {} /\ k = z /\ (Ops[i].kind = "tiling" => Len(Ops[i].operands[k].map) = Rank(Ops[i]))
    BY <2>1, <2>2, <1>0 DEF ValuesOf
  <2>4. QED
    BY <2>1, <2>3, <1>0 DEF ResultDims
<1>15. ASSUME NEW j \in DOMAIN Ops, NEW k, NEW e, NEW q, Describes(j, k, v, e, q), j < i
       PROVE  FALSE
  <2>1. k \in DOMAIN Ops[j].operands /\ v \in ValuesOf(j, k)
    BY <1>15 DEF Describes
  <2>2. v = Ops[j].operands[k].val \/ v = Ops[j].result
    BY <2>1 DEF ValuesOf
  <2>3. Ops[j].result = v => i = j
    BY <1>0, <1>1, <1>2, SsaFacts
  <2>4. Ops[j].operands[k].val = v => i < j
    BY <1>0, <1>1, <1>2, <2>1, SsaFacts
  <2>5. QED
    BY <2>2, <2>3, <2>4, <1>5, <1>15
<1>16. KnownDescribes'
  <2>1. ASSUME NEW w, NEW e, <<w, e>> \in DOMAIN known'
        PROVE  \E j \in DOMAIN Ops : \E k, q : /\ Describes(j, k, w, e, q)
                                               /\ known'[<<w, e>>] = <<j, q>> /\ <<j, q>> \in UNION classes
    <3>1. CASE w # v
      <4>1. <<w, e>> \in DOMAIN known /\ known'[<<w, e>>] = known[<<w, e>>]
        BY <2>1, <3>1, <1>11, <1>12
      <4>2. QED
        BY <4>1, <1>8 DEF KnownDescribes
    <3>2. CASE w = v
      <4>1. e \in ResultDims(i) /\ known'[<<w, e>>] = <<i, LoopAt(i, z, e)>>
        BY <2>1, <3>2, <1>11, <1>12
      <4>2. Describes(i, z, v, e, LoopAt(i, z, e))
        BY <4>1, <1>13
      <4>3. LoopAt(i, z, e) \in LoopsOf(Ops[i])
        BY <4>2, <1>1, <1>2, DescribesLoop
      <4>4. Started(i)
        BY <1>0, <1>5 DEF Started
      <4>5. <<i, LoopAt(i, z, e)>> \in UNION classes
        BY <4>3, <4>4, <1>1 DEF GraphInv, LoopsStarted
      <4>6. QED
        BY <4>1, <4>2, <4>5, <3>2, <1>1
    <3>3. QED
      BY <3>1, <3>2
  <2>2. QED
    BY <2>1, <1>1, <1>2, <1>3 DEF KnownDescribes
<1>17. DoneUnited'
  <2>1. ASSUME NEW j \in DOMAIN Ops, NEW k, NEW w, NEW e, NEW q, Describes(j, k, w, e, q), Done(j, k, w, e)'
        PROVE  <<w, e>> \in DOMAIN known' /\ Together(known'[<<w, e>>], <<j, q>>)
    <3>1. k \in DOMAIN Ops[j].operands
      BY <2>1 DEF Describes
    <3>2. j \in Nat /\ k \in Nat /\ j < i + 1 /\ (j = i => k < at.operand)
      <4>1. j \in Nat /\ k \in Nat \ {0} /\ (j = i => k < at.operand)
        BY <3>1, <1>1, <1>2, <1>5, OpFacts
      <4>2. e \in Nat
        BY <2>1, <1>2, DescribesLoop
      <4>3. QED
        BY <4>1, <4>2, <2>1, <1>2, <1>5, <1>6 DEF Done
    <3>3. CASE w # v
      <4>1. Done(j, k, w, e)
        BY <3>2, <3>3, <1>0, <1>5 DEF Done
      <4>2. <<w, e>> \in DOMAIN known /\ Together(known[<<w, e>>], <<j, q>>)
        BY <4>1, <2>1, <1>8 DEF DoneUnited
      <4>3. QED
        BY <4>2, <3>3, <1>11, <1>12
    <3>4. CASE w = v
      <4>1. j = i
        BY <3>2, <3>4, <2>1, <1>5, <1>15
      <4>2. e \in ResultDims(i) /\ q = LoopAt(i, z, e)
        BY <4>1, <3>4, <2>1, <1>14
      <4>3. <<w, e>> \in DOMAIN known' /\ known'[<<w, e>>] = <<j, q>>
        BY <4>1, <4>2, <3>4, <1>11, <1>12
      <4>4. q \in LoopsOf(Ops[j]) /\ Started(j)
        BY <4>1, <2>1, <1>0, <1>2, <1>5, DescribesLoop DEF Started
      <4>5. <<j, q>> \in UNION classes
        BY <4>4 DEF GraphInv, LoopsStarted
      <4>6. QED
        BY <4>3, <4>5 DEF Together
    <3>5. QED
      BY <3>3, <3>4
  <2>2. QED
    BY <2>1, <1>1, <1>2, <1>3 DEF DoneUnited, Together
<1>18. Partitioned' /\ \A c \in classes' : Connected(c)'
  BY <1>1, <1>3, <1>8 DEF Partitioned
<1>19. QED
  BY <1>2, <1>6, <1>7, <1>16, <1>17, <1>18 DEF GraphInv

\* The stages after the analysis.
Planned == {"strategy", "vtcm", "compute", "reconcile", "verify", "encode"}
AnalysisInv == GraphInv /\ (stage \in Planned => at.op \notin DOMAIN Ops /\ root \in DOMAIN Ops /\ Eligible(root))

(* The analysis keeps its invariant, and no later stage touches what it found. *)
LEMMA NextAnalysis ==
  ASSUME AnalysisInv, [Next]_vars
  PROVE  AnalysisInv'
<1>1. GraphInv
  BY DEF AnalysisInv
<1>2. input' = input => Ops' = Ops /\ \A i : Eligible(i)' <=> Eligible(i)
  <2>1. input' = input => Ops' = Ops
    BY DEF Ops
  <2>2. QED
    BY <2>1 DEF Eligible
<1>3. ASSUME UNCHANGED <<input, at, known, classes>> PROVE GraphInv'
  <2>1. Ops' = Ops /\ IsInput' /\ IsCursor' /\ Partitioned'
    BY <1>1, <1>3 DEF Ops, IsInput, IsCursor, Partitioned, GraphInv
  <2>2. /\ \A j, n, w, e, q : Describes(j, n, w, e, q)' <=> Describes(j, n, w, e, q)
        /\ \A c : Connected(c)' <=> Connected(c)
    BY <1>3, StaticDescribes
  <2>3. LoopsStarted'
    BY <1>1, <1>3, <2>1 DEF GraphInv, LoopsStarted, Started
  <2>4. KnownDescribes' /\ \A c \in classes' : Connected(c)'
    BY <1>1, <1>3, <2>1, <2>2 DEF GraphInv, KnownDescribes
  <2>5. DoneUnited'
    <3>1. \A j, n, w, e : Done(j, n, w, e)' <=> Done(j, n, w, e)
      BY <1>3, <2>1 DEF Done
    <3>2. QED
      BY <1>1, <1>3, <2>1, <2>2, <3>1 DEF GraphInv, DoneUnited, Together
  <2>6. QED
    BY <2>1, <2>3, <2>4, <2>5 DEF GraphInv
<1>4. CASE NumberLoops
  <2>1. GraphInv'
    BY <1>1, <1>4, NumberLoopsGraph
  <2>2. stage' = "analyze"
    BY <1>4 DEF NumberLoops
  <2>3. QED
    BY <2>1, <2>2 DEF AnalysisInv, Planned
<1>5. CASE ReadDimension
  <2>1. GraphInv'
    BY <1>1, <1>5, ReadDimensionGraph
  <2>2. stage' = "analyze"
    BY <1>5 DEF ReadDimension, AtOperand
  <2>3. QED
    BY <2>1, <2>2 DEF AnalysisInv, Planned
<1>6. CASE NextOperand
  <2>1. GraphInv'
    BY <1>1, <1>6, NextOperandGraph
  <2>2. stage' = "analyze"
    BY <1>6 DEF NextOperand, AtOperand
  <2>3. QED
    BY <2>1, <2>2 DEF AnalysisInv, Planned
<1>7. CASE DefineResult
  <2>1. GraphInv'
    BY <1>1, <1>7, DefineResultGraph
  <2>2. stage' = "analyze"
    BY <1>7 DEF DefineResult
  <2>3. QED
    BY <2>1, <2>2 DEF AnalysisInv, Planned
<1>8. CASE Preflight
  <2>1. UNCHANGED <<input, at, known, classes>>
    BY <1>8 DEF Preflight
  <2>2. stage' \in {"done", "failed", "analyze"}
    BY <1>8 DEF Preflight, Fail
  <2>3. QED
    BY <2>1, <2>2, <1>3 DEF AnalysisInv, Planned
<1>9. ASSUME NEW i \in DOMAIN Ops, ChooseRoot(i) PROVE AnalysisInv'
  <2>1. UNCHANGED <<input, at, known, classes>> /\ at.op \notin DOMAIN Ops
    BY <1>9 DEF ChooseRoot
  <2>2. stage' = "done" \/ (root' = i /\ Eligible(i))
    BY <1>9 DEF ChooseRoot
  <2>3. QED
    BY <2>1, <2>2, <1>2, <1>3, <1>9 DEF AnalysisInv, Planned
<1>10. ASSUME stage \in Planned, UNCHANGED <<input, at, known, classes, root>> PROVE AnalysisInv'
  BY <1>2, <1>3, <1>10 DEF AnalysisInv
<1>11. CASE SelectStrategy \/ PlanVtcm \/ SelectComputeTiles \/ Reconcile \/ Verify \/ EncodeAndApply
  <2>1. CASE SelectStrategy
    BY <2>1, <1>10 DEF SelectStrategy, Planned
  <2>2. CASE PlanVtcm
    <3>1. stage = "vtcm" /\ UNCHANGED <<input, at, known, classes, root>>
      BY <2>2 DEF PlanVtcm
    <3>2. QED
      BY <3>1, <1>10 DEF Planned
  <2>3. CASE SelectComputeTiles
    BY <2>3, <1>10 DEF SelectComputeTiles, Planned
  <2>4. CASE Reconcile
    <3>1. stage = "reconcile" /\ UNCHANGED <<input, at, known, classes, root>>
      BY <2>4 DEF Reconcile
    <3>2. QED
      BY <3>1, <1>10 DEF Planned
  <2>5. CASE Verify
    BY <2>5, <1>10 DEF Verify, Planned
  <2>6. CASE EncodeAndApply
    BY <2>6, <1>10 DEF EncodeAndApply, Planned
  <2>7. QED
    BY <1>11, <2>1, <2>2, <2>3, <2>4, <2>5, <2>6
<1>12. CASE vars' = vars
  BY <1>2, <1>3, <1>12 DEF vars, AnalysisInv
<1>13. QED
  BY <1>4, <1>5, <1>6, <1>7, <1>8, <1>9, <1>11, <1>12 DEF Next

(* The components are right once everything is read. *)
LEMMA AnalysisInvSays ==
  ASSUME AnalysisInv
  PROVE  AnalysisIsConnectivity
<1> SUFFICES ASSUME stage = "strategy"
             PROVE  /\ UNION classes = UNION {{<<i, d>> : d \in LoopsOf(Ops[i])} : i \in DOMAIN Ops}
                    /\ \A c, e \in classes : c # e => c \cap e = {}
                    /\ \A c \in classes :
                         /\ \A l \in c : \A m \in UNION classes : SameDimension(l, m) => m \in c
                         /\ Connected(c)
  BY DEF AnalysisIsConnectivity, Connected
<1>1. GraphInv /\ at.op \notin DOMAIN Ops
  BY DEF AnalysisInv, Planned
<1>2. \A i \in DOMAIN Ops : i < at.op
  <2>1. Len(Ops) \in Nat /\ DOMAIN Ops = 1..Len(Ops) /\ at.op \in Nat \ {0}
    BY <1>1, OpFacts DEF GraphInv, IsCursor
  <2>2. QED
    BY <2>1, <1>1
<1>3. \A l : l \in UNION classes <=> \E i \in DOMAIN Ops : \E d \in LoopsOf(Ops[i]) : l = <<i, d>>
  BY <1>1, <1>2 DEF GraphInv, LoopsStarted, Started
<1>4. UNION classes = UNION {{<<i, d>> : d \in LoopsOf(Ops[i])} : i \in DOMAIN Ops}
  <2>1. \A l : l \in UNION {{<<i, d>> : d \in LoopsOf(Ops[i])} : i \in DOMAIN Ops}
               <=> \E i \in DOMAIN Ops : \E d \in LoopsOf(Ops[i]) : l = <<i, d>>
    OBVIOUS
  <2>2. QED
    BY <1>3, <2>1
<1>5. \A c, e \in classes : c # e => c \cap e = {}
  BY <1>1 DEF GraphInv, Partitioned
<1>6. ASSUME NEW c \in classes, NEW l \in c, NEW m \in UNION classes, SameDimension(l, m)
      PROVE  m \in c
  <2>1. PICK i \in DOMAIN Ops : \E p \in LoopsOf(Ops[i]) : l = <<i, p>>
    BY <1>3, <1>6
  <2>2. PICK p \in LoopsOf(Ops[i]) : l = <<i, p>>
    BY <2>1
  <2>3. PICK j \in DOMAIN Ops : \E q \in LoopsOf(Ops[j]) : m = <<j, q>>
    BY <1>3, <1>6
  <2>4. PICK q \in LoopsOf(Ops[j]) : m = <<j, q>>
    BY <2>3
  <2>5. p # 0 /\ q # 0
    BY <1>1, OpFacts DEF GraphInv
  <2>6. PICK k, n, v, d : Describes(i, k, v, d, p) /\ Describes(j, n, v, d, q)
    BY <1>6, <2>2, <2>4, <2>5, SameDimensionIs
  <2>7. Done(i, k, v, d) /\ Done(j, n, v, d)
    BY <1>2 DEF Done
  <2>8. Together(known[<<v, d>>], l) /\ Together(known[<<v, d>>], m)
    BY <1>1, <2>2, <2>4, <2>6, <2>7 DEF GraphInv, DoneUnited
  <2>9. PICK a \in classes : known[<<v, d>>] \in a /\ l \in a
    BY <2>8 DEF Together
  <2>10. PICK b \in classes : known[<<v, d>>] \in b /\ m \in b
    BY <2>8 DEF Together
  <2>11. a = b /\ a = c
    BY <1>5, <1>6, <2>9, <2>10
  <2>12. QED
    BY <2>10, <2>11
<1>7. \A c \in classes : Connected(c)
  BY <1>1 DEF GraphInv
<1>8. QED
  BY <1>4, <1>5, <1>6, <1>7

(* DimensionGraph in DispatchAnalysis.cpp: for every dispatch, the equivalence classes it
   builds while it reads operands and results one after the other are the connected
   components of the relation "indexes the same dimension of a value". *)
THEOREM AnalysisIsConnectivityHolds == Spec => []AnalysisIsConnectivity
<1>1. Init => AnalysisInv
  BY InitGraph DEF AnalysisInv, Init, Planned
<1>2. AnalysisInv /\ [Next]_vars => AnalysisInv'
  BY NextAnalysis
<1>3. AnalysisInv => AnalysisIsConnectivity
  BY AnalysisInvSays
<1>4. QED
  BY <1>1, <1>2, <1>3, PTL DEF Spec

----------------------------------------------------------------------------
(* Tile sizes. *)

Tiles == [size : Nat, fixed : BOOLEAN]

\* What the choice of tiles needs of an operation.
IsOp(op) ==
  /\ Rank(op) \in Nat /\ LoopsOf(op) = 1..Rank(op)
  /\ \A d \in LoopsOf(op) : op.iters[d] \in {"p", "r"}
  /\ \A d \in LoopsOf(op) : op.extents[d] \in Nat \cup {Dynamic}
  /\ DestBytes(op) \in Nat

(* The operations of a dispatch are such. *)
LEMMA OpsAreOps == ASSUME IsInput, NEW i \in DOMAIN Ops PROVE IsOp(Ops[i])
<1>1. DestBytes(Ops[i]) \in Nat
  <2>1. 1 \in DOMAIN Ops[i].operands
    BY OpFacts
  <2>2. CASE Inits(Ops[i]) = {}
    BY <2>1, <2>2, OperandFacts DEF DestBytes
  <2>3. CASE Inits(Ops[i]) # {}
    <3>1. Min(Inits(Ops[i])) \in DOMAIN Ops[i].operands
      BY <2>3, InitFacts
    <3>2. QED
      BY <2>3, <3>1, OperandFacts DEF DestBytes
  <2>4. QED
    BY <2>2, <2>3
<1>2. QED
  BY <1>1, OpFacts DEF IsOp

(* The cofactor of a divisor divides as well. *)
LEMMA Cofactor ==
  ASSUME NEW a \in Nat \ {0}, NEW d \in 1..a, a % d = 0
  PROVE  a \div d \in 1..a /\ a % (a \div d) = 0
<1>1. PICK q \in Int : q = a \div d
  OBVIOUS
<1>2. a = d * q
  BY <1>1
<1>3. q >= 1
  BY <1>2
<1>4. q <= a
  BY <1>2, <1>3
<1>5. a = q * d + 0
  BY <1>2
<1>6. a % q = 0
  BY <1>3, <1>5
<1>7. QED
  BY <1>1, <1>3, <1>4, <1>6

(* chooseStaticTilingFactor gives a divisor of a positive bound. *)
LEMMA FactorDivides ==
  ASSUME NEW b \in Nat \ {0}, NEW n \in Nat \ {0}
  PROVE  LET f == ChooseStaticTilingFactor(b, n) IN f \in 1..b /\ b % f = 0
<1> DEFINE small == {d \in 1..b : b % d = 0 /\ d <= b \div d}
           fits == {d \in small : b \div d <= n}
           fitsSmall == {d \in small : d <= n}
<1>1. ChooseStaticTilingFactor(b, n) = IF fits # {} THEN b \div Min(fits) ELSE Max(fitsSmall)
  <2>1. ~ (n <= 0) /\ ~ (b <= 0) /\ b # Dynamic
    BY PlanningAssumption
  <2>2. QED
    BY <2>1 DEF ChooseStaticTilingFactor
<1>2. CASE fits # {}
  <2>1. fits \in SUBSET Nat
    OBVIOUS
  <2>2. Min(fits) \in fits
    BY <2>1, <1>2, MinIn
  <2>3. QED
    BY <1>1, <1>2, <2>2, Cofactor
<1>3. CASE fits = {}
  <2>1. 1 \in fitsSmall
    <3>1. b % 1 = 0 /\ 1 <= b \div 1
      OBVIOUS
    <3>2. QED
      BY <3>1
  <2>2. fitsSmall \in SUBSET (0..b)
    OBVIOUS
  <2>3. Max(fitsSmall) \in fitsSmall
    BY <2>1, <2>2, MaxIn
  <2>4. QED
    BY <1>1, <1>3, <2>3
<1>4. QED
  BY <1>2, <1>3

(* It gives a natural number in any case. *)
LEMMA FactorType ==
  ASSUME NEW b \in Nat \cup {Dynamic}, NEW n \in Nat
  PROVE  ChooseStaticTilingFactor(b, n) \in Nat
<1>1. CASE n <= 0
  BY <1>1 DEF ChooseStaticTilingFactor
<1>2. CASE n > 0 /\ b = Dynamic
  BY <1>2 DEF ChooseStaticTilingFactor
<1>3. CASE n > 0 /\ b # Dynamic /\ b <= 0
  BY <1>3 DEF ChooseStaticTilingFactor, Least
<1>4. CASE n > 0 /\ b # Dynamic /\ b > 0
  BY <1>4, FactorDivides
<1>5. QED
  BY <1>1, <1>2, <1>3, <1>4, PlanningAssumption

(* A vector has at least one element. *)
LEMMA WidthType == ASSUME NEW b \in Nat PROVE VectorWidth(b) \in Nat \ {0}
<1>1. CASE b = 0
  BY <1>1 DEF VectorWidth
<1>2. CASE b # 0
  <2>1. PICK x \in Nat : x = VectorBytes \div b
    BY <1>2, PlanningAssumption
  <2>2. {1, x} \in SUBSET (0..(x + 1)) /\ {1, x} # {} /\ x + 1 \in Nat
    BY <2>1
  <2>3. Max({1, x}) \in {1, x} /\ \A y \in {1, x} : Max({1, x}) >= y
    BY <2>2, MaxIn
  <2>4. Max({1, x}) \in Nat \ {0}
    BY <2>3, <2>1
  <2>5. QED
    BY <2>1, <2>4, <1>2 DEF VectorWidth
<1>3. QED
  BY <1>1, <1>2

----------------------------------------------------------------------------
(* Strategies and compute tiles. *)

Pipelines == {"BufferOps", "MultiTiling", "Hmx", "Conv", "Default"}

\* A strategy whose tiles fit the operation and its pipeline.
IsStrategy(op, s) ==
  /\ s = [pipeline |-> s.pipeline, peel |-> s.peel, dist |-> s.dist, cache |-> s.cache, hmx |-> s.hmx,
          compute |-> s.compute, vtcm |-> s.vtcm]
  /\ s.pipeline \in Pipelines
  /\ s.peel => s.pipeline = "MultiTiling"
  /\ {s.dist, s.cache, s.compute} \subseteq [LoopsOf(op) -> Tiles]
  /\ {s.hmx, s.vtcm} \subseteq [LoopsOf(op) -> Tiles] \cup {<<>>}
  /\ AnyTiled(s.cache) => s.pipeline = "MultiTiling"
  /\ AnyTiled(s.hmx) => s.pipeline = "Hmx"
  /\ s.pipeline = "Default" =>
       ~ AnyTiled(s.dist) /\ \A d \in LoopsOf(op) : s.compute[d].size # 0 => op.iters[d] = "p"

(* Tiles are tiles. *)
LEMMA TileTypes ==
  /\ \A n \in Nat : Tile(n) \in Tiles /\ FixedTile(n) \in Tiles /\ Tile(n).size = n
  /\ \A op : Untiled(op) \in [LoopsOf(op) -> Tiles] /\ ~ AnyTiled(Untiled(op))
             /\ \A d \in LoopsOf(op) : Untiled(op)[d].size = 0
BY DEF Tile, FixedTile, Tiles, Untiled, AnyTiled

(* Tiles bounded by an extent. *)
LEMMA BoundedByType ==
  ASSUME NEW e \in Nat \cup {Dynamic}, NEW n \in Nat
  PROVE  BoundedBy(e, n) \in Nat
BY PlanningAssumption DEF BoundedBy, Least

(* inferInnermostParallelComputeTile tiles parallel loops only. *)
LEMMA InnermostType ==
  ASSUME NEW op, IsOp(op)
  PROVE  /\ InnermostParallelTile(op, DestBytes(op)) \in [LoopsOf(op) -> Tiles]
         /\ \A d \in LoopsOf(op) : InnermostParallelTile(op, DestBytes(op))[d].size # 0 => op.iters[d] = "p"
<1>1. VectorWidth(DestBytes(op)) \in Nat
  BY WidthType DEF IsOp
<1>2. \A d \in LoopsOf(op) : BoundedBy(op.extents[d], VectorWidth(DestBytes(op))) \in Nat
  BY <1>1, BoundedByType DEF IsOp
<1>3. \A d \in LoopsOf(op) :
        LET t == IF d \notin Parallel(op) THEN Tile(0)
                 ELSE IF d = Max(Parallel(op)) THEN Tile(BoundedBy(op.extents[d], VectorWidth(DestBytes(op))))
                 ELSE Tile(1)
        IN  t \in Tiles /\ (t.size # 0 => op.iters[d] = "p")
  BY <1>2, TileTypes DEF Parallel
<1>4. QED
  BY <1>3 DEF InnermostParallelTile

(* inferContractionComputeTile *)
LEMMA ContractionType ==
  ASSUME NEW op, IsOp(op), NEW h
  PROVE  ContractionComputeTile(op, h) \in [LoopsOf(op) -> Tiles]
<1>1. PICK w \in Nat \ {0} : w = VectorWidth(DestBytes(op))
  BY WidthType DEF IsOp
<1>2. {ContractionTile, HmxTile, 1, w, Least(ContractionTile, w), 0} \subseteq Nat
  BY PlanningAssumption DEF Least
<1>3. \A d \in LoopsOf(op) : op.extents[d] \in Nat \cup {Dynamic}
  BY DEF IsOp
<1>4. \A d \in LoopsOf(op) : \A n \in Nat :
        /\ Tile(ChooseStaticTilingFactor(op.extents[d], n)) \in Tiles
        /\ Tile(BoundedBy(op.extents[d], n)) \in Tiles
  BY <1>3, FactorType, BoundedByType, TileTypes
<1>5. Tile(1) \in Tiles /\ Tile(0) \in Tiles /\ FixedTile(HmxTile) \in Tiles
  BY <1>2, TileTypes
<1> DEFINE m == op.con.m[1]
           n == op.con.n[1]
           k == op.con.k[1]
           mTile == IF TransposedRhs(op) THEN 1 ELSE ContractionTile
           nTile == IF TransposedRhs(op) THEN 1 ELSE w
           kTile == IF TransposedRhs(op) THEN w ELSE Least(ContractionTile, w)
           T(d) == CASE d \in Range(op.con.batch) -> Tile(1)
                     [] d = m -> IF h THEN FixedTile(HmxTile)
                                 ELSE Tile(ChooseStaticTilingFactor(op.extents[m], mTile))
                     [] d = n -> IF h THEN FixedTile(HmxTile) ELSE Tile(BoundedBy(op.extents[n], nTile))
                     [] d = k -> IF h THEN Tile(0)
                                 ELSE Tile(ChooseStaticTilingFactor(op.extents[k], kTile))
                     [] OTHER -> Tile(0)
<1>6. ContractionComputeTile(op, h) = [d \in LoopsOf(op) |-> T(d)]
  BY <1>1 DEF ContractionComputeTile
<1>7. {mTile, nTile, kTile} \subseteq Nat
  BY <1>2
<1> HIDE DEF mTile, nTile, kTile, m, n, k
<1>8. ASSUME NEW d \in LoopsOf(op) PROVE T(d) \in Tiles
  <2>1. \A e : e = d => /\ Tile(ChooseStaticTilingFactor(op.extents[e], mTile)) \in Tiles
                        /\ Tile(BoundedBy(op.extents[e], nTile)) \in Tiles
                        /\ Tile(ChooseStaticTilingFactor(op.extents[e], kTile)) \in Tiles
    BY <1>4, <1>7
  <2>2. QED
    BY <2>1, <1>5
<1>9. QED
  BY <1>6, <1>8

(* inferGenericComputeTile *)
LEMMA GenericType ==
  ASSUME NEW op, IsOp(op)
  PROVE  GenericComputeTile(op) \in [LoopsOf(op) -> Tiles]
<1>1. PICK w \in Nat \ {0} : w = VectorWidth(DestBytes(op))
  BY WidthType DEF IsOp
<1>2. GenericReductionTile \in Nat
  BY PlanningAssumption
<1>3. \A d \in LoopsOf(op) : \A n \in Nat :
        /\ Tile(ChooseStaticTilingFactor(op.extents[d], n)) \in Tiles
        /\ Tile(BoundedBy(op.extents[d], n)) \in Tiles
  BY FactorType, BoundedByType, TileTypes DEF IsOp
<1>4. Tile(1) \in Tiles /\ Tile(0) \in Tiles
  BY TileTypes
<1> DEFINE lastR == IF Reductions(op) = {} THEN 0 ELSE Max(Reductions(op))
           vectorizeR == Cardinality(Parallel(op)) >= 2 /\ lastR = Rank(op)
           n == IF vectorizeR THEN w ELSE GenericReductionTile
           T(d) == IF d = lastR THEN Tile(ChooseStaticTilingFactor(op.extents[d], n))
                   ELSE IF d \in Reductions(op) THEN Tile(0)
                   ELSE IF d # Max(Parallel(op)) \/ vectorizeR THEN Tile(1)
                   ELSE Tile(BoundedBy(op.extents[d], w))
<1>5. GenericComputeTile(op) = [d \in LoopsOf(op) |-> T(d)]
  BY <1>1 DEF GenericComputeTile
<1>6. n \in Nat
  BY <1>1, <1>2
<1> HIDE DEF n, lastR, vectorizeR
<1>7. \A d \in LoopsOf(op) : T(d) \in Tiles
  BY <1>1, <1>3, <1>4, <1>6
<1>8. QED
  BY <1>5, <1>7

(* inferConvolutionDistributionTile and inferConvolutionComputeTile *)
LEMMA ConvolutionType ==
  ASSUME NEW op, IsOp(op)
  PROVE  /\ ConvolutionDistributionTile(op) \in [LoopsOf(op) -> Tiles]
         /\ ConvolutionComputeTile(op) \in [LoopsOf(op) -> Tiles]
<1>1. PICK w \in Nat : w = VectorWidth(DestBytes(op))
  BY WidthType DEF IsOp
<1> DEFINE nhwc == IF op.kind = "conv2d" THEN <<1, 1, w, w, 1, 1, w>> ELSE <<1, 1, w, w, 1, w>>
           perm == IF op.kind = "conv2d" THEN <<1, 4, 2, 3, 7, 5, 6>> ELSE <<1, 4, 2, 3, 5, 6>>
           preferred == IF op.nchw THEN [p \in DOMAIN perm |-> nhwc[perm[p]]] ELSE nhwc
<1>2. \A d \in DOMAIN preferred : preferred[d] \in Nat
  <2>1. \A d \in DOMAIN nhwc : nhwc[d] \in Nat
    BY <1>1
  <2>2. \A p \in DOMAIN perm : perm[p] \in DOMAIN nhwc
    OBVIOUS
  <2> HIDE DEF nhwc, perm
  <2>3. QED
    BY <2>1, <2>2
<1> DEFINE T(d) == IF d \notin Parallel(op) THEN Tile(0)
                   ELSE Tile(ChooseStaticTilingFactor(op.extents[d],
                                                      IF d \in DOMAIN preferred THEN preferred[d] ELSE 1))
<1>3. ConvolutionDistributionTile(op) = [d \in LoopsOf(op) |-> T(d)]
  BY <1>1 DEF ConvolutionDistributionTile
<1> HIDE DEF preferred
<1>4. ASSUME NEW d \in LoopsOf(op) PROVE T(d) \in Tiles
  <2>1. PICK x \in Nat : x = IF d \in DOMAIN preferred THEN preferred[d] ELSE 1
    BY <1>2
  <2>2. ChooseStaticTilingFactor(op.extents[d], x) \in Nat
    BY FactorType DEF IsOp
  <2>3. QED
    BY <2>1, <2>2, TileTypes
<1>5. ConvolutionDistributionTile(op) \in [LoopsOf(op) -> Tiles]
  BY <1>3, <1>4
<1>6. ConvolutionComputeTile(op) \in [LoopsOf(op) -> Tiles]
  BY <1>5, TileTypes DEF ConvolutionComputeTile
<1>7. QED
  BY <1>5, <1>6

(* The first match is what one of the candidates offers. *)
LEMMA FirstMatchIs ==
  ASSUME NEW n \in Nat, NEW cs, DOMAIN cs = 1..n, NEW none
  PROVE  FirstMatch(cs, none) = none \/ \E c \in 1..n : FirstMatch(cs, none) \in cs[c]
<1> DEFINE matching == {c \in DOMAIN cs : cs[c] # {}}
<1>1. CASE matching = {}
  BY <1>1 DEF FirstMatch, NoMatch
<1>2. CASE matching # {}
  <2>1. matching \in SUBSET Nat
    OBVIOUS
  <2>2. PICK c \in matching : c = Min(matching)
    BY <2>1, <1>2, MinIn
  <2>3. FirstMatch(cs, none) = CHOOSE s \in cs[c] : TRUE
    BY <1>2, <2>2 DEF FirstMatch, NoMatch
  <2>4. cs[c] # {}
    BY <2>2
  <2>5. QED
    BY <2>2, <2>3, <2>4
<1>3. QED
  BY <1>1, <1>2

Fits(op, p, peel, dist, cache, hmx, compute) ==
  /\ p \in Pipelines /\ (peel => p = "MultiTiling")
  /\ {dist, cache, compute} \subseteq [LoopsOf(op) -> Tiles]
  /\ hmx \in [LoopsOf(op) -> Tiles] \cup {<<>>}
  /\ AnyTiled(cache) => p = "MultiTiling"
  /\ AnyTiled(hmx) => p = "Hmx"
  /\ p = "Default" => /\ ~ AnyTiled(dist)
                      /\ \A d \in LoopsOf(op) : compute[d].size # 0 => op.iters[d] = "p"

(* A strategy put together from tiles that fit. *)
LEMMA StrategyIs ==
  ASSUME NEW op, NEW p, NEW peel, NEW dist, NEW cache, NEW hmx, NEW compute,
         Fits(op, p, peel, dist, cache, hmx, compute)
  PROVE  LET s == Strategy(p, peel, dist, cache, hmx, compute)
         IN  IsStrategy(op, s) /\ s.vtcm = <<>>
<1> DEFINE s == Strategy(p, peel, dist, cache, hmx, compute)
<1>1. s = [pipeline |-> p, peel |-> peel, dist |-> dist, cache |-> cache, hmx |-> hmx,
           compute |-> compute, vtcm |-> <<>>]
  BY DEF Strategy
<1> HIDE DEF s
<1>2. /\ s.pipeline = p /\ s.peel = peel /\ s.dist = dist /\ s.cache = cache /\ s.hmx = hmx
      /\ s.compute = compute /\ s.vtcm = <<>>
  BY <1>1
<1>3. s = [pipeline |-> s.pipeline, peel |-> s.peel, dist |-> s.dist, cache |-> s.cache, hmx |-> s.hmx,
           compute |-> s.compute, vtcm |-> s.vtcm]
  BY <1>1, <1>2
<1>4. IsStrategy(op, s)
  BY <1>2, <1>3 DEF IsStrategy, Fits
<1>5. QED
  BY <1>2, <1>4 DEF s

(* Every strategy the selection can give fits the root. *)
LEMMA SelectedIs ==
  ASSUME NEW op, IsOp(op)
  PROVE  IsStrategy(op, SelectedStrategy(op)) /\ SelectedStrategy(op).vtcm = <<>>
<1> DEFINE Good(s) == IsStrategy(op, s) /\ s.vtcm = <<>>
           U == Untiled(op)
           F == [LoopsOf(op) -> Tiles]
<1>1. U \in F /\ ~ AnyTiled(U) /\ (\A d \in LoopsOf(op) : U[d].size = 0) /\ ~ AnyTiled(<<>>)
  BY TileTypes DEF AnyTiled
<1>2. \A n \in Nat : Tile(n) \in Tiles /\ FixedTile(n) \in Tiles
  BY TileTypes
<1>3. \A d \in LoopsOf(op) : Tile(ChooseStaticTilingFactor(op.extents[d], CacheTileCap)) \in Tiles
  <2>1. CacheTileCap \in Nat
    BY PlanningAssumption
  <2>2. QED
    BY <1>2, <2>1, FactorType DEF IsOp
<1> HIDE DEF U, F
<1>4. Good(MakeDefaultStrategy(op))
  <2>1. MakeDefaultStrategy(op) = Strategy("Default", FALSE, U, U, <<>>, U)
    BY DEF MakeDefaultStrategy, U
  <2>2. Fits(op, "Default", FALSE, U, U, <<>>, U)
    BY <2>1, <1>1 DEF F, Pipelines, Fits
  <2>3. QED
    BY <2>1, <2>2, StrategyIs
<1>5. ASSUME NEW s \in SelectBufferCopyStrategy(op) PROVE Good(s)
  <2> DEFINE t == InnermostParallelTile(op, DestBytes(op))
  <2>1. t \in F
    BY InnermostType DEF F
  <2>2. s = Strategy("BufferOps", FALSE, t, U, <<>>, t)
    BY <1>5 DEF SelectBufferCopyStrategy, NoMatch, Match, U
  <2> HIDE DEF t
  <2>3. Fits(op, "BufferOps", FALSE, t, U, <<>>, t)
    BY <2>1, <2>2, <1>1 DEF F, Pipelines, Fits
  <2>4. QED
    BY <2>1, <2>2, <2>3, StrategyIs
<1>6. ASSUME NEW s \in SelectConvolutionStrategy(op) PROVE Good(s)
  <2>1. s = Strategy("Conv", FALSE, ConvolutionDistributionTile(op), U, <<>>, ConvolutionComputeTile(op))
    BY <1>6 DEF SelectConvolutionStrategy, NoMatch, Match, U
  <2>2. Fits(op, "Conv", FALSE, ConvolutionDistributionTile(op), U, <<>>, ConvolutionComputeTile(op))
    BY <2>1, <1>1, ConvolutionType DEF F, Pipelines, Fits
  <2>3. QED
    BY <2>1, <2>2, StrategyIs
<1>7. ASSUME NEW s \in SelectHmxStrategy(op) PROVE Good(s)
  <2> DEFINE h == [d \in LoopsOf(op) |-> IF d \in Range(op.con.batch) THEN FixedTile(1) ELSE Tile(0)]
  <2>1. s = Strategy("Hmx", FALSE, U, U, h, ContractionComputeTile(op, TRUE))
    BY <1>7 DEF SelectHmxStrategy, NoMatch, Match, U
  <2>2. h \in F
    BY <1>2 DEF F
  <2> HIDE DEF h
  <2>3. ContractionComputeTile(op, TRUE) \in F
    BY ContractionType DEF F
  <2>4. Fits(op, "Hmx", FALSE, U, U, h, ContractionComputeTile(op, TRUE))
    BY <2>1, <2>2, <2>3, <1>1 DEF F, Pipelines, Fits
  <2>5. QED
    BY <2>1, <2>2, <2>4, StrategyIs
<1>8. ASSUME NEW s \in SelectContractionStrategy(op) PROVE Good(s)
  <2> DEFINE c == [d \in LoopsOf(op) |->
                     IF d \in {op.con.m[1], op.con.n[1]}
                       THEN Tile(ChooseStaticTilingFactor(op.extents[d], CacheTileCap))
                     ELSE IF d \in Range(op.con.batch) THEN Tile(1)
                     ELSE Tile(0)]
  <2>1. s = Strategy("MultiTiling", op.tensors, U, c, <<>>, ContractionComputeTile(op, FALSE))
    BY <1>8 DEF SelectContractionStrategy, NoMatch, Match, U
  <2>2. c \in F
    BY <1>2, <1>3 DEF F
  <2> HIDE DEF c
  <2>3. ContractionComputeTile(op, FALSE) \in F
    BY ContractionType DEF F
  <2>4. Fits(op, "MultiTiling", op.tensors, U, c, <<>>, ContractionComputeTile(op, FALSE))
    BY <2>1, <2>2, <2>3, <1>1 DEF F, Pipelines, Fits
  <2>5. QED
    BY <2>1, <2>2, <2>4, StrategyIs, ZenonT(30)
<1>9. ASSUME NEW s \in SelectUnsupportedContractionFallback(op) PROVE Good(s)
  <2>1. s = MakeDefaultStrategy(op)
    BY <1>9 DEF SelectUnsupportedContractionFallback, NoMatch, Match
  <2>2. QED
    BY <2>1, <1>4
<1>10. ASSUME NEW s \in SelectGenericStrategy(op) PROVE Good(s)
  <2> DEFINE c == [d \in LoopsOf(op) |->
                     IF d \in Parallel(op) /\ d # Max(Parallel(op))
                       THEN Tile(ChooseStaticTilingFactor(op.extents[d], CacheTileCap)) ELSE Tile(0)]
  <2>1. s = Strategy("MultiTiling", op.tensors, U, c, <<>>, GenericComputeTile(op))
    BY <1>10 DEF SelectGenericStrategy, NoMatch, Match, U
  <2>2. c \in F
    BY <1>2, <1>3 DEF F
  <2> HIDE DEF c
  <2>3. GenericComputeTile(op) \in F
    BY GenericType DEF F
  <2>4. Fits(op, "MultiTiling", op.tensors, U, c, <<>>, GenericComputeTile(op))
    BY <2>1, <2>2, <2>3, <1>1 DEF F, Pipelines, Fits
  <2>5. QED
    BY <2>1, <2>2, <2>4, StrategyIs
<1>11. ASSUME NEW s \in SelectTilingInterfaceStrategy(op) PROVE Good(s)
  <2> DEFINE t == InnermostParallelTile(op, DestBytes(op))
             p == IF op.kind # "tiling" THEN "MultiTiling" ELSE "Default"
             peel == op.kind # "tiling" /\ op.tensors
  <2>1. t \in F /\ \A d \in LoopsOf(op) : t[d].size # 0 => op.iters[d] = "p"
    BY InnermostType DEF F
  <2>2. s = Strategy(p, peel, U, U, <<>>, t)
    BY <1>11 DEF SelectTilingInterfaceStrategy, Match, U
  <2>3. p \in Pipelines /\ (peel => p = "MultiTiling")
    BY DEF Pipelines
  <2> HIDE DEF t, p, peel
  <2>4. Fits(op, p, peel, U, U, <<>>, t)
    BY <2>1, <2>2, <2>3, <1>1 DEF F, Fits
  <2>5. QED
    BY <2>1, <2>2, <2>4, StrategyIs
<1> DEFINE cs == <<SelectBufferCopyStrategy(op), SelectConvolutionStrategy(op), SelectHmxStrategy(op),
                   SelectContractionStrategy(op), SelectUnsupportedContractionFallback(op),
                   SelectGenericStrategy(op), SelectTilingInterfaceStrategy(op)>>
<1>12. SelectedStrategy(op) = FirstMatch(cs, MakeDefaultStrategy(op))
  BY DEF SelectedStrategy
<1>13. DOMAIN cs = 1..7
  OBVIOUS
<1>14. \A c \in 1..7 : cs[c] = SelectBufferCopyStrategy(op) \/ cs[c] = SelectConvolutionStrategy(op)
         \/ cs[c] = SelectHmxStrategy(op) \/ cs[c] = SelectContractionStrategy(op)
         \/ cs[c] = SelectUnsupportedContractionFallback(op) \/ cs[c] = SelectGenericStrategy(op)
         \/ cs[c] = SelectTilingInterfaceStrategy(op)
  OBVIOUS
<1> HIDE DEF cs, Good
<1>15. \A c \in 1..7 : \A s \in cs[c] : Good(s)
  BY <1>14, <1>5, <1>6, <1>7, <1>8, <1>9, <1>10, <1>11
<1>16. Good(SelectedStrategy(op))
  BY <1>4, <1>12, <1>13, <1>15, FirstMatchIs
<1>17. QED
  BY <1>16 DEF Good

(* selectNonRootComputeTile gives a tile for every loop. *)
LEMMA OwnTileIs ==
  ASSUME NEW op, IsOp(op)
  PROVE  OwnComputeTile(op) \in [LoopsOf(op) -> Tiles]
<1> DEFINE F == [LoopsOf(op) -> Tiles]
           cs == <<SelectBufferCopyComputeTile(op), SelectConvolutionComputeTile(op),
                   SelectContractionComputeTile(op), SelectGenericComputeTile(op),
                   SelectTilingInterfaceComputeTile(op)>>
<1>1. SelectBufferCopyComputeTile(op) \subseteq F
  BY InnermostType DEF SelectBufferCopyComputeTile, Match, NoMatch
<1>2. SelectConvolutionComputeTile(op) \subseteq F
  BY ConvolutionType DEF SelectConvolutionComputeTile, Match, NoMatch
<1>3. SelectContractionComputeTile(op) \subseteq F
  BY ContractionType DEF SelectContractionComputeTile, Match, NoMatch
<1>4. SelectGenericComputeTile(op) \subseteq F
  BY GenericType DEF SelectGenericComputeTile, Match, NoMatch
<1>5. SelectTilingInterfaceComputeTile(op) \subseteq F
  BY InnermostType DEF SelectTilingInterfaceComputeTile, Match
<1>6. Untiled(op) \in F
  BY TileTypes
<1>7. OwnComputeTile(op) = FirstMatch(cs, Untiled(op))
  BY DEF OwnComputeTile
<1>8. DOMAIN cs = 1..5
  OBVIOUS
<1> HIDE DEF F
<1>9. \A c \in 1..5 : cs[c] \subseteq F
  BY <1>1, <1>2, <1>3, <1>4, <1>5
<1> HIDE DEF cs
<1>10. OwnComputeTile(op) \in F
  BY <1>6, <1>7, <1>8, <1>9, FirstMatchIs
<1>11. QED
  BY <1>10 DEF F

----------------------------------------------------------------------------
(* The plan. *)

(* What the pipelines are asked to consume. *)
LEMMA ContractFacts ==
  ASSUME NEW p \in Pipelines
  PROVE  /\ p = "MultiTiling" => Contract(p).peels /\ Contract(p).cache
         /\ p = "Hmx" => Contract(p).hmx
         /\ p # "Default" => Contract(p).refines \/ Contract(p).vectors
         /\ p = "Default" => /\ ~ Contract(p).anchor /\ ~ Contract(p).others
                             /\ Contract(p).scope.common = "lastOnEachSide"
                             /\ Contract(p).scope.reduction = "unused" /\ Contract(p).scope.inner = "unused"
<1>1. CASE p = "BufferOps"
  BY <1>1 DEF Contract
<1>2. CASE p = "MultiTiling"
  BY <1>2 DEF Contract
<1>3. CASE p = "Hmx"
  BY <1>3 DEF Contract
<1>4. CASE p = "Conv"
  BY <1>4 DEF Contract
<1>5. CASE p = "Default"
  BY <1>5 DEF Contract, Scope
<1>6. QED
  BY <1>1, <1>2, <1>3, <1>4, <1>5 DEF Pipelines

\* What is staged into VTCM.
Staged ==
  [d \in LoopsOf(Ops[root]) |-> IF d \in Reductions(Ops[root]) THEN Extent(Ops[root], d) ELSE strategy.vtcm[d].size]
StagedFits == Footprint(Ops[root], Staged) * (IF input.options.doubleBuffer THEN 2 ELSE 1) <= TileBudget
VtcmOk ==
  /\ RequirementsVerify
  /\ strategy.vtcm # <<>> => StagedFits /\ \A d \in LoopsOf(Ops[root]) : strategy.vtcm[d].size # 0
TilesOk ==
  /\ DOMAIN tiles = IF contract.others THEN Others ELSE {}
  /\ \A i \in DOMAIN tiles : tiles[i] \in [LoopsOf(Ops[i]) -> Tiles]
  /\ ~ contract.others => tiles = <<>>
FitOk ==
  contract.scope.common = "root" => \A i \in DOMAIN tiles : \A d \in DOMAIN tiles[i] : FitsRoot(i, d)
LevelsApart ==
  \A i \in DOMAIN config : \A d \in LoopsOf(Ops[i]) :
    \A l, k \in DOMAIN config[i] \cap {"common", "reduction", "inner"} :
      config[i][l][d] # 0 /\ config[i][k][d] # 0 => l = k
DoneOk ==
  stage = "done" /\ reason = "planned" =>
    LevelsApart /\ (strategy.vtcm # <<>> => StagedFits /\ "cache" \notin DOMAIN config[root])

PlanInv ==
  /\ stage \in {"vtcm", "compute", "reconcile", "verify", "encode"} => IsStrategy(Ops[root], strategy)
  /\ stage = "vtcm" => strategy.vtcm = <<>>
  /\ stage \in {"compute", "reconcile", "verify", "encode"} => VtcmOk
  /\ stage \in {"reconcile", "verify", "encode"} => TilesOk
  /\ stage \in {"verify", "encode"} => FitOk
  /\ DoneOk

(* What the search gives up on, or a tile whose footprint fits with every reduction whole. *)
LEMMA SearchedTile ==
  ASSUME IsInput, root \in DOMAIN Ops, ~ UnboundedFootprint(Ops[root]),
         NEW t \in StagedTiles(Ops[root]), t # <<>>
  PROVE  /\ t \in [LoopsOf(Ops[root]) -> Nat \ {0}]
         /\ \A d \in Reductions(Ops[root]) : t[d] = Extent(Ops[root], d)
         /\ Footprint(Ops[root], t) \in 0..SearchBudget
<1>1. PICK op : op = Ops[root]
  OBVIOUS
<1>2. IsOp(op)
  BY <1>1, OpsAreOps
<1>3. \A d \in LoopsOf(op) : Extent(op, d) \in Nat
  BY <1>2, PlanningAssumption DEF Extent, IsOp
<1>4. UNION {1..Extent(op, d) : d \in LoopsOf(op)} \subseteq Nat \ {0}
  BY <1>3
<1>5. \A dims : \A x \in Searched(op, SearchBudget, dims) : x # <<>> =>
        /\ x \in [LoopsOf(op) -> UNION {1..Extent(op, d) : d \in LoopsOf(op)}]
        /\ \A d \in LoopsOf(op) : d \notin dims => x[d] = Extent(op, d)
        /\ Footprint(op, x) \in 0..SearchBudget
  BY DEF Searched
<1>6. Reductions(op) \subseteq LoopsOf(op) /\ \A d \in Reductions(op) : d \notin Parallel(op)
  BY DEF Reductions, Parallel
<1>7. CASE t \in Searched(op, SearchBudget, LoopsOf(op)) /\ KeepsReductionsWhole(op, t)
  <2>1. \A d \in Reductions(op) : op.extents[d] # Dynamic
    BY <1>1 DEF UnboundedFootprint
  <2>2. \A d \in Reductions(op) : t[d] = Extent(op, d)
    BY <2>1, <1>7 DEF KeepsReductionsWhole, Extent
  <2>3. QED
    BY <2>2, <1>1, <1>4, <1>5, <1>7
<1>8. CASE t \in Searched(op, SearchBudget, Parallel(op))
  BY <1>1, <1>4, <1>5, <1>6, <1>8
<1>9. QED
  BY <1>1, <1>7, <1>8 DEF StagedTiles

(* Planning VTCM tiles. *)
LEMMA PlanVtcmInv ==
  ASSUME AnalysisInv, PlanInv, PlanVtcm
  PROVE  PlanInv'
<1>1. /\ stage = "vtcm" /\ input' = input /\ root' = root /\ tiles' = tiles /\ config' = config
  BY DEF PlanVtcm
<1>2. IsInput /\ root \in DOMAIN Ops /\ Eligible(root) /\ Ops' = Ops
  BY <1>1 DEF AnalysisInv, GraphInv, Planned, Ops
<1>3. PICK op : op = Ops[root]
  OBVIOUS
<1>4. IsStrategy(op, strategy) /\ strategy.vtcm = <<>> /\ IsOp(op) /\ op = (Ops[root])'
  BY <1>1, <1>2, <1>3, OpsAreOps DEF PlanInv
<1>5. strategy.peel => contract.peels
  BY <1>4, ContractFacts DEF IsStrategy, contract
<1>6. ASSUME strategy' = strategy, contract.vtcm # "required", stage' = "compute" PROVE PlanInv'
  <2>1. contract' = contract
    BY <1>6 DEF contract
  <2>2. RequirementsVerify'
    BY <1>4, <1>5, <1>6, <2>1 DEF RequirementsVerify
  <2>3. IsStrategy(Ops[root], strategy)'
    BY <1>4, <1>6
  <2>4. VtcmOk'
    BY <1>4, <1>6, <2>2 DEF VtcmOk
  <2>5. QED
    BY <1>6, <2>3, <2>4 DEF PlanInv, DoneOk
<1>7. ASSUME stage' = "failed" PROVE PlanInv'
  BY <1>7 DEF PlanInv, DoneOk
<1>8. CASE contract.vtcm = "unsupported"
  <2>1. strategy' = strategy /\ stage' = "compute"
    BY <1>8 DEF PlanVtcm
  <2>2. QED
    BY <2>1, <1>6, <1>8
<1>9. CASE VtcmUnavailable
  BY <1>6, <1>7, <1>9 DEF VtcmUnavailable, Fail
<1>10. ASSUME NEW t \in StagedTiles(op), t # <<>>, VtcmPlanned(t), ~ UnboundedFootprint(op),
              contract.vtcm # "unsupported"
       PROVE  PlanInv'
  <2>1. /\ t \in [LoopsOf(op) -> Nat \ {0}]
        /\ \A d \in Reductions(op) : t[d] = Extent(op, d)
        /\ Footprint(op, t) \in 0..SearchBudget
    BY <1>2, <1>3, <1>10, SearchedTile
  <2>2. PICK vt : vt = [d \in LoopsOf(op) |-> Tile(t[d])]
    OBVIOUS
  <2>3. PICK ca : ca = [d \in LoopsOf(op) |-> [strategy.cache[d] EXCEPT !.size = 0]]
    OBVIOUS
  <2>4. strategy.cache \in [LoopsOf(op) -> Tiles]
    BY <1>4 DEF IsStrategy
  <2>5. strategy' = [strategy EXCEPT !.vtcm = vt, !.cache = ca]
    <3>1. DOMAIN t = LoopsOf(op) /\ DOMAIN strategy.cache = LoopsOf(op)
      BY <2>1, <2>4
    <3>2. QED
      BY <3>1, <2>2, <2>3, <1>10 DEF VtcmPlanned
  <2>6. ca \in [LoopsOf(op) -> Tiles] /\ ~ AnyTiled(ca)
    <3>1. \A d \in LoopsOf(op) : [strategy.cache[d] EXCEPT !.size = 0] \in Tiles
                                 /\ [strategy.cache[d] EXCEPT !.size = 0].size = 0
      BY <2>4 DEF Tiles
    <3>2. QED
      BY <3>1, <2>3 DEF AnyTiled
  <2>7. vt \in [LoopsOf(op) -> Tiles] /\ \A d \in LoopsOf(op) : vt[d].size = t[d] /\ t[d] # 0
    BY <2>1, <2>2, TileTypes
  <2>8. strategy' = [pipeline |-> strategy.pipeline, peel |-> strategy.peel, dist |-> strategy.dist,
                     cache |-> ca, hmx |-> strategy.hmx, compute |-> strategy.compute, vtcm |-> vt]
    BY <2>5, <1>4 DEF IsStrategy
  <2>9. /\ strategy'.pipeline = strategy.pipeline /\ strategy'.peel = strategy.peel
        /\ strategy'.dist = strategy.dist /\ strategy'.cache = ca /\ strategy'.hmx = strategy.hmx
        /\ strategy'.compute = strategy.compute /\ strategy'.vtcm = vt
    BY <2>8
  <2>10. PICK st : st = strategy'
    OBVIOUS
  <2>11. IsStrategy(op, st)
    <3>1. st = [pipeline |-> st.pipeline, peel |-> st.peel, dist |-> st.dist, cache |-> st.cache,
                hmx |-> st.hmx, compute |-> st.compute, vtcm |-> st.vtcm]
      BY <2>8, <2>9, <2>10
    <3>2. QED
      BY <3>1, <2>6, <2>7, <2>9, <2>10, <1>4 DEF IsStrategy
  <2>12. IsStrategy(Ops[root], strategy)'
    BY <2>10, <2>11, <1>4
  <2>13. vt # <<>>
    <3>1. 1 \in LoopsOf(op)
      BY <1>2, <1>3, <1>4 DEF Eligible, IsOp
    <3>2. 1 \in DOMAIN vt
      BY <2>2, <3>1
    <3>3. QED
      BY <3>2
  <2>14. RequirementsVerify'
    <3>1. contract' = contract
      BY <2>9 DEF contract
    <3>2. QED
      BY <3>1, <2>6, <2>9, <2>13, <1>5, <1>10 DEF RequirementsVerify
  <2>15. Staged' = t
    <3>1. Staged' = [d \in LoopsOf(op) |-> IF d \in Reductions(op) THEN Extent(op, d) ELSE vt[d].size]
      BY <2>9, <1>4 DEF Staged
    <3>2. \A d \in LoopsOf(op) : (IF d \in Reductions(op) THEN Extent(op, d) ELSE vt[d].size) = t[d]
      BY <2>1, <2>7
    <3>3. QED
      BY <3>1, <3>2, <2>1
  <2>16. StagedFits'
    <3>1. PICK f \in Nat : f = Footprint(op, t) /\ f <= SearchBudget
      BY <2>1
    <3>2. f * (IF input.options.doubleBuffer THEN 2 ELSE 1) <= TileBudget
      BY <3>1, PlanningAssumption DEF SearchBudget
    <3>3. Footprint(op, t) = Footprint(Ops[root], Staged)'
      BY <2>15, <1>4
    <3>4. QED
      BY <3>1, <3>2, <3>3, <1>1 DEF StagedFits
  <2>17. VtcmOk'
    <3>1. (\A d \in LoopsOf(Ops[root]) : strategy.vtcm[d].size # 0)'
      BY <2>7, <2>9, <1>4
    <3>2. QED
      BY <3>1, <2>14, <2>16 DEF VtcmOk
  <2>18. stage' = "compute"
    BY <1>10 DEF VtcmPlanned
  <2>19. QED
    BY <2>12, <2>17, <2>18 DEF PlanInv, DoneOk
<1>11. QED
  <2>1. \/ contract.vtcm = "unsupported" \/ VtcmUnavailable
        \/ /\ ~ UnboundedFootprint(op) /\ contract.vtcm # "unsupported"
           /\ \E t \in StagedTiles(op) : IF t = <<>> THEN VtcmUnavailable ELSE VtcmPlanned(t)
    BY <1>3 DEF PlanVtcm
  <2>2. QED
    BY <2>1, <1>8, <1>9, <1>10

(* The tile of the root that bounds a dimension of another operation. *)
LEMMA BoundType ==
  ASSUME IsInput, root \in DOMAIN Ops, IsStrategy(Ops[root], strategy), NEW i, NEW c
  PROVE  Bound(i, c) \in Nat
<1>1. strategy.compute \in [LoopsOf(Ops[root]) -> Tiles]
  BY DEF IsStrategy
<1>2. LoopsOf(Ops[root]) \subseteq Nat
  BY OpFacts
<1>3. ASSUME NEW it, RootTiles(it, c) # {} PROVE strategy.compute[Min(RootTiles(it, c))].size \in Nat
  <2>1. RootTiles(it, c) \subseteq LoopsOf(Ops[root])
    BY DEF RootTiles
  <2>2. Min(RootTiles(it, c)) \in RootTiles(it, c)
    BY <1>2, <1>3, <2>1, MinIn
  <2>3. QED
    BY <1>1, <2>1, <2>2 DEF Tiles
<1>4. QED
  BY <1>3 DEF Bound

(* Reconciliation does not move the bounds. *)
LEMMA BoundsStay ==
  ASSUME input' = input, classes' = classes, root' = root, strategy' = strategy
  PROVE  /\ Ops' = Ops /\ contract' = contract /\ Others' = Others
         /\ \A i, d : Level(i, d)' = Level(i, d)
         /\ \A i, d : Bound(i, Global(i, d))' = Bound(i, Global(i, d))
         /\ \A i : Refinable(Ops[i])' <=> Refinable(Ops[i])
<1>1. Ops' = Ops /\ contract' = contract
  BY DEF Ops, contract
<1>2. \A i, d : Global(i, d)' = Global(i, d)
  BY DEF Global
<1>3. \A c : PresentInRoot(c)' <=> PresentInRoot(c)
  BY <1>1 DEF PresentInRoot
<1>4. \A i, d : Level(i, d)' = Level(i, d)
  BY <1>1, <1>2, <1>3 DEF Level
<1>5. InputProducers' = InputProducers
  <2>1. \A i : ReadBy(i)' = ReadBy(i)
    BY <1>1 DEF ReadBy
  <2>2. QED
    BY <1>1, <2>1 DEF InputProducers
<1>6. \A it, c : RootTiles(it, c)' = RootTiles(it, c)
  BY <1>1 DEF RootTiles
<1>7. \A i, c : Bound(i, c)' = Bound(i, c)
  BY <1>5, <1>6 DEF Bound
<1>8. \A i, d : Bound(i, Global(i, d))' = Bound(i, Global(i, d))
  BY <1>2, <1>7
<1>9. \A i : Refinable(Ops[i])' <=> Refinable(Ops[i])
  BY <1>1 DEF Refinable
<1>10. Others' = Others
  BY <1>1 DEF Others, Eligible
<1>11. QED
  BY <1>1, <1>4, <1>8, <1>9, <1>10

(* Tiles bounded by the tiles of the root fit them. *)
LEMMA ReconciledFits ==
  ASSUME AnalysisInv, stage \in Planned, IsStrategy(Ops[root], strategy), TilesOk,
         input' = input, classes' = classes, root' = root, strategy' = strategy,
         tiles' = [i \in DOMAIN tiles |-> [d \in DOMAIN tiles[i] |->
                     IF Adjusted(i, d) THEN [tiles[i][d] EXCEPT !.size = BoundedTile(i, d)]
                                       ELSE tiles[i][d]]]
  PROVE  /\ TilesOk'
         /\ \A i \in DOMAIN tiles' : \A d \in DOMAIN tiles'[i] : FitsRoot(i, d)'
<1>1. IsInput /\ root \in DOMAIN Ops
  BY DEF AnalysisInv, GraphInv
<1>2. /\ Ops' = Ops /\ contract' = contract /\ Others' = Others
      /\ \A i, d : Level(i, d)' = Level(i, d)
      /\ \A i, d : Bound(i, Global(i, d))' = Bound(i, Global(i, d))
      /\ \A i : Refinable(Ops[i])' <=> Refinable(Ops[i])
  BY BoundsStay
<1>3. \A i \in DOMAIN tiles : tiles[i] \in [LoopsOf(Ops[i]) -> Tiles]
  BY DEF TilesOk
<1>4. DOMAIN tiles' = DOMAIN tiles
  OBVIOUS
<1>5. \A i \in DOMAIN tiles : DOMAIN tiles'[i] = LoopsOf(Ops[i])
  BY <1>3
<1>6. \A i \in DOMAIN tiles : \A d \in LoopsOf(Ops[i]) :
        tiles'[i][d] = IF Adjusted(i, d) THEN [tiles[i][d] EXCEPT !.size = BoundedTile(i, d)] ELSE tiles[i][d]
  BY <1>3
<1>7. ASSUME NEW i \in DOMAIN tiles, NEW d \in LoopsOf(Ops[i])
      PROVE  /\ tiles'[i][d] \in Tiles
             /\ FitsRoot(i, d)'
  <2>1. PICK b \in Nat : b = Bound(i, Global(i, d))
    BY <1>1, BoundType
  <2>2. PICK n \in Nat : n = tiles[i][d].size
    BY <1>3 DEF Tiles
  <2>3. tiles[i][d] \in Tiles
    BY <1>3
  <2>4. Bounded(i, d) <=> Level(i, d) = "common" /\ b # 0 /\ n # 0
    BY <2>1, <2>2 DEF Bounded
  <2>5. BoundedTile(i, d) = IF Refinable(Ops[i]) THEN ChooseStaticTilingFactor(b, n) ELSE b
    BY <2>1, <2>2 DEF BoundedTile
  <2>6. b # 0 /\ n # 0 => /\ BoundedTile(i, d) \in 1..b /\ b % BoundedTile(i, d) = 0
                          /\ Refinable(Ops[i]) \/ BoundedTile(i, d) = b
    <3>1. ASSUME b # 0, n # 0 PROVE ChooseStaticTilingFactor(b, n) \in 1..b /\ b % ChooseStaticTilingFactor(b, n) = 0
      BY <3>1, FactorDivides
    <3>2. b # 0 => b % b = 0
      OBVIOUS
    <3>3. QED
      BY <2>5, <3>1, <3>2
  <2>7. Adjusted(i, d) <=> Bounded(i, d) /\ BoundedTile(i, d) # n
    BY <2>2 DEF Adjusted
  <2>8. PICK m : m = tiles'[i][d].size
    OBVIOUS
  <2>9. tiles'[i][d] \in Tiles /\ m = IF Adjusted(i, d) THEN BoundedTile(i, d) ELSE n
    <3>1. CASE Adjusted(i, d)
      <4>1. PICK z \in Nat : z = BoundedTile(i, d)
        BY <3>1, <2>4, <2>6, <2>7
      <4>2. tiles'[i][d] = [tiles[i][d] EXCEPT !.size = z]
        BY <3>1, <4>1, <1>6
      <4>3. \A x \in Tiles : [x EXCEPT !.size = z] \in Tiles /\ [x EXCEPT !.size = z].size = z
        BY <4>1 DEF Tiles
      <4>4. tiles'[i][d] \in Tiles /\ tiles'[i][d].size = z
        BY <4>2, <4>3, <2>3
      <4>5. QED
        BY <3>1, <4>1, <4>4, <2>8
    <3>2. CASE ~ Adjusted(i, d)
      <4>1. tiles'[i][d] = tiles[i][d]
        BY <3>2, <1>6
      <4>2. QED
        BY <3>2, <4>1, <2>2, <2>3, <2>8
    <3>3. QED
      BY <3>1, <3>2
  <2>10. FitsRoot(i, d)' <=>
           (Level(i, d) = "common" /\ b # 0 /\ m # 0 => m <= b /\ b % m = 0 /\ (Refinable(Ops[i]) \/ m = b))
    <3>1. Bound(i, Global(i, d))' = b /\ Level(i, d)' = Level(i, d) /\ (Refinable(Ops[i])' <=> Refinable(Ops[i]))
      BY <1>2, <2>1
    <3>2. QED
      BY <3>1, <2>8 DEF FitsRoot, Bounded
  <2>11. ASSUME Level(i, d) = "common", b # 0, m # 0
         PROVE  m <= b /\ b % m = 0 /\ (Refinable(Ops[i]) \/ m = b)
    <3>1. n # 0
      BY <2>4, <2>7, <2>9, <2>11
    <3>2. m = BoundedTile(i, d)
      BY <3>1, <2>4, <2>7, <2>9, <2>11
    <3>3. QED
      BY <3>1, <3>2, <2>6, <2>11
  <2>12. QED
    BY <2>9, <2>10, <2>11
<1>8. TilesOk'
  <2>1. \A i \in DOMAIN tiles' : tiles'[i] \in [LoopsOf(Ops[i]) -> Tiles]
    BY <1>3, <1>7
  <2>2. DOMAIN tiles' = IF contract.others THEN Others ELSE {}
    BY <1>4 DEF TilesOk
  <2>3. ~ contract.others => tiles' = <<>>
    <3>1. ASSUME ~ contract.others PROVE tiles = <<>> /\ DOMAIN tiles = {}
      BY <3>1 DEF TilesOk
    <3>2. QED
      BY <3>1
  <2>4. QED
    BY <2>1, <2>2, <2>3, <1>2 DEF TilesOk
<1>9. QED
  BY <1>4, <1>5, <1>7, <1>8

(* A step that leaves the strategy alone leaves what was planned in VTCM alone. *)
LEMMA VtcmStays ==
  ASSUME input' = input, root' = root, strategy' = strategy
  PROVE  /\ Ops' = Ops /\ contract' = contract
         /\ StagedFits' <=> StagedFits
         /\ VtcmOk' <=> VtcmOk
         /\ IsStrategy(Ops[root], strategy)' <=> IsStrategy(Ops[root], strategy)
<1>1. Ops' = Ops /\ contract' = contract
  BY DEF Ops, contract
<1>2. Staged' = Staged
  BY <1>1 DEF Staged
<1>3. StagedFits' <=> StagedFits
  BY <1>1, <1>2 DEF StagedFits
<1>4. RequirementsVerify' <=> RequirementsVerify
  BY <1>1 DEF RequirementsVerify
<1>5. VtcmOk' <=> VtcmOk
  BY <1>1, <1>3, <1>4 DEF VtcmOk
<1>6. QED
  BY <1>1, <1>3, <1>5

(* Selecting a strategy. *)
LEMMA SelectStrategyInv ==
  ASSUME AnalysisInv, SelectStrategy
  PROVE  PlanInv'
<1>1. stage = "strategy" /\ stage' = "vtcm" /\ input' = input /\ root' = root
  BY DEF SelectStrategy
<1>2. IsInput /\ root \in DOMAIN Ops
  BY <1>1 DEF AnalysisInv, GraphInv, Planned
<1>3. PICK op : op = Ops[root]
  OBVIOUS
<1>4. IsOp(op)
  BY <1>2, <1>3, OpsAreOps
<1>5. Ops' = Ops /\ strategy' = SelectedStrategy(op)
  BY <1>1, <1>3 DEF Ops, SelectStrategy
<1>6. PICK st : st = strategy'
  OBVIOUS
<1>7. IsStrategy(op, st) /\ st.vtcm = <<>>
  BY <1>4, <1>5, <1>6, SelectedIs
<1>8. IsStrategy(Ops[root], strategy)' /\ strategy'.vtcm = <<>>
  BY <1>1, <1>3, <1>5, <1>6, <1>7
<1>9. QED
  BY <1>1, <1>8 DEF PlanInv, DoneOk

(* Selecting compute tiles. *)
LEMMA SelectComputeTilesInv ==
  ASSUME AnalysisInv, PlanInv, SelectComputeTiles
  PROVE  PlanInv'
<1>1. stage = "compute" /\ stage' = "reconcile" /\ input' = input /\ root' = root /\ strategy' = strategy
  BY DEF SelectComputeTiles
<1>2. IsInput
  BY DEF AnalysisInv, GraphInv
<1>3. Ops' = Ops /\ contract' = contract /\ Others' = Others
  <2>1. Ops' = Ops /\ contract' = contract
    BY <1>1 DEF Ops, contract
  <2>2. QED
    BY <2>1, <1>1 DEF Others, Eligible
<1>4. VtcmOk' /\ IsStrategy(Ops[root], strategy)'
  BY <1>1, VtcmStays DEF PlanInv
<1>5. PICK D : D = IF contract.others THEN Others ELSE {}
  OBVIOUS
<1>6. tiles' = [i \in D |-> OwnComputeTile(Ops[i])]
  BY <1>5 DEF SelectComputeTiles
<1>7. D \subseteq DOMAIN Ops
  BY <1>5 DEF Others
<1>8. \A i \in D : OwnComputeTile(Ops[i]) \in [LoopsOf(Ops[i]) -> Tiles]
  BY <1>2, <1>7, OpsAreOps, OwnTileIs
<1>9. \A i \in DOMAIN tiles' : tiles'[i] \in [LoopsOf(Ops[i]) -> Tiles]
  BY <1>6, <1>8
<1>10. ~ contract.others => tiles' = <<>>
  BY <1>5, <1>6
<1>11. TilesOk'
  BY <1>3, <1>5, <1>6, <1>9, <1>10 DEF TilesOk
<1>12. QED
  BY <1>1, <1>4, <1>11 DEF PlanInv, DoneOk

(* Bounding them by the tiles of the root. *)
LEMMA ReconcileInv ==
  ASSUME AnalysisInv, PlanInv, Reconcile
  PROVE  PlanInv'
<1>1. stage = "reconcile" /\ input' = input /\ root' = root /\ strategy' = strategy /\ classes' = classes
  BY DEF Reconcile
<1>2. VtcmOk' /\ IsStrategy(Ops[root], strategy)' /\ contract' = contract
  BY <1>1, VtcmStays DEF PlanInv
<1>3. TilesOk /\ IsStrategy(Ops[root], strategy) /\ stage \in Planned
  BY <1>1 DEF PlanInv, Planned
<1>4. CASE contract.scope.common # "root"
  <2>1. stage' = "verify" /\ tiles' = tiles
    BY <1>4 DEF Reconcile
  <2>2. Ops' = Ops /\ Others' = Others
    BY <1>1, BoundsStay
  <2>3. TilesOk'
    BY <1>2, <1>3, <2>1, <2>2 DEF TilesOk
  <2>4. FitOk'
    BY <1>2, <1>4 DEF FitOk
  <2>5. QED
    BY <1>2, <2>1, <2>3, <2>4 DEF PlanInv, DoneOk
<1>5. CASE stage' = "failed"
  BY <1>5 DEF PlanInv, DoneOk
<1>6. CASE contract.scope.common = "root" /\ stage' # "failed"
  <2>1. /\ tiles' = [i \in DOMAIN tiles |-> [d \in DOMAIN tiles[i] |->
                       IF Adjusted(i, d) THEN [tiles[i][d] EXCEPT !.size = BoundedTile(i, d)]
                                         ELSE tiles[i][d]]]
        /\ stage' = "verify"
    BY <1>6 DEF Reconcile, Fail
  <2>2. TilesOk' /\ \A i \in DOMAIN tiles' : \A d \in DOMAIN tiles'[i] : FitsRoot(i, d)'
    BY <1>1, <1>3, <2>1, ReconciledFits
  <2>3. FitOk'
    BY <2>2 DEF FitOk
  <2>4. QED
    BY <1>2, <2>1, <2>2, <2>3 DEF PlanInv, DoneOk
<1>7. QED
  BY <1>4, <1>5, <1>6

(* Verifying changes nothing. *)
LEMMA VerifyInv ==
  ASSUME AnalysisInv, PlanInv, Verify
  PROVE  PlanInv'
<1>1. /\ stage = "verify" /\ stage' \in {"encode", "failed"}
      /\ input' = input /\ root' = root /\ strategy' = strategy /\ classes' = classes /\ tiles' = tiles
  BY DEF Verify, Fail
<1>2. VtcmOk' /\ IsStrategy(Ops[root], strategy)'
  BY <1>1, VtcmStays DEF PlanInv
<1>3. /\ Ops' = Ops /\ contract' = contract /\ Others' = Others
      /\ \A i, d : Level(i, d)' = Level(i, d)
      /\ \A i, d : Bound(i, Global(i, d))' = Bound(i, Global(i, d))
      /\ \A i : Refinable(Ops[i])' <=> Refinable(Ops[i])
  BY <1>1, BoundsStay
<1>4. TilesOk'
  BY <1>1, <1>3 DEF PlanInv, TilesOk
<1>5. FitOk'
  <2>1. \A i, d : FitsRoot(i, d)' <=> FitsRoot(i, d)
    BY <1>1, <1>3 DEF FitsRoot, Bounded
  <2>2. QED
    BY <2>1, <1>1, <1>3 DEF PlanInv, FitOk
<1>6. QED
  BY <1>1, <1>2, <1>4, <1>5 DEF PlanInv, DoneOk

(* The levels an operation is encoded with. *)
LEMMA EncodedIs ==
  ASSUME NEW i, NEW l \in {"distribution", "cache", "common", "reduction", "inner", "vtcm", "hmx"}
  PROVE  LET sizes == CASE l = "distribution" -> IF i = root THEN Sizes(strategy.dist) ELSE <<>>
                        [] l = "cache" -> IF i = root THEN Sizes(strategy.cache) ELSE <<>>
                        [] l = "vtcm" -> IF i = root THEN Sizes(strategy.vtcm) ELSE <<>>
                        [] l = "hmx" -> IF i = root THEN Sizes(strategy.hmx) ELSE <<>>
                        [] OTHER -> LevelSizes(i, AllTiles[i], l)
         IN  /\ l \in DOMAIN Encoded(i) <=>
                  /\ sizes # <<>>
                  /\ (\E d \in DOMAIN sizes : sizes[d] # 0) \/ (i = root /\ contract.anchor /\ l = "distribution")
             /\ l \in DOMAIN Encoded(i) => Encoded(i)[l] = sizes
<1> DEFINE levels == [distribution |-> IF i = root THEN Sizes(strategy.dist) ELSE <<>>,
                      cache |-> IF i = root THEN Sizes(strategy.cache) ELSE <<>>,
                      common |-> LevelSizes(i, AllTiles[i], "common"),
                      reduction |-> LevelSizes(i, AllTiles[i], "reduction"),
                      inner |-> LevelSizes(i, AllTiles[i], "inner"),
                      vtcm |-> IF i = root THEN Sizes(strategy.vtcm) ELSE <<>>,
                      hmx |-> IF i = root THEN Sizes(strategy.hmx) ELSE <<>>]
           sizes == CASE l = "distribution" -> IF i = root THEN Sizes(strategy.dist) ELSE <<>>
                      [] l = "cache" -> IF i = root THEN Sizes(strategy.cache) ELSE <<>>
                      [] l = "vtcm" -> IF i = root THEN Sizes(strategy.vtcm) ELSE <<>>
                      [] l = "hmx" -> IF i = root THEN Sizes(strategy.hmx) ELSE <<>>
                      [] OTHER -> LevelSizes(i, AllTiles[i], l)
<1>1. Encoded(i) = [k \in Given(levels, i = root /\ contract.anchor) |-> levels[k]]
  BY DEF Encoded
<1>2. l \in DOMAIN levels /\ levels[l] = sizes
  OBVIOUS
<1> HIDE DEF levels
<1>3. DOMAIN Encoded(i) = Given(levels, i = root /\ contract.anchor)
  BY <1>1
<1> HIDE DEF sizes
<1>4. l \in Given(levels, i = root /\ contract.anchor) <=>
        /\ sizes # <<>>
        /\ (\E d \in DOMAIN sizes : sizes[d] # 0) \/ (i = root /\ contract.anchor /\ l = "distribution")
  BY <1>2 DEF Given
<1>5. l \in DOMAIN Encoded(i) => Encoded(i)[l] = sizes
  BY <1>1, <1>2, <1>3
<1>6. QED
  BY <1>3, <1>4, <1>5 DEF sizes

(* The root is the one anchor. *)
LEMMA OneAnchor ==
  ASSUME IsInput, root \in DOMAIN Ops, Eligible(root), IsStrategy(Ops[root], strategy), contract.anchor
  PROVE  Anchors = {root}
<1>1. "distribution" \in {"distribution", "cache", "common", "reduction", "inner", "vtcm", "hmx"}
  OBVIOUS
<1>2. \A i : i # root => "distribution" \notin DOMAIN Encoded(i)
  BY <1>1, EncodedIs
<1>3. strategy.dist \in [LoopsOf(Ops[root]) -> Tiles]
  BY DEF IsStrategy
<1>4. 1 \in LoopsOf(Ops[root])
  BY OpsAreOps DEF Eligible, IsOp
<1>5. Sizes(strategy.dist) # <<>>
  <2>1. 1 \in DOMAIN Sizes(strategy.dist)
    BY <1>3, <1>4 DEF Sizes
  <2>2. QED
    BY <2>1
<1>6. "distribution" \in DOMAIN Encoded(root)
  BY <1>1, <1>5, EncodedIs
<1>7. root \in DOMAIN AllTiles
  BY DEF AllTiles
<1>8. QED
  BY <1>2, <1>6, <1>7 DEF Anchors

(* Every loop of an operation is encoded at one level, and the cache is not tiled beside VTCM. *)
LEMMA EncodeInv ==
  ASSUME AnalysisInv, PlanInv, EncodeAndApply
  PROVE  PlanInv'
<1>1. /\ stage = "encode" /\ stage' = "done"
      /\ input' = input /\ root' = root /\ strategy' = strategy
  BY DEF EncodeAndApply
<1>2. IsInput /\ root \in DOMAIN Ops /\ Eligible(root) /\ IsStrategy(Ops[root], strategy) /\ VtcmOk /\ TilesOk
  BY <1>1 DEF AnalysisInv, GraphInv, Planned, PlanInv
<1>3. Ops' = Ops /\ (StagedFits' <=> StagedFits)
  BY <1>1, VtcmStays
<1>4. PICK D : D = {i \in DOMAIN AllTiles : DOMAIN Encoded(i) # {}}
  OBVIOUS
<1>5. config' = [i \in D |-> Encoded(i)]
  BY <1>4 DEF EncodeAndApply
<1>6. DOMAIN config' = D /\ \A i \in D : config'[i] = Encoded(i)
  BY <1>5
<1>7. \A i \in D : AllTiles[i] \in [LoopsOf(Ops[i]) -> Tiles]
  BY <1>2, <1>4 DEF AllTiles, TilesOk, IsStrategy
<1>8. ASSUME NEW i \in D, NEW d \in LoopsOf(Ops[i]),
             NEW l \in DOMAIN Encoded(i) \cap {"common", "reduction", "inner"}, Encoded(i)[l][d] # 0
      PROVE  Level(i, d) = l
  <2>1. Encoded(i)[l] = LevelSizes(i, AllTiles[i], l)
    BY <1>8, EncodedIs
  <2>2. d \in DOMAIN AllTiles[i]
    BY <1>7
  <2>3. LevelSizes(i, AllTiles[i], l)[d] = IF Level(i, d) = l THEN AllTiles[i][d].size ELSE 0
    BY <2>2 DEF LevelSizes
  <2>4. QED
    BY <2>1, <2>3, <1>8
<1>9. LevelsApart'
  <2>1. \A i \in DOMAIN config' : \A d \in LoopsOf(Ops[i]) :
          \A l, k \in DOMAIN config'[i] \cap {"common", "reduction", "inner"} :
            config'[i][l][d] # 0 /\ config'[i][k][d] # 0 => l = k
    BY <1>6, <1>8
  <2>2. QED
    BY <2>1, <1>3 DEF LevelsApart
<1>10. ASSUME strategy.vtcm # <<>> PROVE StagedFits' /\ "cache" \notin DOMAIN config'[root]
  <2>1. StagedFits' /\ ~ AnyTiled(strategy.cache) /\ \A d \in LoopsOf(Ops[root]) : strategy.vtcm[d].size # 0
    BY <1>2, <1>3, <1>10 DEF VtcmOk, RequirementsVerify
  <2>2. strategy.vtcm \in [LoopsOf(Ops[root]) -> Tiles] /\ strategy.cache \in [LoopsOf(Ops[root]) -> Tiles]
    BY <1>2, <1>10 DEF IsStrategy
  <2>3. 1 \in LoopsOf(Ops[root])
    BY <1>2, OpsAreOps DEF Eligible, IsOp
  <2>4. 1 \in DOMAIN Sizes(strategy.vtcm) /\ Sizes(strategy.vtcm)[1] # 0
    BY <2>1, <2>2, <2>3 DEF Sizes
  <2>5. Sizes(strategy.vtcm) # <<>>
    BY <2>4
  <2>6. "vtcm" \in DOMAIN Encoded(root)
    BY <2>4, <2>5, EncodedIs
  <2>7. root \in D
    BY <2>6, <1>4 DEF AllTiles
  <2>8. \A d \in DOMAIN Sizes(strategy.cache) : Sizes(strategy.cache)[d] = 0
    BY <2>1, <2>2 DEF Sizes, AnyTiled
  <2>9. "cache" \notin DOMAIN Encoded(root)
    BY <2>8, EncodedIs
  <2>10. QED
    BY <2>1, <2>7, <2>9, <1>6
<1>11. DoneOk'
  <2>1. strategy'.vtcm # <<>> => StagedFits' /\ "cache" \notin DOMAIN config'[root']
    BY <1>1, <1>10
  <2>2. QED
    BY <2>1, <1>9 DEF DoneOk
<1>12. QED
  BY <1>1, <1>11 DEF PlanInv

(* Nothing is planned before the root is known. *)
LEMMA InitPlan == Init => PlanInv
BY DEF Init, PlanInv, DoneOk

(* Every step keeps what was planned. *)
LEMMA NextPlan ==
  ASSUME AnalysisInv, PlanInv, [Next]_vars
  PROVE  PlanInv'
<1>1. ASSUME stage' \in {"preflight", "analyze", "strategy", "failed"} PROVE PlanInv'
  BY <1>1 DEF PlanInv, DoneOk
<1>2. CASE Preflight
  <2>1. stage' \in {"analyze", "failed"} \/ (stage' = "done" /\ reason' \in {"translated", "default"})
    BY <1>2 DEF Preflight, Fail
  <2>2. QED
    BY <2>1, <1>1 DEF PlanInv, DoneOk
<1>3. CASE NumberLoops
  BY <1>1, <1>3 DEF NumberLoops
<1>4. CASE ReadDimension
  <2>1. stage' = "analyze"
    BY <1>4 DEF ReadDimension, AtOperand
  <2>2. QED
    BY <2>1, <1>1
<1>5. CASE NextOperand
  BY <1>1, <1>5 DEF NextOperand, AtOperand
<1>6. CASE DefineResult
  <2>1. stage' = "analyze"
    BY <1>6 DEF DefineResult
  <2>2. QED
    BY <2>1, <1>1
<1>7. ASSUME NEW i \in DOMAIN Ops, ChooseRoot(i) PROVE PlanInv'
  <2>1. stage' = "strategy" \/ (stage' = "done" /\ reason' = "default")
    BY <1>7 DEF ChooseRoot
  <2>2. QED
    BY <2>1, <1>1 DEF PlanInv, DoneOk
<1>8. CASE vars' = vars
  <2>1. /\ input' = input /\ root' = root /\ strategy' = strategy /\ classes' = classes /\ tiles' = tiles
        /\ stage' = stage /\ reason' = reason /\ config' = config
    BY <1>8 DEF vars
  <2>2. /\ VtcmOk' <=> VtcmOk
        /\ StagedFits' <=> StagedFits
        /\ IsStrategy(Ops[root], strategy)' <=> IsStrategy(Ops[root], strategy)
    BY <2>1, VtcmStays
  <2>3. /\ Ops' = Ops /\ contract' = contract /\ Others' = Others
        /\ \A i, d : Level(i, d)' = Level(i, d)
        /\ \A i, d : Bound(i, Global(i, d))' = Bound(i, Global(i, d))
        /\ \A i : Refinable(Ops[i])' <=> Refinable(Ops[i])
    BY <2>1, BoundsStay
  <2>4. TilesOk' <=> TilesOk
    BY <2>1, <2>3 DEF TilesOk
  <2>5. \A i, d : FitsRoot(i, d)' <=> FitsRoot(i, d)
    BY <2>1, <2>3 DEF FitsRoot, Bounded
  <2>6. FitOk' <=> FitOk
    BY <2>1, <2>3, <2>5 DEF FitOk
  <2>7. DoneOk' <=> DoneOk
    <3>1. LevelsApart' <=> LevelsApart
      BY <2>1, <2>3 DEF LevelsApart
    <3>2. QED
      BY <3>1, <2>1, <2>2 DEF DoneOk
  <2>8. QED
    BY <2>1, <2>2, <2>4, <2>6, <2>7 DEF PlanInv
<1>9. QED
  BY <1>2, <1>3, <1>4, <1>5, <1>6, <1>7, <1>8, SelectStrategyInv, PlanVtcmInv, SelectComputeTilesInv,
     ReconcileInv, VerifyInv, EncodeInv DEF Next

(* The invariant says that what is staged fits. *)
LEMMA PlanInvStaged == ASSUME PlanInv PROVE StagedTilesFit
BY DEF PlanInv, DoneOk, StagedFits, Staged, StagedTilesFit

(* A tile over the loops of an operation is as long as it has loops. *)
LEMMA TileLength ==
  ASSUME NEW op, IsOp(op), NEW t \in [LoopsOf(op) -> Tiles]
  PROVE  Len(t) = Rank(op) /\ \A d \in DOMAIN t : t[d].size >= 0
<1>1. Rank(op) \in Nat /\ LoopsOf(op) = 1..Rank(op)
  BY DEF IsOp
<1>2. t \in [1..Rank(op) -> Tiles]
  BY <1>1
<1>3. t \in Seq(Tiles)
  BY <1>1, <1>2
<1>4. Len(t) = Rank(op)
  BY <1>1, <1>2, <1>3
<1>5. QED
  BY <1>2, <1>4 DEF Tiles

(* The checks of the root. *)
LEMMA RootChecks ==
  ASSUME IsInput, root \in DOMAIN Ops, IsStrategy(Ops[root], strategy)
  PROVE  RootVerifies
<1>1. PICK op : op = Ops[root]
  OBVIOUS
<1>2. IsOp(op)
  BY <1>1, OpsAreOps
<1>3. {strategy.dist, strategy.cache, strategy.compute} \subseteq [LoopsOf(op) -> Tiles]
  BY <1>1 DEF IsStrategy
<1>4. {strategy.hmx, strategy.vtcm} \subseteq [LoopsOf(op) -> Tiles] \cup {<<>>}
  BY <1>1 DEF IsStrategy
<1>5. \A t \in [LoopsOf(op) -> Tiles] : Len(t) = Rank(op) /\ \A d \in DOMAIN t : t[d].size >= 0
  BY <1>2, TileLength
<1>6. AnyTiled(strategy.cache) => contract.cache
  BY ContractFacts DEF IsStrategy, contract
<1>7. AnyTiled(strategy.hmx) => contract.hmx
  BY ContractFacts DEF IsStrategy, contract
<1>8. DOMAIN <<>> = {}
  OBVIOUS
<1>9. \A t \in {strategy.dist, strategy.cache, strategy.compute, strategy.hmx, strategy.vtcm} :
        t \in [LoopsOf(op) -> Tiles] \/ t = <<>>
  BY <1>3, <1>4
<1>10. \A t \in {strategy.dist, strategy.cache, strategy.compute, strategy.hmx, strategy.vtcm} :
         \A d \in DOMAIN t : t[d].size >= 0
  BY <1>5, <1>8, <1>9
<1>11. \A t \in {strategy.dist, strategy.cache, strategy.compute} : Len(t) = Rank(op)
  BY <1>3, <1>5
<1>12. \A t \in {strategy.hmx, strategy.vtcm} : t # <<>> => Len(t) = Rank(op)
  BY <1>4, <1>5
<1>13. QED
  BY <1>1, <1>6, <1>7, <1>10, <1>11, <1>12 DEF RootVerifies

(* Every loop of every operation is in a class. *)
LEMMA ShapeChecks ==
  ASSUME GraphInv, at.op \notin DOMAIN Ops
  PROVE  ShapeVerifies /\ \A i \in DOMAIN Ops : \A d \in LoopsOf(Ops[i]) : <<i, d>> \in Global(i, d)
<1>1. \A i \in DOMAIN Ops : Started(i)
  <2>1. Len(Ops) \in Nat /\ DOMAIN Ops = 1..Len(Ops) /\ at.op \in Nat \ {0}
    BY OpFacts DEF GraphInv, IsCursor
  <2>2. \A i \in DOMAIN Ops : i < at.op
    BY <2>1
  <2>3. QED
    BY <2>2 DEF Started
<1>2. \A i \in DOMAIN Ops : \A d \in LoopsOf(Ops[i]) : \E c \in classes : <<i, d>> \in c
  <2>1. \A i \in DOMAIN Ops : \A d \in LoopsOf(Ops[i]) : <<i, d>> \in UNION classes
    BY <1>1 DEF GraphInv, LoopsStarted
  <2>2. QED
    BY <2>1
<1>3. {} \notin classes
  BY DEF GraphInv, Partitioned
<1>4. \A i \in DOMAIN Ops : \A d \in LoopsOf(Ops[i]) : <<i, d>> \in Global(i, d)
  BY <1>2 DEF Global, ClassOf
<1>5. QED
  BY <1>2, <1>3, <1>4 DEF ShapeVerifies

(* The default pipeline, which neither refines nor vectorizes, consumes what the root carries. *)
LEMMA ConsumptionChecks ==
  ASSUME IsInput, root \in DOMAIN Ops, IsStrategy(Ops[root], strategy), TilesOk,
         \A d \in LoopsOf(Ops[root]) : <<root, d>> \in Global(root, d)
  PROVE  ConsumptionVerifies
<1>1. CASE strategy.pipeline # "Default"
  <2>1. contract.refines \/ contract.vectors
    BY <1>1, ContractFacts DEF IsStrategy, contract
  <2>2. QED
    BY <2>1 DEF ConsumptionVerifies
<1>2. CASE strategy.pipeline = "Default"
  <2>1. "Default" \in Pipelines /\ contract = Contract("Default")
    BY <1>2 DEF Pipelines, contract
  <2>2. /\ ~ contract.anchor /\ ~ contract.others
        /\ contract.scope.common = "lastOnEachSide"
        /\ contract.scope.reduction = "unused" /\ contract.scope.inner = "unused"
    BY <2>1, ContractFacts
  <2>3. DOMAIN tiles = {}
    BY <2>2 DEF TilesOk
  <2>4. DOMAIN AllTiles = {root} /\ AllTiles[root] = strategy.compute
    BY <2>3 DEF AllTiles
  <2>5. DOMAIN strategy.compute = LoopsOf(Ops[root])
    BY DEF IsStrategy
  <2>6. \A l : Carrying(l) \subseteq {root}
    BY <2>4 DEF Carrying
  <2>7. \A d \in LoopsOf(Ops[root]) : strategy.compute[d].size # 0 => Ops[root].iters[d] = "p"
    BY <1>2 DEF IsStrategy
  <2>8. \A d \in LoopsOf(Ops[root]) : strategy.compute[d].size # 0 => Level(root, d) = "common"
    BY <2>7 DEF Level, PresentInRoot
  <2>9. Carrying("reduction") = {} /\ Carrying("inner") = {}
    BY <2>4, <2>5, <2>8 DEF Carrying
  <2>10. ~ HasAnchor
    BY <1>2, <2>2 DEF HasAnchor, IsStrategy
  <2>11. PICK s : s = Carrying("common")
    OBVIOUS
  <2>12. s \subseteq {root} /\ root \in Nat
    BY <2>6, <2>11, OpFacts
  <2>13. LoopConsumes("common", s) = {i \in s : \A j \in s : j <= i}
    BY <2>2, <2>10 DEF LoopConsumes, LastOnEachSide
  <2>14. s \subseteq LoopConsumes("common", s)
    BY <2>12, <2>13
  <2>15. QED
    BY <2>9, <2>11, <2>14 DEF ConsumptionVerifies
<1>3. QED
  BY <1>1, <1>2

(* What the invariants say of the verification. *)
LEMMA PlanInvVerifies ==
  ASSUME AnalysisInv, PlanInv
  PROVE  VerifierAgrees
<1>1. ASSUME stage \in {"verify", "encode"}
      PROVE  /\ GraphInv /\ IsInput /\ at.op \notin DOMAIN Ops /\ root \in DOMAIN Ops /\ Eligible(root)
             /\ IsStrategy(Ops[root], strategy) /\ VtcmOk /\ TilesOk /\ FitOk
  BY <1>1 DEF AnalysisInv, GraphInv, Planned, PlanInv
<1>2. ASSUME stage = "verify" PROVE PlanVerifies
  <2>1. /\ ShapeVerifies
        /\ \A i \in DOMAIN Ops : \A d \in LoopsOf(Ops[i]) : <<i, d>> \in Global(i, d)
    BY <1>1, <1>2, ShapeChecks
  <2>2. RequirementsVerify
    BY <1>1, <1>2 DEF VtcmOk
  <2>3. RootVerifies
    BY <1>1, <1>2, RootChecks
  <2>4. TilesVerify
    <3>1. tiles # <<>> => contract.others
      BY <1>1, <1>2 DEF TilesOk
    <3>2. \A i \in DOMAIN tiles : i \in Others /\ tiles[i] \in [LoopsOf(Ops[i]) -> Tiles]
      BY <1>1, <1>2 DEF TilesOk
    <3>3. \A i \in DOMAIN tiles : \A d \in DOMAIN tiles[i] : tiles[i][d].size >= 0
      BY <3>2 DEF Tiles
    <3>4. QED
      BY <3>1, <3>2, <3>3, <1>1, <1>2 DEF TilesVerify, FitOk
  <2>5. ConsumptionVerifies
    BY <2>1, <1>1, <1>2, ConsumptionChecks
  <2>6. QED
    BY <2>1, <2>2, <2>3, <2>4, <2>5 DEF PlanVerifies
<1>3. ASSUME stage = "encode", contract.anchor PROVE Anchors = {root}
  BY <1>1, <1>3, OneAnchor
<1>4. stage = "done" /\ reason = "planned" => LevelsApart
  BY DEF PlanInv, DoneOk
<1>5. QED
  BY <1>2, <1>3, <1>4 DEF VerifierAgrees, LevelsApart

(* configureDispatch in DispatchPlanner.cpp: for every dispatch, target and setting, a plan that
   selection, VTCM planning and reconciliation produce passes verifyDispatchPlan, encodes
   with the root as its one anchor, and puts no loop of an operation on two levels. *)
THEOREM VerifierAgreesHolds == Spec => []VerifierAgrees
<1>1. Init => AnalysisInv /\ PlanInv
  BY InitGraph, InitPlan DEF AnalysisInv, Init, Planned
<1>2. AnalysisInv /\ PlanInv /\ [Next]_vars => (AnalysisInv /\ PlanInv)'
  BY NextAnalysis, NextPlan
<1>3. AnalysisInv /\ PlanInv => VerifierAgrees
  BY PlanInvVerifies
<1>4. QED
  BY <1>1, <1>2, <1>3, PTL DEF Spec

(* planVTCMTiling in VTCMPlanning.cpp: whatever tiles the search returns within its budget,
   what the VTCM tiling pass stages from a finished plan, with every reduction whole and twice
   if it double-buffers, is within the budget, and the cache is not tiled as well. *)
THEOREM StagedTilesFitHolds == Spec => []StagedTilesFit
<1>1. Init => AnalysisInv /\ PlanInv
  BY InitGraph, InitPlan DEF AnalysisInv, Init, Planned
<1>2. AnalysisInv /\ PlanInv /\ [Next]_vars => (AnalysisInv /\ PlanInv)'
  BY NextAnalysis, NextPlan
<1>3. PlanInv => StagedTilesFit
  BY PlanInvStaged
<1>4. QED
  BY <1>1, <1>2, <1>3, PTL DEF Spec
============================================================================

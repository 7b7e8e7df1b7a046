-------------------------- MODULE TileLoopProofs --------------------------
(***************************************************************************)
(* What the compiler declares for a dispatch is enough for it, whatever    *)
(* its allocations and wherever the pool places its partition.             *)
(***************************************************************************)
EXTENDS TileLoop, WeightedSumProofs, FiniteSetTheorems, TLAPS

-----------------------------------------------------------------------------
(***************************************************************************)
(* Arithmetic of alignments.                                               *)
(***************************************************************************)
(* The largest of two numbers (Max of FiniteSetsExt). *)
LEMMA MaxOfTwo ==
  ASSUME NEW x \in Int, NEW y \in Int
  PROVE  Max({x, y}) = IF x >= y THEN x ELSE y
<1> DEFINE m == IF x >= y THEN x ELSE y
<1>1. m \in {x, y} /\ \A z \in {x, y} : m >= z OBVIOUS
<1>2. \A u \in {x, y} : (\A z \in {x, y} : u >= z) => u = m OBVIOUS
<1> QED BY <1>1, <1>2 DEF Max

(* align_up rounds to the next multiple. *)
LEMMA AlignUpFacts ==
  ASSUME NEW v \in Nat, NEW a \in PowersOf2
  PROVE  /\ AlignUp(v, a) \in Nat /\ AlignUp(v, a) % a = 0
         /\ v <= AlignUp(v, a) /\ AlignUp(v, a) < v + a
BY DEF AlignUp, PowersOf2

(* The same for sizes, which are rounded to the granularities. *)
LEMMA SizeFacts ==
  ASSUME NEW v \in Nat
  PROVE  /\ AlignUp(v, 2048) \in Nat /\ AlignUp(v, 2048) % 2048 = 0
         /\ v <= AlignUp(v, 2048)
         /\ AlignUp(v, 128) \in Nat /\ AlignUp(v, 128) % 128 = 0
         /\ v <= AlignUp(v, 128)
         /\ v > 0 => AlignUp(v, 2048) >= 2048 /\ AlignUp(v, 128) >= 128
BY DEF AlignUp

(* Padding at the front: at most the alignment less the granularity. *)
LEMMA AlignUpPads ==
  ASSUME NEW v \in Nat, v % 2048 = 0, NEW a \in PowersOf2, a >= 2048
  PROVE  AlignUp(v, a) <= v + a - 2048 /\ AlignUp(v, a) % 2048 = 0
BY DEF AlignUp, PowersOf2

(* align_down rounds to the previous multiple. *)
LEMMA AlignDownFacts ==
  ASSUME NEW v \in Nat, NEW a \in PowersOf2
  PROVE  /\ AlignDown(v, a) \in Nat /\ AlignDown(v, a) % a = 0
         /\ AlignDown(v, a) <= v /\ v < AlignDown(v, a) + a
BY DEF AlignDown, PowersOf2

(* Padding at the back: at most the alignment less the granularity. *)
LEMMA AlignDownPads ==
  ASSUME NEW v \in Nat, v % 128 = 0, NEW a \in PowersOf2, a >= 128
  PROVE  v <= AlignDown(v, a) + a - 128 /\ AlignDown(v, a) % 128 = 0
BY DEF AlignDown, PowersOf2

(* A multiple of a larger power of two is one of a smaller. *)
LEMMA MultipleOfSmaller ==
  ASSUME NEW x \in Nat, NEW a \in PowersOf2, NEW b \in PowersOf2, a <= b, x % b = 0
  PROVE  x % a = 0
BY DEF PowersOf2

(* Multiples add up. *)
LEMMA MultiplesAdd ==
  ASSUME NEW x \in Nat, NEW y \in Nat, NEW a \in PowersOf2, x % a = 0, y % a = 0
  PROVE  (x + y) % a = 0
BY DEF PowersOf2

(* Powers of two are numbers. *)
LEMMA PowersAreNat ==
  /\ \A p \in PowersOf2 : p \in Nat
  /\ 128 \in PowersOf2
  /\ 2048 \in PowersOf2
BY DEF PowersOf2

(* Between two of them is a factor of two at least. *)
LEMMA PowersDouble ==
  ASSUME NEW p \in PowersOf2, NEW q \in PowersOf2, q < p
  PROVE  2 * q <= p
BY DEF PowersOf2

(* The next one is less than twice as large. *)
LEMMA NextPower ==
  ASSUME NEW n \in Nat, 1 <= n, n <= 65536
  PROVE  \E p \in PowersOf2 : p >= n /\ p < 2 * n
<1>1. CASE n <= 16
  <2>1. PICK p \in {1, 2, 4, 8, 16} : p >= n /\ p < 2 * n BY <1>1
  <2>2. p \in PowersOf2 BY <2>1 DEF PowersOf2
  <2> QED BY <2>1, <2>2
<1>2. CASE n > 16 /\ n <= 512
  <2>1. PICK p \in {32, 64, 128, 256, 512} : p >= n /\ p < 2 * n BY <1>2
  <2>2. p \in PowersOf2 BY <2>1 DEF PowersOf2
  <2> QED BY <2>1, <2>2
<1>3. CASE n > 512 /\ n <= 8192
  <2>1. PICK p \in {1024, 2048, 4096, 8192} : p >= n /\ p < 2 * n BY <1>3
  <2>2. p \in PowersOf2 BY <2>1 DEF PowersOf2
  <2> QED BY <2>1, <2>2
<1>4. CASE n > 8192
  <2>1. PICK p \in {16384, 32768, 65536} : p >= n /\ p < 2 * n BY <1>4
  <2>2. p \in PowersOf2 BY <2>1 DEF PowersOf2
  <2> QED BY <2>1, <2>2
<1> QED BY <1>1, <1>2, <1>3, <1>4

(* PowerOf2Ceil of an alignment is 0 or a power of two, and is the         *)
(* alignment when that is one.                                             *)
LEMMA CeilFacts ==
  ASSUME NEW n \in Nat, n <= 65536
  PROVE  /\ PowerOf2Ceil(n) \in PowersOf2 \cup {0}
         /\ n \in PowersOf2 => PowerOf2Ceil(n) = n
         /\ n <= 128 => PowerOf2Ceil(n) <= 128
<1>1. CASE n = 0
  <2>1. PowerOf2Ceil(n) = 0 BY <1>1 DEF PowerOf2Ceil
  <2> QED BY <1>1, <2>1
<1>2. CASE n # 0
  <2> DEFINE S == {p \in PowersOf2 : p >= n}
  <2>1. n \in Nat /\ 1 <= n /\ n <= 65536 BY <1>2
  <2>2. PowerOf2Ceil(n) = Min(S) BY <1>2 DEF PowerOf2Ceil
  <2>3. \A p : p \in S <=> p \in PowersOf2 /\ p >= n OBVIOUS
  <2> HIDE DEF S
  <2>4. PICK x \in PowersOf2 : x >= n /\ x < 2 * n BY <2>1, NextPower
  <2>5. ASSUME NEW y \in PowersOf2, y >= n PROVE x <= y
    <3>1. x \in Nat /\ y \in Nat BY PowersAreNat
    <3>2. y < x => 2 * y <= x BY PowersDouble
    <3> QED BY <2>1, <2>4, <2>5, <3>1, <3>2
  <2>6. x \in S /\ \A y \in S : x <= y BY <2>3, <2>4, <2>5
  <2>7. Min(S) \in S /\ \A y \in S : Min(S) <= y BY <2>6 DEF Min
  <2>8. Min(S) \in PowersOf2 /\ Min(S) >= n BY <2>3, <2>7
  <2>9. Min(S) \in Nat BY <2>8, PowersAreNat
  <2>10. ASSUME n \in PowersOf2 PROVE Min(S) = n
    <3>1. n >= n BY <2>1
    <3>2. n \in S BY <2>3, <2>10, <3>1
    <3>3. Min(S) <= n BY <2>7, <3>2
    <3> QED BY <2>1, <2>8, <2>9, <3>3
  <2>11. ASSUME n <= 128 PROVE Min(S) <= 128
    <3>1. 128 \in PowersOf2 BY PowersAreNat
    <3>2. 128 >= n BY <2>1, <2>11
    <3>3. 128 \in S BY <2>3, <3>1, <3>2
    <3> QED BY <2>7, <3>3
  <2>12. PowerOf2Ceil(n) \in PowersOf2 \cup {0} BY <2>2, <2>8
  <2> QED BY <2>2, <2>10, <2>11, <2>12
<1> QED BY <1>1, <1>2

(***************************************************************************)
(* The alignment the compiler reckons with, and the one the runtime uses.  *)
(***************************************************************************)
Reckoned(n) == Max({PowerOf2Ceil(n), MinAllocation})
Honoured(n) == Max({n, MinAllocation})

(* They are the same for each alignment that the runtime supports. *)
LEMMA SameAlignment ==
  ASSUME NEW n \in Nat, n <= 65536
  PROVE  /\ Reckoned(n) \in PowersOf2 /\ Reckoned(n) >= 128
         /\ Honoured(n) \in PowersOf2 => Reckoned(n) = Honoured(n)
         /\ Honoured(n) = IF n >= 128 THEN n ELSE 128
<1> DEFINE c == PowerOf2Ceil(n)
<1>1. c \in PowersOf2 \/ c = 0 BY CeilFacts
<1>2. c \in Nat BY <1>1, PowersAreNat
<1>3. n \in Nat OBVIOUS
<1>4. /\ n \in PowersOf2 => c = n
      /\ n <= 128 => c <= 128
  BY CeilFacts
<1> HIDE DEF c
<1>5. Max({c, 128}) = IF c >= 128 THEN c ELSE 128 BY <1>2, MaxOfTwo
<1>6. Max({n, 128}) = IF n >= 128 THEN n ELSE 128 BY <1>3, MaxOfTwo
<1>7. MinAllocation = 128 BY DEF MinAllocation
<1>8. Max({c, 128}) \in PowersOf2 /\ Max({c, 128}) >= 128
  <2>1. CASE c >= 128 BY <1>1, <1>2, <1>5, <2>1
  <2>2. CASE ~ (c >= 128)
    <3>1. Max({c, 128}) = 128 BY <1>5, <2>2
    <3> QED BY <3>1, PowersAreNat
  <2> QED BY <2>1, <2>2
<1>9. ASSUME Max({n, 128}) \in PowersOf2 PROVE Max({c, 128}) = Max({n, 128})
  <2>1. CASE n >= 128
    <3>1. Max({n, 128}) = n BY <1>6, <2>1
    <3>2. c = n BY <1>4, <1>9, <3>1
    <3> QED BY <1>5, <2>1, <3>1, <3>2
  <2>2. CASE ~ (n >= 128)
    <3>1. c <= 128 BY <1>3, <1>4, <2>2
    <3>2. Max({n, 128}) = 128 BY <1>6, <2>2
    <3> QED BY <1>2, <1>5, <3>1, <3>2
  <2> QED BY <2>1, <2>2
<1>10. Reckoned(n) = Max({c, 128}) /\ Honoured(n) = Max({n, 128})
  BY <1>7 DEF c, Reckoned, Honoured
<1> QED BY <1>6, <1>8, <1>9, <1>10

(* What the compiler counts is a number of bytes. *)
LEMMA AllocBytesType ==
  ASSUME NEW bytes \in Nat, NEW n \in Nat, n <= 65536
  PROVE  PartitionAllocBytes(bytes, n) \in Nat
<1>1. Reckoned(n) \in PowersOf2 /\ Reckoned(n) >= 128 BY SameAlignment
<1>2. Reckoned(n) \in Nat BY <1>1, PowersAreNat
<1>3. CASE Reckoned(n) >= 2048
  <2>1. AlignUp(bytes, 2048) \in Nat BY SizeFacts
  <2>2. PartitionAllocBytes(bytes, n) = AlignUp(bytes, 2048) + Reckoned(n) - 2048
    BY <1>3 DEF PartitionAllocBytes, LargeAlignment, Reckoned
  <2> QED BY <1>2, <1>3, <2>1, <2>2
<1>4. CASE ~ (Reckoned(n) >= 2048)
  <2>1. AlignUp(bytes, 128) \in Nat BY SizeFacts
  <2>2. PartitionAllocBytes(bytes, n) = AlignUp(bytes, 128) + Reckoned(n) - 128
    BY <1>4 DEF PartitionAllocBytes, LargeAlignment, MinAllocation, Reckoned
  <2> QED BY <1>1, <1>2, <1>4, <2>1, <2>2
<1> QED BY <1>3, <1>4
(* The same for the granularities, and for what is left of a size. *)
LEMMA GranulesAdd ==
  ASSUME NEW x \in Nat, NEW y \in Nat
  PROVE  /\ x % 2048 = 0 /\ y % 2048 = 0 => (x + y) % 2048 = 0
         /\ x % 2048 = 0 => x % 128 = 0
         /\ x % 128 = 0 /\ y % 128 = 0 /\ y <= x => x - y \in Nat /\ (x - y) % 128 = 0
         /\ x % 2048 = 0 /\ y % 2048 = 0 /\ y <= x => x - y \in Nat /\ (x - y) % 2048 = 0
OBVIOUS

-----------------------------------------------------------------------------
(***************************************************************************)
(* Allocating from a partition.  Both ends move in their granularity.      *)
(***************************************************************************)
PartOK(p) ==
    /\ p \in [base : Nat, size : Nat, front : Nat, back : Nat]
    /\ p.base % 2048 = 0 /\ p.size % 2048 = 0 /\ p.front % 2048 = 0
    /\ p.back % 128 = 0
    /\ p.front + p.back <= p.size

(* The request for nb bytes aligned to a at partition p has result r: if   *)
(* cost bytes are left it is granted, it takes no more than them, and gets *)
(* a region between the two ends, which then belongs to one of them.       *)
Grants(p, nb, a, cost, r) ==
    /\ r.code \in {"placed", "overflow"}
    /\ p.front + p.back + cost <= p.size => r.code = "placed"
    /\ r.code = "placed" =>
        /\ PartOK(r.part) /\ r.part.base = p.base /\ r.part.size = p.size
        /\ p.front <= r.part.front /\ p.back <= r.part.back
        /\ r.begin \in Nat /\ p.front <= r.begin
        /\ r.begin + nb <= p.size - p.back
        /\ \/ r.begin + nb <= r.part.front
           \/ r.begin >= r.part.size - r.part.back
        /\ r.part.front + r.part.back <= p.front + p.back + cost
        /\ (p.base + r.begin) % a = 0

(* Large alignments, from the front. *)
LEMMA FrontGrants ==
  ASSUME NEW p, PartOK(p), NEW nb \in Nat, NEW a \in PowersOf2, a >= 2048
  PROVE  Grants(p, nb, a, AlignUp(nb, 2048) + a - 2048, FromFront(p, nb, a))
<1> DEFINE u == AlignUp(p.base + p.front, a)
           begin == u - p.base
           size == AlignUp(nb, 2048)
           q == [p EXCEPT !.front = begin + size]
           r == FromFront(p, nb, a)
<1>1. /\ p \in [base : Nat, size : Nat, front : Nat, back : Nat]
      /\ p.base \in Nat /\ p.size \in Nat /\ p.front \in Nat /\ p.back \in Nat
      /\ p.front + p.back <= p.size
  BY DEF PartOK
<1>0. /\ p.base % 2048 = 0 /\ p.size % 2048 = 0 /\ p.front % 2048 = 0
      /\ p.back % 128 = 0
  BY DEF PartOK
<1>2. a \in Nat BY PowersAreNat
<1>3. size \in Nat /\ nb <= size BY SizeFacts
<1>3m. size % 2048 = 0 BY SizeFacts
<1>4. p.base + p.front \in Nat /\ (p.base + p.front) % 2048 = 0
  BY <1>0, <1>1, GranulesAdd
<1>5. u \in Nat /\ p.base + p.front <= u BY <1>4, AlignUpFacts
<1>5m. u % a = 0 BY <1>4, AlignUpFacts
<1>6. u <= p.base + p.front + a - 2048 BY <1>4, AlignUpPads
<1>6m. u % 2048 = 0 BY <1>4, AlignUpPads
<1>7. /\ r.code = IF begin + size <= p.size - p.back THEN "placed" ELSE "overflow"
      /\ r.begin = begin /\ r.part = q
  BY DEF FromFront, Taken, LargeAlignment
<1> HIDE DEF u, size, r
<1>8. begin \in Nat /\ p.front <= begin /\ p.base + begin = u BY <1>1, <1>5
<1>8m. begin % 2048 = 0 BY <1>0, <1>1, <1>5, <1>6m, GranulesAdd
<1>9. q.base = p.base /\ q.size = p.size /\ q.back = p.back /\ q.front = begin + size
  BY <1>1
<1>10. begin + size \in Nat BY <1>3, <1>8
<1>10m. (begin + size) % 2048 = 0 BY <1>3, <1>3m, <1>8, <1>8m, GranulesAdd
<1>11. q \in [base : Nat, size : Nat, front : Nat, back : Nat] BY <1>1, <1>10
<1>12. begin + size <= p.front + size + a - 2048 BY <1>1, <1>2, <1>3, <1>5, <1>6
<1> HIDE DEF begin, q
<1>13. r.code \in {"placed", "overflow"} BY <1>7
<1>14. ASSUME p.front + p.back + (size + a - 2048) <= p.size PROVE r.code = "placed"
  <2>1. begin + size <= p.size - p.back BY <1>1, <1>2, <1>3, <1>8, <1>12, <1>14
  <2> QED BY <1>7, <2>1
<1>15. ASSUME r.code = "placed"
       PROVE  /\ PartOK(q) /\ q.base = p.base /\ q.size = p.size
              /\ p.front <= q.front /\ p.back <= q.back
              /\ begin \in Nat /\ p.front <= begin
              /\ begin + nb <= p.size - p.back
              /\ begin + nb <= q.front \/ begin >= q.size - q.back
              /\ q.front + q.back <= p.front + p.back + (size + a - 2048)
              /\ (p.base + begin) % a = 0
  <2>1. begin + size <= p.size - p.back BY <1>7, <1>15
  <2>2. PartOK(q)
    <3>1. q.front + q.back <= q.size BY <1>1, <1>9, <1>10, <2>1
    <3> QED BY <1>0, <1>9, <1>10m, <1>11, <3>1 DEF PartOK
  <2>3. begin + nb <= p.size - p.back /\ begin + nb <= q.front BY <1>1, <1>3, <1>8, <1>9, <2>1
  <2>4. (p.base + begin) % a = 0 BY <1>5m, <1>8
  <2> QED BY <1>1, <1>2, <1>3, <1>8, <1>9, <1>12, <2>2, <2>3, <2>4
<1>16. Grants(p, nb, a, size + a - 2048, r) BY <1>7, <1>13, <1>14, <1>15 DEF Grants
<1> QED BY <1>16 DEF r, size

(* Small alignments, from the back. *)
LEMMA BackGrants ==
  ASSUME NEW p, PartOK(p), NEW nb \in Nat, NEW a \in PowersOf2, a >= 128, a < 2048
  PROVE  Grants(p, nb, a, AlignUp(nb, 128) + a - 128, FromBack(p, nb, a))
<1> DEFINE size == AlignUp(nb, 128)
           v == p.size - p.back - size
           begin == AlignDown(v, a)
           q == [p EXCEPT !.back = p.size - begin]
           r == FromBack(p, nb, a)
<1>1. /\ p \in [base : Nat, size : Nat, front : Nat, back : Nat]
      /\ p.base \in Nat /\ p.size \in Nat /\ p.front \in Nat /\ p.back \in Nat
      /\ p.front + p.back <= p.size
  BY DEF PartOK
<1>0. /\ p.base % 2048 = 0 /\ p.size % 2048 = 0 /\ p.front % 2048 = 0
      /\ p.back % 128 = 0
  BY DEF PartOK
<1>2. a \in Nat BY PowersAreNat
<1>3. size \in Nat /\ nb <= size BY SizeFacts
<1>3m. size % 128 = 0 BY SizeFacts
<1>4. /\ r.code = IF size <= p.size - p.back /\ begin >= p.front
                  THEN "placed" ELSE "overflow"
      /\ r.begin = begin /\ r.part = q
  BY DEF FromBack, Taken, MinAllocation
<1> HIDE DEF size, r
<1>5. v \in Int BY <1>1, <1>3
<1>6. ASSUME size <= p.size - p.back
      PROVE  /\ v \in Nat /\ begin \in Nat /\ begin <= v /\ v <= begin + a - 128
             /\ begin % a = 0 /\ begin % 128 = 0
  <2>1. p.size % 128 = 0 BY <1>0, <1>1, GranulesAdd
  <2>2. p.size - p.back \in Nat /\ (p.size - p.back) % 128 = 0
    <3>1. p.back <= p.size BY <1>1
    <3> QED BY <1>0, <1>1, <2>1, <3>1, GranulesAdd
  <2>3. v \in Nat /\ v % 128 = 0 BY <1>3, <1>3m, <1>6, <2>2, GranulesAdd
  <2> HIDE DEF v
  <2> QED BY <2>3, AlignDownFacts, AlignDownPads
<1>7. q.base = p.base /\ q.size = p.size /\ q.front = p.front /\ q.back = p.size - begin
  BY <1>1
<1>8. r.code \in {"placed", "overflow"} BY <1>4
<1> HIDE DEF begin
<1>9. ASSUME p.front + p.back + (size + a - 128) <= p.size PROVE r.code = "placed"
  <2>1. size <= p.size - p.back BY <1>1, <1>2, <1>3, <1>9
  <2>2. begin \in Nat /\ v <= begin + a - 128 BY <1>6, <2>1
  <2>3. begin >= p.front BY <1>1, <1>2, <1>3, <1>9, <2>2
  <2> QED BY <1>4, <2>1, <2>3
<1>10. ASSUME r.code = "placed"
       PROVE  /\ PartOK(q) /\ q.base = p.base /\ q.size = p.size
              /\ p.front <= q.front /\ p.back <= q.back
              /\ begin \in Nat /\ p.front <= begin
              /\ begin + nb <= p.size - p.back
              /\ begin + nb <= q.front \/ begin >= q.size - q.back
              /\ q.front + q.back <= p.front + p.back + (size + a - 128)
              /\ (p.base + begin) % a = 0
  <2>1. size <= p.size - p.back /\ begin >= p.front BY <1>4, <1>10
  <2>2. v \in Nat /\ begin \in Nat /\ begin <= v /\ v <= begin + a - 128
    BY <1>6, <2>1
  <2>2m. begin % a = 0 /\ begin % 128 = 0 BY <1>6, <2>1
  <2>3. p.size - begin \in Nat /\ (p.size - begin) % 128 = 0
    <3>1. p.size % 128 = 0 BY <1>0, <1>1, GranulesAdd
    <3>2. begin <= p.size BY <1>1, <1>3, <2>2
    <3> QED BY <1>1, <2>2, <2>2m, <3>1, <3>2, GranulesAdd
  <2>4. q \in [base : Nat, size : Nat, front : Nat, back : Nat] BY <1>1, <2>3
  <2> HIDE DEF q
  <2>5. PartOK(q)
    <3>1. q.front + q.back <= q.size BY <1>1, <1>7, <2>1, <2>2
    <3> QED BY <1>0, <1>7, <2>3, <2>4, <3>1 DEF PartOK
  <2>6. begin + nb <= p.size - p.back /\ begin >= q.size - q.back
    BY <1>1, <1>3, <1>7, <2>2
  <2>7. p.back <= q.back /\ q.front + q.back <= p.front + p.back + (size + a - 128)
    BY <1>1, <1>2, <1>3, <1>7, <2>2
  <2>8. (p.base + begin) % a = 0
    <3>1. 2048 \in PowersOf2 /\ a <= 2048 BY <1>2, PowersAreNat
    <3>2. p.base % a = 0 BY <1>0, <1>1, <3>1, MultipleOfSmaller
    <3> QED BY <1>1, <2>2, <2>2m, <3>2, MultiplesAdd
  <2> QED BY <1>1, <1>7, <2>1, <2>2, <2>5, <2>6, <2>7, <2>8
<1> HIDE DEF q
<1>11. Grants(p, nb, a, size + a - 128, r) BY <1>4, <1>8, <1>9, <1>10 DEF Grants
<1> QED BY <1>11 DEF r, size

(* hexagon_rt_vtcm_partition_alloc against getPartitionAllocBytes: what    *)
(* the compiler counted is enough for the request.                         *)
LEMMA AllocGrants ==
  ASSUME NEW p, PartOK(p), NEW nb \in Nat, NEW n \in Nat, n <= 65536
  PROVE  \/ nb = 0 /\ PartitionAlloc(p, nb, n) = [code |-> "placed", begin |-> 0, part |-> p]
         \/ nb > 0 /\ PartitionAlloc(p, nb, n).code = "aborted"
         \/ /\ nb > 0 /\ Honoured(n) \in PowersOf2
            /\ Grants(p, nb, Honoured(n), PartitionAllocBytes(nb, n), PartitionAlloc(p, nb, n))
<1> DEFINE a == Honoured(n)
           r == PartitionAlloc(p, nb, n)
           cost == PartitionAllocBytes(nb, n)
<1>0. r = AllocAligned(p, nb, a) BY DEF PartitionAlloc, Honoured
<1> HIDE DEF a, r, cost
<1>1. CASE nb = 0
  <2>1. r = Taken(TRUE, 0, p) BY <1>0, <1>1 DEF AllocAligned
  <2> QED BY <1>1, <2>1 DEF Taken, r
<1>2. CASE nb > 0 /\ a \notin PowersOf2
  <2>1. nb # 0 BY <1>2
  <2>2. r = [code |-> "aborted", begin |-> 0, part |-> p]
    BY <1>0, <1>2, <2>1 DEF AllocAligned
  <2>3. r.code = "aborted" BY <2>2
  <2> QED BY <1>2, <2>3 DEF r
<1>3. CASE nb > 0 /\ a \in PowersOf2
  <2>0. nb # 0 BY <1>3
  <2>1. a = Reckoned(n) /\ a >= 128 BY <1>3, SameAlignment DEF a
  <2>2. a \in Nat BY <1>3, PowersAreNat
  <2>3. /\ a > p.size => r = [code |-> "overflow", begin |-> 0, part |-> p]
        /\ ~ (a > p.size) /\ a >= 2048 => r = FromFront(p, nb, a)
        /\ ~ (a > p.size) /\ ~ (a >= 2048) => r = FromBack(p, nb, a)
    BY <1>0, <1>3, <2>0 DEF AllocAligned, LargeAlignment, Taken
  <2>4. cost = IF a >= 2048 THEN AlignUp(nb, 2048) + a - 2048
                            ELSE AlignUp(nb, 128) + a - 128
    BY <2>1 DEF PartitionAllocBytes, Reckoned, LargeAlignment, MinAllocation, cost
  <2>5. cost \in Nat BY AllocBytesType DEF cost
  <2>6. /\ AlignUp(nb, 2048) \in Nat /\ AlignUp(nb, 2048) >= 2048
        /\ AlignUp(nb, 128) \in Nat /\ AlignUp(nb, 128) >= 128
    BY <1>3, SizeFacts
  <2>7. cost >= a BY <2>2, <2>4, <2>6
  <2>8. CASE a > p.size
    <3>1. r.code = "overflow" BY <2>3, <2>8
    <3>2. p.front \in Nat /\ p.back \in Nat /\ p.size \in Nat BY DEF PartOK
    <3>3. ~ (p.front + p.back + cost <= p.size) BY <2>2, <2>5, <2>7, <2>8, <3>2
    <3>4. Grants(p, nb, a, cost, r) BY <3>1, <3>3 DEF Grants
    <3> QED BY <1>3, <3>4 DEF a, r, cost
  <2>9. CASE ~ (a > p.size) /\ a >= 2048
    <3>1. Grants(p, nb, a, AlignUp(nb, 2048) + a - 2048, FromFront(p, nb, a))
      BY <1>3, <2>9, FrontGrants
    <3>2. r = FromFront(p, nb, a) BY <2>3, <2>9
    <3>3. cost = AlignUp(nb, 2048) + a - 2048 BY <2>4, <2>9
    <3>4. Grants(p, nb, a, cost, r) BY <3>1, <3>2, <3>3
    <3> QED BY <1>3, <3>4 DEF a, r, cost
  <2>10. CASE ~ (a > p.size) /\ ~ (a >= 2048)
    <3>1. a < 2048 BY <2>2, <2>10
    <3>2. Grants(p, nb, a, AlignUp(nb, 128) + a - 128, FromBack(p, nb, a))
      BY <1>3, <2>1, <3>1, BackGrants
    <3>3. r = FromBack(p, nb, a) BY <2>3, <2>10
    <3>4. cost = AlignUp(nb, 128) + a - 128 BY <2>4, <2>10
    <3>5. Grants(p, nb, a, cost, r) BY <3>2, <3>3, <3>4
    <3> QED BY <1>3, <3>5 DEF a, r, cost
  <2> QED BY <2>8, <2>9, <2>10
<1> QED BY <1>1, <1>2, <1>3

-----------------------------------------------------------------------------
(***************************************************************************)
(* The loop as the passes keep it: allocations with known fields, and      *)
(* slices of threads that are multiples of the alignment.                  *)
(***************************************************************************)
SlicesAligned(allocs) ==
    \A b \in DOMAIN allocs :
        allocs[b].align \in PowersOf2 => allocs[b].slice % allocs[b].align = 0

LoopOK(l) ==
    /\ DOMAIN l = LoopFields
    /\ l.step \in Nat \ {0}
    /\ IsFiniteSet(DOMAIN l.allocs)
    /\ l.allocs \in [DOMAIN l.allocs -> Allocations]
    /\ SlicesAligned(l.allocs)
    /\ l.order \in Seq(DOMAIN l.allocs)
    /\ \A j, k \in DOMAIN l.order : l.order[j] = l.order[k] => j = k

(* The items of the body do not matter here. *)
LEMMA NewItems ==
  ASSUME NEW l, LoopOK(l), NEW x
  PROVE  LoopOK([l EXCEPT !.items = x])
<1> DEFINE m == [l EXCEPT !.items = x]
<1>1. DOMAIN m = LoopFields BY DEF LoopOK
<1>2. m.step = l.step /\ m.allocs = l.allocs /\ m.order = l.order
  BY DEF LoopOK, LoopFields
<1> HIDE DEF m
<1> QED BY <1>1, <1>2 DEF LoopOK, m

(* A pass may give the same allocations other sizes. *)
LEMMA NewAllocs ==
  ASSUME NEW l, LoopOK(l), NEW f \in [DOMAIN l.allocs -> Allocations], SlicesAligned(f),
         NEW s, NEW m,
         m = [l EXCEPT !.allocs = f] \/ m = [l EXCEPT !.allocs = f, !.slice = s]
  PROVE  LoopOK(m)
<1>1. DOMAIN m = LoopFields BY DEF LoopOK
<1>2. m.step = l.step /\ m.allocs = f /\ m.order = l.order
  BY DEF LoopOK, LoopFields
<1>3. DOMAIN f = DOMAIN l.allocs OBVIOUS
<1> QED BY <1>1, <1>2, <1>3 DEF LoopOK

-----------------------------------------------------------------------------
(***************************************************************************)
(* The passes keep loops what they are.                                    *)
(***************************************************************************)
(* A member of Allocations, field by field. *)
LEMMA AllocationFields ==
  ASSUME NEW a \in Allocations
  PROVE  /\ a.bytes \in Nat /\ a.align \in Nat /\ a.align <= 65536
         /\ a.slice \in Nat /\ a.dynamic \in BOOLEAN /\ a.inLoop \in BOOLEAN
<1>1. a.bytes \in Nat /\ a.align \in 0 .. MaxAlignment /\ a.slice \in Nat
      /\ a.dynamic \in BOOLEAN /\ a.inLoop \in BOOLEAN
  BY DEF Allocations
<1>2. MaxAlignment \in Nat /\ MaxAlignment <= 65536
  BY DEF MaxAlignment
<1>3. a.align \in Nat /\ a.align <= MaxAlignment
  BY <1>1, <1>2
<1>4. a.align <= 65536
  BY <1>2, <1>3
<1> QED BY <1>1, <1>3, <1>4

(* Allocations of other sizes *)
LEMMA Resized ==
  ASSUME NEW a \in Allocations, NEW n \in Nat, NEW c, c = [a EXCEPT !.bytes = n]
  PROVE  c \in Allocations /\ c.align = a.align /\ c.slice = a.slice
BY DEF Allocations

(* and elsewhere. *)
LEMMA Moved ==
  ASSUME NEW a \in Allocations, NEW v \in BOOLEAN, NEW c, c = [a EXCEPT !.inLoop = v]
  PROVE  c \in Allocations /\ c.align = a.align /\ c.slice = a.slice
BY DEF Allocations

(* A product of numbers is one. *)
LEMMA Product == ASSUME NEW x \in Nat, NEW y \in Nat PROVE x * y \in Nat
OBVIOUS

(* A slice keeps the alignment (HexagonPrivatizeThreadAllocations). *)
LEMMA SliceFacts ==
  ASSUME NEW a \in Allocations
  PROVE  /\ PaddedSlice(a) \in Nat
         /\ a.align \in PowersOf2 => PaddedSlice(a) % a.align = 0
<1>1. a.bytes \in Nat /\ a.align \in Nat BY AllocationFields
<1>2. CASE a.align = 0
  <2>1. PaddedSlice(a) = a.bytes BY <1>2 DEF PaddedSlice
  <2>2. a.align \notin PowersOf2 BY <1>2 DEF PowersOf2
  <2> QED BY <1>1, <2>1, <2>2
<1>3. CASE a.align # 0
  <2> DEFINE d == (a.bytes + a.align - 1) \div a.align
  <2>1. PaddedSlice(a) = AlignUp(a.bytes, a.align) BY <1>3 DEF PaddedSlice
  <2>2. d \in Nat
    <3>1. a.bytes + a.align - 1 \in Nat /\ a.align > 0 BY <1>1, <1>3
    <3> DEFINE e == a.bytes + a.align - 1
               f == a.align
    <3>2. e \in Nat /\ f \in Nat /\ f > 0 BY <1>1, <3>1
    <3> HIDE DEF e, f
    <3>3. e \div f \in Nat BY <3>2
    <3> QED BY <3>3 DEF e, f
  <2>3. AlignUp(a.bytes, a.align) = d * a.align BY DEF AlignUp
  <2> HIDE DEF d
  <2>4. PaddedSlice(a) \in Nat BY <1>1, <2>1, <2>2, <2>3, Product
  <2>5. a.align \in PowersOf2 => AlignUp(a.bytes, a.align) % a.align = 0
    BY <1>1, AlignUpFacts
  <2> QED BY <2>1, <2>4, <2>5
<1> QED BY <1>2, <1>3

(* HexagonLowerVTCMStaging. *)
LEMMA LoweredOK == ASSUME NEW l, LoopOK(l) PROVE LoopOK(Lowered(l))
<1> DEFINE x == LET kept == SelectSeq(l.items, LAMBDA i :
                        i.op = "stage" => ~IsEmptyBacked(l, i))
                IN  [k \in DOMAIN kept |->
                        IF kept[k].op = "stage" THEN [kept[k] EXCEPT !.op = "load"]
                                                ELSE kept[k]]
<1>1. Lowered(l) = [l EXCEPT !.items = x] BY DEF Lowered
<1> HIDE DEF x
<1> QED BY <1>1, NewItems

(* Double buffering. *)
LEMMA DoubleBufferedOK == ASSUME NEW l, LoopOK(l) PROVE LoopOK(DoubleBuffered(l))
<1> DEFINE D == DOMAIN l.allocs
           f == [b \in D |-> IF b \in Staged(l)
                    THEN [l.allocs[b] EXCEPT !.bytes = kNumBuffers * l.allocs[b].bytes]
                    ELSE l.allocs[b]]
<1>1. l.allocs \in [D -> Allocations] /\ SlicesAligned(l.allocs) BY DEF LoopOK
<1>2. DoubleBuffered(l) = [l EXCEPT !.allocs = f] BY DEF DoubleBuffered
<1>3. ASSUME NEW b \in D
      PROVE  /\ f[b] \in Allocations /\ f[b].align = l.allocs[b].align
             /\ f[b].slice = l.allocs[b].slice
  <2> DEFINE a == l.allocs[b]
  <2>1. a \in Allocations BY <1>1
  <2>2. f[b] = IF b \in Staged(l) THEN [a EXCEPT !.bytes = kNumBuffers * a.bytes] ELSE a
    OBVIOUS
  <2> HIDE DEF f, a
  <2>3. kNumBuffers * a.bytes \in Nat BY <2>1, AllocationFields DEF kNumBuffers
  <2>4. CASE b \in Staged(l)
    <3>1. f[b] = [a EXCEPT !.bytes = kNumBuffers * a.bytes] BY <2>2, <2>4
    <3>2. f[b] \in Allocations /\ f[b].align = a.align /\ f[b].slice = a.slice
      BY <2>1, <2>3, <3>1, Resized
    <3> QED BY <3>2 DEF a
  <2>5. CASE b \notin Staged(l)
    <3>1. f[b] = a BY <2>2, <2>5
    <3> QED BY <2>1, <3>1 DEF a
  <2> QED BY <2>4, <2>5
<1>4. DOMAIN f = D OBVIOUS
<1>4f. f = [b \in D |-> f[b]] OBVIOUS
<1> HIDE DEF f
<1>5. f \in [D -> Allocations] BY <1>3, <1>4f
<1>6. SlicesAligned(f) BY <1>1, <1>3, <1>4 DEF SlicesAligned
<1> QED BY <1>2, <1>5, <1>6, NewAllocs

(* Slices for threads. *)
LEMMA PrivatizedOK == ASSUME NEW l, LoopOK(l) PROVE LoopOK(PrivatizedAllocations(l))
<1> DEFINE D == DOMAIN l.allocs
           B == {b \in D : l.allocs[b].inThreads}
           f == [b \in D |-> IF b \in B THEN Privatized(l.allocs[b], Chunks(l)) ELSE l.allocs[b]]
           s == IF B = {} THEN 1 ELSE Max({PaddedSlice(l.allocs[b]) : b \in B})
<1>1. /\ l.allocs \in [D -> Allocations] /\ SlicesAligned(l.allocs)
      /\ Chunks(l) \in Nat
  BY DEF LoopOK, Chunks
<1>2. PrivatizedAllocations(l) = [l EXCEPT !.allocs = f, !.slice = s]
  BY DEF PrivatizedAllocations
<1> HIDE DEF s
<1>3. ASSUME NEW b \in D
      PROVE  /\ f[b] \in Allocations
             /\ f[b].align \in PowersOf2 => f[b].slice % f[b].align = 0
  <2> DEFINE a == l.allocs[b]
             n == Chunks(l) * PaddedSlice(a)
  <2>1. a \in Allocations BY <1>1
  <2>2. f[b] = IF b \in B THEN Privatized(a, Chunks(l)) ELSE a OBVIOUS
  <2>3. a.align \in PowersOf2 => a.slice % a.align = 0 BY <1>1 DEF SlicesAligned
  <2> HIDE DEF f, B, a
  <2>4. PaddedSlice(a) \in Nat /\ (a.align \in PowersOf2 => PaddedSlice(a) % a.align = 0)
    BY <2>1, SliceFacts
  <2>5. n \in Nat BY <1>1, <2>4, Product
  <2>6. CASE b \in B
    <3>1. f[b] = [a EXCEPT !.bytes = n, !.inThreads = FALSE, !.slice = PaddedSlice(a)]
      BY <2>2, <2>6 DEF Privatized
    <3> DEFINE c == f[b]
               q == PaddedSlice(a)
    <3>2. q \in Nat /\ c = [a EXCEPT !.bytes = n, !.inThreads = FALSE, !.slice = q]
      BY <2>4, <3>1
    <3> HIDE DEF n, c, q
    <3>3. c \in Allocations /\ c.align = a.align /\ c.slice = q
      BY <2>1, <2>5, <3>2 DEF Allocations
    <3> QED BY <2>4, <3>3 DEF c, q
  <2>7. CASE b \notin B
    <3>1. f[b] = a BY <2>2, <2>7
    <3> QED BY <2>1, <2>3, <3>1
  <2> QED BY <2>6, <2>7
<1>4. DOMAIN f = D OBVIOUS
<1>4f. f = [b \in D |-> f[b]] OBVIOUS
<1> HIDE DEF f
<1>5. f \in [D -> Allocations] BY <1>3, <1>4f
<1>6. SlicesAligned(f) BY <1>3, <1>4 DEF SlicesAligned
<1> QED BY <1>2, <1>5, <1>6, NewAllocs

(* Hoisting. *)
LEMMA HoistedOK == ASSUME NEW l, LoopOK(l) PROVE LoopOK(Hoisted(l))
<1> DEFINE D == DOMAIN l.allocs
           f == [b \in D |-> [l.allocs[b] EXCEPT !.inLoop = @ /\ l.allocs[b].dynamic]]
<1>1. l.allocs \in [D -> Allocations] /\ SlicesAligned(l.allocs) BY DEF LoopOK
<1>2. Hoisted(l) = [l EXCEPT !.allocs = f] BY DEF Hoisted
<1>3. ASSUME NEW b \in D
      PROVE  /\ f[b] \in Allocations /\ f[b].align = l.allocs[b].align
             /\ f[b].slice = l.allocs[b].slice
  <2> DEFINE a == l.allocs[b]
             c == a.inLoop /\ a.dynamic
  <2>1. a \in Allocations BY <1>1
  <2>2. f[b] = [a EXCEPT !.inLoop = c] OBVIOUS
  <2>3. c \in BOOLEAN OBVIOUS
  <2> HIDE DEF f, c, a
  <2>4. f[b] \in Allocations /\ f[b].align = a.align /\ f[b].slice = a.slice
    BY <2>1, <2>2, <2>3, Moved
  <2> QED BY <2>4 DEF a
<1>4. DOMAIN f = D OBVIOUS
<1>4f. f = [b \in D |-> f[b]] OBVIOUS
<1> HIDE DEF f
<1>5. f \in [D -> Allocations] BY <1>3, <1>4f
<1>6. SlicesAligned(f) BY <1>1, <1>3, <1>4 DEF SlicesAligned
<1> QED BY <1>2, <1>5, <1>6, NewAllocs

-----------------------------------------------------------------------------
(***************************************************************************)
(* The invariant.  Types and what the passes have declared:                *)
(***************************************************************************)
Bytes(l) ==
    [b \in DOMAIN l.allocs |-> PartitionAllocBytes(l.allocs[b].bytes, l.allocs[b].align)]
First(l, n) == {l.order[j] : j \in 1 .. n}

Types ==
    /\ LoopOK(loop)
    /\ DOMAIN compiled = {"pipelined", "code", "vtcm", "threads", "bounded"}
    /\ compiled.vtcm \in Nat /\ compiled.threads \in Nat
    /\ compiled.bounded \in BOOLEAN
    /\ PartOK(part)

Declared ==
    phase \in {"launch", "workgroup", "allocate", "run"} =>
        /\ compiled.bounded => compiled.vtcm = DeclaredVtcm(loop)
        /\ Threaded(compiled.code) => Chunks(loop) <= compiled.threads

(* The partition has the declared size, and hands out no more of it than   *)
(* was counted for the allocations so far.                                 *)
Counted ==
    /\ phase \in {"workgroup", "allocate", "run"} => compiled.vtcm <= part.size
    /\ phase = "allocate" /\ compiled.bounded =>
           part.front + part.back <= SumOver(Bytes(loop), First(loop, Len(placed)))
    /\ compiled.bounded => phase # "overflow"

(* A region belongs to one end of the partition, or is empty. *)
RegionOK(p, a, pt) ==
    /\ \/ p.begin = 0 /\ p.end = 0
       \/ p.end <= pt.front
       \/ p.begin >= pt.size - pt.back
    /\ a.align \in PowersOf2 /\ a.bytes > 0 => (pt.base + p.begin) % a.align = 0

Apart(p, q) == p.end <= q.begin \/ q.end <= p.begin

Regions ==
    /\ placed \in Seq([buf : DOMAIN loop.allocs, begin : Nat, end : Nat])
    /\ phase \in {"tile", "pipeline", "privatize", "threads", "annotate", "launch"}
           => placed = <<>>
    /\ Len(placed) <= Len(loop.order)
    /\ \A k \in 1 .. Len(placed) :
           RegionOK(placed[k], loop.allocs[placed[k].buf], part)
    /\ \A j, k \in 1 .. Len(placed) : j < k => Apart(placed[j], placed[k])

(* Tasks exist while a compute on threads waits for them. *)
Busy == {t \in Threads : running[t] # Nothing}

Tasks ==
    /\ spawned \in Nat /\ ended \in Nat /\ pool \in Seq(Nat)
    /\ running \in [Threads -> [row : Nat, at : {"idle", "gather", "write"}]]
    /\ Len(pool) + Cardinality(Busy) + ended = spawned
    /\ spawned > 0 => /\ At("compute") /\ Now.item.threads
                      /\ spawned <= Chunks(loop)

PartitionInv == Types /\ Declared /\ Counted /\ Regions
Inv == PartitionInv /\ Tasks

-----------------------------------------------------------------------------
(* The bytes counted for the allocations add up to a number. *)
LEMMA BytesType ==
  ASSUME NEW l, LoopOK(l)
  PROVE  /\ IsFiniteSet(DOMAIN l.allocs) /\ DOMAIN Bytes(l) = DOMAIN l.allocs
         /\ \A b \in DOMAIN l.allocs : Bytes(l)[b] \in Nat
         /\ DeclaredVtcm(l) = SumOver(Bytes(l), DOMAIN l.allocs)
         /\ DeclaredVtcm(l) \in Nat
<1>1. IsFiniteSet(DOMAIN l.allocs) /\ l.allocs \in [DOMAIN l.allocs -> Allocations]
  BY DEF LoopOK
<1>2. ASSUME NEW b \in DOMAIN l.allocs PROVE Bytes(l)[b] \in Nat
  <2>1. l.allocs[b] \in Allocations BY <1>1
  <2>2. l.allocs[b].bytes \in Nat /\ l.allocs[b].align \in Nat /\ l.allocs[b].align <= 65536
    BY <2>1, AllocationFields
  <2>3. Bytes(l)[b] = PartitionAllocBytes(l.allocs[b].bytes, l.allocs[b].align)
    BY DEF Bytes
  <2> QED BY <2>2, <2>3, AllocBytesType
<1>3. DOMAIN Bytes(l) = DOMAIN l.allocs BY DEF Bytes
<1>4. DeclaredVtcm(l) = SumOver(Bytes(l), DOMAIN l.allocs) BY DEF DeclaredVtcm, Bytes
<1>5. SumOver(Bytes(l), DOMAIN l.allocs) \in Nat BY <1>1, <1>2, SumType
<1> QED BY <1>1, <1>2, <1>3, <1>4, <1>5

(* No tasks outside of a compute. *)
LEMMA NoTasks ==
  ASSUME Tasks, phase # "run" \/ ~ At("compute")
  PROVE  spawned = 0
BY DEF Tasks, At

(* Without tasks, only they matter. *)
LEMMA TasksFrame ==
  ASSUME Tasks, spawned = 0, UNCHANGED taskVars
  PROVE  Tasks'
<1>1. Busy' = Busy /\ spawned' = spawned /\ ended' = ended /\ pool' = pool
      /\ running' = running
  BY DEF Busy, taskVars
<1> QED BY <1>1 DEF Tasks

(* Steps of the run that leave the partition alone. *)
LEMMA PartitionFrame ==
  ASSUME PartitionInv, UNCHANGED <<phase, compileVars, partVars>>
  PROVE  PartitionInv'
<1>1. phase' = phase /\ loop' = loop /\ compiled' = compiled /\ part' = part
      /\ placed' = placed
  BY DEF compileVars, partVars
<1>2. Types' BY <1>1 DEF PartitionInv, Types
<1>3. Declared' BY <1>1 DEF PartitionInv, Declared
<1>4. Counted' BY <1>1 DEF PartitionInv, Counted
<1>5. Regions' BY <1>1 DEF PartitionInv, Regions
<1> QED BY <1>2, <1>3, <1>4, <1>5 DEF PartitionInv

(* Passes: nothing is placed yet. *)
LEMMA PassStep ==
  ASSUME PartitionInv, LoopOK(loop'), Declared', UNCHANGED partVars,
         phase \in {"tile", "pipeline", "privatize", "threads", "annotate"},
         phase' \in {"pipeline", "privatize", "threads", "annotate", "launch", "failed"},
         DOMAIN compiled' = {"pipelined", "code", "vtcm", "threads", "bounded"},
         compiled'.vtcm \in Nat, compiled'.threads \in Nat, compiled'.bounded \in BOOLEAN
  PROVE  PartitionInv'
<1>1. part' = part /\ placed' = <<>> BY DEF PartitionInv, Regions, partVars
<1>2. Types' BY <1>1 DEF PartitionInv, Types
<1>3. Counted' BY DEF Counted
<1>4. Len(loop.order') \in Nat
  <2>1. loop.order' \in Seq(DOMAIN loop'.allocs) BY DEF LoopOK
  <2> QED BY <2>1
<1>5. Regions' BY <1>1, <1>4 DEF Regions
<1> QED BY <1>2, <1>3, <1>5 DEF PartitionInv

(* Before the first pass. *)
LEMMA InitInv == Init => Inv
<1> SUFFICES ASSUME Init PROVE Inv OBVIOUS
<1>1. LoopOK(loop)
  <2>1. /\ loop \in Loops
        /\ DOMAIN loop = LoopFields /\ loop.step \in Nat \ {0}
        /\ IsFiniteSet(DOMAIN loop.allocs)
        /\ loop.allocs \in [DOMAIN loop.allocs -> Allocations]
        /\ \A b \in DOMAIN loop.allocs : loop.allocs[b].slice = 0
        /\ loop.order \in Seq(DOMAIN loop.allocs)
        /\ \A j, k \in DOMAIN loop.order : loop.order[j] = loop.order[k] => j = k
    BY LoopsAssumption DEF Init
  <2>2. \A a \in PowersOf2 : 0 % a = 0 BY DEF PowersOf2
  <2>3. SlicesAligned(loop.allocs) BY <2>1, <2>2 DEF SlicesAligned
  <2> QED BY <2>1, <2>3 DEF LoopOK
<1>2. PartOK(part)
  <2>1. part = [base |-> 0, size |-> AlignUp(0, 2048), front |-> 0, back |-> 0]
    BY DEF Init, NoPart, Acquired, LargeAlignment
  <2>2. AlignUp(0, 2048) = 0 BY DEF AlignUp
  <2> QED BY <2>1, <2>2 DEF PartOK
<1>3. Types
  <2>1. compiled = [pipelined |-> FALSE, code |-> <<>>, vtcm |-> 0, threads |-> 1,
                    bounded |-> TRUE]
    BY DEF Init
  <2> QED BY <1>1, <1>2, <2>1 DEF Types
<1>4. Declared /\ Counted BY DEF Init, Declared, Counted
<1>5. Regions
  <2>1. placed = <<>> BY DEF Init
  <2>2. loop.order \in Seq(DOMAIN loop.allocs) BY <1>1 DEF LoopOK
  <2>3. Len(loop.order) \in Nat BY <2>2
  <2> QED BY <2>1, <2>3 DEF Regions
<1>6. Tasks
  <2>1. /\ spawned = 0 /\ ended = 0 /\ pool = <<>>
        /\ running = [t \in Threads |-> Nothing]
    BY DEF Init
  <2>2. Busy = {} BY <2>1 DEF Busy
  <2>3. Cardinality(Busy) = 0 BY <2>2, FS_EmptySet
  <2>4. running \in [Threads -> [row : Nat, at : {"idle", "gather", "write"}]]
    BY <2>1 DEF Nothing
  <2> QED BY <2>1, <2>3, <2>4 DEF Tasks
<1> QED BY <1>3, <1>4, <1>5, <1>6 DEF Inv, PartitionInv

-----------------------------------------------------------------------------
(* HexagonVTCMTiling and the lowering of stages. *)
LEMMA TileInv == Inv /\ Tile => Inv'
<1> SUFFICES ASSUME Inv, Tile PROVE Inv' OBVIOUS
<1>1. PartitionInv /\ Tasks /\ Types BY DEF Inv, PartitionInv
<1>2. /\ phase = "tile" /\ phase' \in {"pipeline", "failed"}
      /\ loop' = Lowered(loop) /\ compiled' = compiled
      /\ UNCHANGED partVars /\ UNCHANGED taskVars
  BY DEF Tile, runVars
<1>3. LoopOK(loop') BY <1>1, <1>2, LoweredOK DEF Types
<1>4. Declared' BY <1>2 DEF Declared
<1>5. PartitionInv' BY <1>1, <1>2, <1>3, <1>4, PassStep DEF Types
<1>6. Tasks' BY <1>1, <1>2, NoTasks, TasksFrame
<1> QED BY <1>5, <1>6 DEF Inv

(* HexagonPipelineVTCMTransfers. *)
LEMMA PipelineTransfersInv == Inv /\ PipelineTransfers => Inv'
<1> SUFFICES ASSUME Inv, PipelineTransfers PROVE Inv' OBVIOUS
<1>1. PartitionInv /\ Tasks /\ Types BY DEF Inv, PartitionInv
<1>2. /\ phase = "pipeline" /\ phase' = "privatize"
      /\ loop' = IF Pipelines(loop) THEN DoubleBuffered(loop) ELSE loop
      /\ compiled' = [compiled EXCEPT !.pipelined = Pipelines(loop),
                         !.code = IF Pipelines(loop) THEN Pipelined(loop)
                                                     ELSE Sequential(loop)]
      /\ UNCHANGED partVars /\ UNCHANGED taskVars
  BY DEF PipelineTransfers, runVars
<1>3. LoopOK(loop')
  <2>1. CASE Pipelines(loop) BY <1>1, <1>2, <2>1, DoubleBufferedOK DEF Types
  <2>2. CASE ~ Pipelines(loop) BY <1>1, <1>2, <2>2 DEF Types
  <2> QED BY <2>1, <2>2
<1>4. Declared' BY <1>2 DEF Declared
<1>5. /\ DOMAIN compiled' = {"pipelined", "code", "vtcm", "threads", "bounded"}
      /\ compiled'.vtcm = compiled.vtcm /\ compiled'.threads = compiled.threads
      /\ compiled'.bounded = compiled.bounded
  <2> DEFINE x == Pipelines(loop)
             y == IF Pipelines(loop) THEN Pipelined(loop) ELSE Sequential(loop)
  <2>1. compiled' = [compiled EXCEPT !.pipelined = x, !.code = y] BY <1>2
  <2>2. DOMAIN compiled = {"pipelined", "code", "vtcm", "threads", "bounded"}
    BY <1>1 DEF Types
  <2> HIDE DEF x, y
  <2> QED BY <2>1, <2>2
<1>6. PartitionInv' BY <1>1, <1>2, <1>3, <1>4, <1>5, PassStep DEF Types
<1>7. Tasks' BY <1>1, <1>2, NoTasks, TasksFrame
<1> QED BY <1>6, <1>7 DEF Inv

(* HexagonPrivatizeThreadAllocations and hoisting. *)
LEMMA PrivatizeInv == Inv /\ PrivatizeThreadAllocations => Inv'
<1> SUFFICES ASSUME Inv, PrivatizeThreadAllocations PROVE Inv' OBVIOUS
<1>1. PartitionInv /\ Tasks /\ Types BY DEF Inv, PartitionInv
<1>2. /\ phase = "privatize" /\ phase' \in {"failed", "threads"}
      /\ loop' = Hoisted(PrivatizedAllocations(loop)) /\ compiled' = compiled
      /\ UNCHANGED partVars /\ UNCHANGED taskVars
  BY DEF PrivatizeThreadAllocations, runVars
<1>3. LoopOK(loop') BY <1>1, <1>2, PrivatizedOK, HoistedOK DEF Types
<1>4. Declared' BY <1>2 DEF Declared
<1>5. PartitionInv' BY <1>1, <1>2, <1>3, <1>4, PassStep DEF Types
<1>6. Tasks' BY <1>1, <1>2, NoTasks, TasksFrame
<1> QED BY <1>5, <1>6 DEF Inv

(* HexagonFormAsyncThreads. *)
LEMMA FormAsyncThreadsInv == Inv /\ FormAsyncThreads => Inv'
<1> SUFFICES ASSUME Inv, FormAsyncThreads PROVE Inv' OBVIOUS
<1>1. PartitionInv /\ Tasks /\ Types BY DEF Inv, PartitionInv
<1>2. /\ phase = "threads" /\ phase' \in {"failed", "annotate"}
      /\ loop' = loop /\ compiled' = compiled
      /\ UNCHANGED partVars /\ UNCHANGED taskVars
  BY DEF FormAsyncThreads, compileVars, runVars
<1>3. LoopOK(loop') BY <1>1, <1>2 DEF Types
<1>4. Declared' BY <1>2 DEF Declared
<1>5. PartitionInv' BY <1>1, <1>2, <1>3, <1>4, PassStep DEF Types
<1>6. Tasks' BY <1>1, <1>2, NoTasks, TasksFrame
<1> QED BY <1>5, <1>6 DEF Inv

(* HexagonAnnotateDispatchResources declares what it counts. *)
LEMMA AnnotateInv == Inv /\ AnnotateResources => Inv'
<1> SUFFICES ASSUME Inv, AnnotateResources PROVE Inv' OBVIOUS
<1> DEFINE unbounded == \E b \in DOMAIN loop.allocs : loop.allocs[b].dynamic
           v == IF unbounded THEN AlignDown(PoolBytes, LargeAlignment) ELSE DeclaredVtcm(loop)
           t == IF Threaded(compiled.code) /\ ~loop.threadsStatic
                THEN Max({Chunks(loop), Cardinality(Threads)})
                ELSE DeclaredThreads(loop, compiled.code)
<1>1. PartitionInv /\ Tasks /\ Types /\ LoopOK(loop) BY DEF Inv, PartitionInv, Types
<1>2. /\ phase = "annotate" /\ phase' \in {"failed", "launch"} /\ loop' = loop
      /\ compiled' = [compiled EXCEPT !.vtcm = v, !.bounded = ~unbounded, !.threads = t]
      /\ UNCHANGED partVars /\ UNCHANGED taskVars
  BY DEF AnnotateResources, runVars
<1>3. v \in Nat
  <2>1. DeclaredVtcm(loop) \in Nat BY <1>1, BytesType
  <2>2. AlignDown(PoolBytes, LargeAlignment) \in Nat
    BY TileLoopAssumption DEF AlignDown, LargeAlignment
  <2> QED BY <2>1, <2>2
<1>4. t \in Nat /\ (Threaded(compiled.code) => Chunks(loop) <= t)
  <2>1. Chunks(loop) \in Nat BY <1>1 DEF LoopOK, Chunks
  <2>2. Cardinality(Threads) \in Nat
    BY TileLoopAssumption, FS_AddElement, FS_CardinalityType DEF Threads
  <2>3. /\ Max({Chunks(loop), Cardinality(Threads)}) \in Nat
        /\ Chunks(loop) <= Max({Chunks(loop), Cardinality(Threads)})
    BY <2>1, <2>2, MaxOfTwo
  <2>4. Max({1, Chunks(loop)}) \in Nat /\ Chunks(loop) <= Max({1, Chunks(loop)})
    BY <2>1, MaxOfTwo
  <2>5. CASE Threaded(compiled.code) /\ ~loop.threadsStatic BY <2>3, <2>5
  <2>6. CASE ~ (Threaded(compiled.code) /\ ~loop.threadsStatic)
    <3>1. t = IF Threaded(compiled.code) THEN Max({1, Chunks(loop)}) ELSE 1
      BY <2>6 DEF DeclaredThreads
    <3> HIDE DEF t
    <3> QED BY <2>4, <3>1
  <2> QED BY <2>5, <2>6
<1>5. unbounded \in BOOLEAN /\ (~unbounded => v = DeclaredVtcm(loop)) OBVIOUS
<1> HIDE DEF unbounded, v, t
<1>6. /\ DOMAIN compiled' = {"pipelined", "code", "vtcm", "threads", "bounded"}
      /\ compiled'.vtcm = v /\ compiled'.threads = t /\ compiled'.code = compiled.code
      /\ compiled'.bounded = ~unbounded
  BY <1>1, <1>2 DEF Types
<1>7. Declared' BY <1>2, <1>4, <1>5, <1>6 DEF Declared
<1>8. LoopOK(loop') BY <1>1, <1>2
<1>9. PartitionInv' BY <1>1, <1>2, <1>3, <1>4, <1>5, <1>6, <1>7, <1>8, PassStep
<1>10. Tasks' BY <1>1, <1>2, NoTasks, TasksFrame
<1> QED BY <1>9, <1>10 DEF Inv

-----------------------------------------------------------------------------
(* The partition a dispatch gets is at least what it declared. *)
LEMMA LaunchInv == Inv /\ Launch => Inv'
<1> SUFFICES ASSUME Inv, Launch PROVE Inv' OBVIOUS
<1>1. PartitionInv /\ Tasks /\ Types /\ Declared /\ Regions
  BY DEF Inv, PartitionInv
<1>2. PICK base \in Bases : part' = Acquired(base, compiled.vtcm) BY DEF Launch
<1>3. /\ phase = "launch" /\ phase' \in {"workgroup", "aborted"}
      /\ loop' = loop /\ compiled' = compiled /\ placed' = placed
      /\ UNCHANGED taskVars
  BY DEF Launch, compileVars
<1>4. base \in Nat /\ base % 2048 = 0 BY TileLoopAssumption DEF LargeAlignment
<1> DEFINE size == AlignUp(compiled.vtcm, 2048)
<1>5. compiled.vtcm \in Nat BY <1>1 DEF Types
<1>6. size \in Nat /\ compiled.vtcm <= size /\ size % 2048 = 0 BY <1>5, SizeFacts
<1>7. part' = [base |-> base, size |-> size, front |-> 0, back |-> 0]
  BY <1>2 DEF Acquired, LargeAlignment
<1> HIDE DEF size
<1>8. PartOK(part') BY <1>4, <1>6, <1>7 DEF PartOK
<1>9. Types' BY <1>1, <1>3, <1>8 DEF Types
<1>10. Declared' BY <1>1, <1>3 DEF Declared
<1>11. Counted' BY <1>3, <1>6, <1>7 DEF Counted
<1>12. Regions'
  <2>1. placed' = <<>> BY <1>1, <1>3 DEF Regions
  <2>2. Len(loop.order) \in Nat BY <1>1 DEF Types, LoopOK
  <2> QED BY <1>3, <2>1, <2>2 DEF Regions
<1>13. Tasks' BY <1>1, <1>3, NoTasks, TasksFrame
<1> QED BY <1>9, <1>10, <1>11, <1>12, <1>13 DEF Inv, PartitionInv

(* hexagon_rt_vtcm_partition_reset gives all of it back. *)
LEMMA StartWorkgroupInv == Inv /\ StartWorkgroup => Inv'
<1> SUFFICES ASSUME Inv, StartWorkgroup PROVE Inv' OBVIOUS
<1>1. PartitionInv /\ Tasks /\ Types /\ Declared /\ Counted
  BY DEF Inv, PartitionInv
<1>2. /\ phase = "workgroup" /\ phase' = "allocate"
      /\ loop' = loop /\ compiled' = compiled /\ placed' = <<>>
      /\ part' = [part EXCEPT !.front = 0, !.back = 0]
      /\ UNCHANGED taskVars
  BY DEF StartWorkgroup, compileVars, Reset
<1>3. part.base % 2048 = 0 /\ part.size % 2048 = 0 BY <1>1 DEF Types, PartOK
<1>4. /\ part' \in [base : Nat, size : Nat, front : Nat, back : Nat]
      /\ part'.base = part.base /\ part'.size = part.size
      /\ part'.front = 0 /\ part'.back = 0
  <2>1. part \in [base : Nat, size : Nat, front : Nat, back : Nat]
    BY <1>1 DEF Types, PartOK
  <2>2. part' = [part EXCEPT !.front = 0, !.back = 0] BY <1>2
  <2> QED BY <2>1, <2>2
<1>5. PartOK(part') BY <1>3, <1>4 DEF PartOK
<1>6. Types' BY <1>1, <1>2, <1>5 DEF Types
<1>7. Declared' BY <1>1, <1>2 DEF Declared
<1>8. Counted'
  <2>1. First(loop, 0) = {} BY DEF First
  <2>2. SumOver(Bytes(loop), First(loop, 0)) = 0 BY <2>1, SumEmpty
  <2>3. Len(placed') = 0 BY <1>2
  <2>4. SumOver(Bytes(loop'), First(loop', Len(placed'))) = 0 BY <1>2, <2>2, <2>3
  <2> QED BY <1>1, <1>2, <1>4, <2>4 DEF Counted
<1>9. Regions'
  <2>1. Len(loop.order) \in Nat BY <1>1 DEF Types, LoopOK
  <2> QED BY <1>2, <2>1 DEF Regions
<1>10. Tasks' BY <1>1, <1>2, NoTasks, TasksFrame
<1> QED BY <1>6, <1>7, <1>8, <1>9, <1>10 DEF Inv, PartitionInv

(* The function body starts. *)
LEMMA AllocatedInv == Inv /\ Allocated => Inv'
<1> SUFFICES ASSUME Inv, Allocated PROVE Inv' OBVIOUS
<1>1. PartitionInv /\ Tasks /\ Types /\ Declared /\ Counted /\ Regions
  BY DEF Inv, PartitionInv
<1>2. /\ phase = "allocate" /\ phase' = "run"
      /\ loop' = loop /\ compiled' = compiled /\ placed' = placed /\ part' = part
      /\ UNCHANGED taskVars
  BY DEF Allocated, compileVars, runVars, partVars
<1>3. Types' BY <1>1, <1>2 DEF Types
<1>4. Declared' BY <1>1, <1>2 DEF Declared
<1>5. Counted' BY <1>1, <1>2 DEF Counted
<1>6. Regions' BY <1>1, <1>2 DEF Regions
<1>7. Tasks' BY <1>1, <1>2, NoTasks, TasksFrame
<1> QED BY <1>3, <1>4, <1>5, <1>6, <1>7 DEF Inv, PartitionInv

(* A workgroup returns. *)
LEMMA EndWorkgroupInv == Inv /\ EndWorkgroup => Inv'
<1> SUFFICES ASSUME Inv, EndWorkgroup PROVE Inv' OBVIOUS
<1>1. PartitionInv /\ Tasks /\ Types /\ Declared /\ Counted /\ Regions
  BY DEF Inv, PartitionInv
<1>2. /\ phase = "run" /\ phase' \in {"workgroup", "done"} /\ ~ At("compute")
      /\ loop' = loop /\ compiled' = compiled /\ placed' = placed /\ part' = part
      /\ UNCHANGED taskVars
  BY DEF EndWorkgroup, compileVars, partVars, Returns, At
<1>3. Types' BY <1>1, <1>2 DEF Types
<1>4. Declared' BY <1>1, <1>2 DEF Declared
<1>5. Counted' BY <1>1, <1>2 DEF Counted
<1>6. Regions' BY <1>1, <1>2 DEF Regions
<1>7. Tasks' BY <1>1, <1>2, NoTasks, TasksFrame
<1> QED BY <1>3, <1>4, <1>5, <1>6, <1>7 DEF Inv, PartitionInv

(* Each allocation of the function is counted once. *)
LEMMA FirstGrows ==
  ASSUME NEW l, LoopOK(l), NEW n \in Nat, n < Len(l.order)
  PROVE  /\ l.order[n + 1] \in DOMAIN l.allocs
         /\ SumOver(Bytes(l), First(l, n)) \in Nat
         /\ SumOver(Bytes(l), First(l, n + 1))
                = SumOver(Bytes(l), First(l, n)) + Bytes(l)[l.order[n + 1]]
         /\ SumOver(Bytes(l), First(l, n + 1)) <= DeclaredVtcm(l)
<1> DEFINE D == DOMAIN l.allocs
           b == l.order[n + 1]
           F == First(l, n)
           G == First(l, n + 1)
<1>1. l.order \in Seq(D) /\ Len(l.order) \in Nat /\ DOMAIN l.order = 1 .. Len(l.order)
  BY DEF LoopOK
<1>2. \A j \in 1 .. n + 1 : j \in 1 .. Len(l.order) BY <1>1
<1>3. \A j \in 1 .. Len(l.order) : l.order[j] \in D BY <1>1
<1>4. b \in D BY <1>1, <1>3
<1>5. \A x \in G : x \in D BY <1>2, <1>3 DEF First
<1>6. G = F \cup {b} BY DEF First
<1>7. b \notin F
  <2>1. ASSUME NEW j \in 1 .. n, b = l.order[j] PROVE FALSE
    <3>1. j \in DOMAIN l.order /\ n + 1 \in DOMAIN l.order /\ j # n + 1 BY <1>1, <2>1
    <3>2. l.order[j] = l.order[n + 1] => j = n + 1 BY <3>1 DEF LoopOK
    <3> QED BY <2>1, <3>1, <3>2
  <2> QED BY <2>1 DEF First
<1>8. /\ IsFiniteSet(D) /\ \A x \in D : Bytes(l)[x] \in Nat
      /\ DeclaredVtcm(l) = SumOver(Bytes(l), D)
  BY BytesType
<1> HIDE DEF D, b, F, G
<1>9. F \in SUBSET D /\ G \in SUBSET D BY <1>5, <1>6
<1>10. IsFiniteSet(F) BY <1>8, <1>9, FS_Subset
<1>11. \A x \in F : Bytes(l)[x] \in Nat BY <1>8, <1>9
<1>12. \A x \in F \cup {b} : Bytes(l)[x] \in Nat BY <1>4, <1>8, <1>9
<1>13. SumOver(Bytes(l), F) \in Nat BY <1>10, <1>11, SumType
<1>14. SumOver(Bytes(l), F \cup {b}) = SumOver(Bytes(l), F) + Bytes(l)[b]
  BY <1>7, <1>10, <1>12, SumAdd
<1>15. SumOver(Bytes(l), G) <= SumOver(Bytes(l), D) BY <1>8, <1>9, SumMonotone
<1> QED BY <1>4, <1>6, <1>8, <1>13, <1>14, <1>15 DEF D, b, F, G

(* A new region lies apart from those handed out before it. *)
LEMMA RegionAdded ==
  ASSUME PartOK(part), Regions, NEW b \in DOMAIN loop.allocs, NEW n \in Nat, NEW m \in Nat,
         NEW q, PartOK(q), q.base = part.base, q.size = part.size,
         part.front <= q.front, part.back <= q.back,
         NEW r, r = [buf |-> b, begin |-> n, end |-> m],
         RegionOK(r, loop.allocs[b], q),
         \/ n = 0 /\ m = 0
         \/ part.front <= n /\ m <= part.size - part.back,
         loop' = loop, part' = q, placed' = Append(placed, r), phase' = "allocate",
         Len(placed) < Len(loop.order), Len(loop.order) \in Nat
  PROVE  Regions'
<1> DEFINE R == [buf : DOMAIN loop.allocs, begin : Nat, end : Nat]
           L == Len(placed)
<1>1. /\ placed \in Seq(R) /\ L \in Nat
      /\ \A k \in 1 .. L : RegionOK(placed[k], loop.allocs[placed[k].buf], part)
      /\ \A j, k \in 1 .. L : j < k => Apart(placed[j], placed[k])
  BY SMTT(30) DEF Regions
<1>2. r \in R /\ r.begin = n /\ r.end = m /\ r.buf = b OBVIOUS
<1>3. \A k \in 1 .. L : placed[k] \in R
  <2> HIDE DEF R
  <2>1. placed \in Seq(R) BY <1>1
  <2> QED BY <2>1
<1>4. /\ placed' \in Seq(R) /\ Len(placed') = L + 1
      /\ \A k \in 1 .. L : placed'[k] = placed[k]
      /\ placed'[L + 1] = r
  BY <1>1, <1>2
<1> HIDE DEF R, L
<1>5. /\ part.front \in Nat /\ part.back \in Nat /\ part.size \in Nat
      /\ q.front \in Nat /\ q.back \in Nat
  BY DEF PartOK
<1>6. ASSUME NEW k \in 1 .. L
      PROVE  /\ RegionOK(placed[k], loop.allocs[placed[k].buf], q)
             /\ Apart(placed[k], r)
  <2>1. RegionOK(placed[k], loop.allocs[placed[k].buf], part) BY <1>1
  <2>2. placed[k].begin \in Nat /\ placed[k].end \in Nat BY <1>3 DEF R
  <2>3. \/ placed[k].begin = 0 /\ placed[k].end = 0
        \/ placed[k].end <= part.front
        \/ placed[k].begin >= part.size - part.back
    BY <2>1 DEF RegionOK
  <2>4. \/ placed[k].begin = 0 /\ placed[k].end = 0
        \/ placed[k].end <= q.front
        \/ placed[k].begin >= q.size - q.back
    <3>1. CASE placed[k].end <= part.front BY <1>5, <2>2, <3>1, SMTT(30)
    <3>2. CASE placed[k].begin >= part.size - part.back
      <4>1. part.size - part.back >= q.size - q.back BY <1>5
      <4> QED BY <1>5, <2>2, <3>2, <4>1, SMTT(30)
    <3> QED BY <2>3, <3>1, <3>2
  <2>5. Apart(placed[k], r) BY <1>2, <1>5, <2>2, <2>3, SMTT(30) DEF Apart
  <2> QED BY <2>1, <2>4, <2>5 DEF RegionOK
<1>7. \A k \in 1 .. L + 1 : RegionOK(placed'[k], loop.allocs[placed'[k].buf], q)
  <2>1. SUFFICES ASSUME NEW k \in 1 .. L + 1
                 PROVE  RegionOK(placed'[k], loop.allocs[placed'[k].buf], q)
    OBVIOUS
  <2>2. CASE k = L + 1 BY <1>2, <1>4, <2>2
  <2>3. CASE k # L + 1
    <3>1. k \in 1 .. L BY <1>1, <2>3
    <3> QED BY <1>4, <1>6, <3>1
  <2> QED BY <2>2, <2>3
<1>8. \A j, k \in 1 .. L + 1 : j < k => Apart(placed'[j], placed'[k])
  <2>1. SUFFICES ASSUME NEW j \in 1 .. L + 1, NEW k \in 1 .. L + 1, j < k
                 PROVE  Apart(placed'[j], placed'[k])
    OBVIOUS
  <2>2. j \in 1 .. L BY <1>1, <2>1
  <2>3. CASE k = L + 1 BY <1>4, <1>6, <2>2, <2>3
  <2>4. CASE k # L + 1
    <3>1. k \in 1 .. L BY <1>1, <2>4
    <3> QED BY <1>1, <1>4, <2>1, <2>2, <3>1
  <2> QED BY <2>3, <2>4
<1>9. Len(placed') <= Len(loop.order) BY <1>1, <1>4 DEF L
<1> QED BY <1>4, <1>7, <1>8, <1>9 DEF Regions, R

(* An allocation of the function entry: the bytes counted for it and for   *)
(* those before it are in the partition.                                   *)
LEMMA AllocateInv == Inv /\ Allocate => Inv'
<1> SUFFICES ASSUME Inv, Allocate PROVE Inv' OBVIOUS
<1> DEFINE n == Len(placed)
           b == loop.order[n + 1]
           a == loop.allocs[b]
           got == PartitionAlloc(part, a.bytes, a.align)
           r == [buf |-> b, begin |-> got.begin, end |-> got.begin + a.bytes]
           cost == PartitionAllocBytes(a.bytes, a.align)
<1>1. /\ Tasks /\ Types /\ Declared /\ Counted /\ Regions
      /\ LoopOK(loop) /\ PartOK(part)
  BY DEF Inv, PartitionInv, Types
<1>2. /\ phase = "allocate" /\ n < Len(loop.order)
      /\ part' = IF got.code = "placed" THEN got.part ELSE part
      /\ placed' = IF got.code = "placed" THEN Append(placed, r) ELSE placed
      /\ phase' = IF got.code = "placed" THEN phase ELSE got.code
      /\ loop' = loop /\ compiled' = compiled /\ UNCHANGED taskVars
  BY DEF Allocate, compileVars
<1> HIDE DEF n, b, a, got, cost
<1>3. n \in Nat /\ Len(loop.order) \in Nat BY <1>1 DEF Regions, LoopOK, n
<1>4. /\ b \in DOMAIN loop.allocs
      /\ SumOver(Bytes(loop), First(loop, n)) \in Nat
      /\ SumOver(Bytes(loop), First(loop, n + 1))
             = SumOver(Bytes(loop), First(loop, n)) + Bytes(loop)[b]
      /\ SumOver(Bytes(loop), First(loop, n + 1)) <= DeclaredVtcm(loop)
  BY <1>1, <1>2, <1>3, FirstGrows DEF b
<1>5. a \in Allocations BY <1>1, <1>4 DEF LoopOK, a
<1>6. a.bytes \in Nat /\ a.align \in Nat /\ a.align <= 65536 BY <1>5, AllocationFields
<1>7. Bytes(loop)[b] = cost /\ cost \in Nat
  <2>1. Bytes(loop)[b] = cost BY <1>4 DEF Bytes, cost, a
  <2>2. cost \in Nat BY <1>6, AllocBytesType DEF cost
  <2> QED BY <2>1, <2>2
<1>8. DeclaredVtcm(loop) \in Nat BY <1>1, BytesType
<1>9. Tasks' BY <1>1, <1>2, NoTasks, TasksFrame
<1>10. \/ a.bytes = 0 /\ got = [code |-> "placed", begin |-> 0, part |-> part]
       \/ got.code = "aborted"
       \/ /\ a.bytes > 0 /\ Honoured(a.align) \in PowersOf2
          /\ Grants(part, a.bytes, Honoured(a.align), cost, got)
  BY <1>1, <1>6, AllocGrants DEF got, cost
<1> DEFINE before == SumOver(Bytes(loop), First(loop, n))
           after == SumOver(Bytes(loop), First(loop, n + 1))
<1>11. compiled.bounded => part.front + part.back <= before BY <1>1, <1>2 DEF Counted, n
<1>12. before \in Nat /\ after = before + cost /\ after <= DeclaredVtcm(loop)
  BY <1>4, <1>7
<1>13. Declared => (compiled.bounded => compiled.vtcm = DeclaredVtcm(loop))
  BY <1>2 DEF Declared
<1>14. compiled.vtcm <= part.size BY <1>1, <1>2 DEF Counted
<1>15. part.front \in Nat /\ part.back \in Nat /\ part.size \in Nat BY <1>1 DEF PartOK
<1> HIDE DEF before, after
<1>16. ASSUME phase' = "aborted" \/ (phase' = "overflow" /\ ~ compiled.bounded),
              part' = part, placed' = placed
       PROVE  Inv'
  <2>1. Types' BY <1>1, <1>2, <1>16 DEF Types
  <2>2. Declared' BY <1>2, <1>16 DEF Declared
  <2>3. Counted' BY <1>2, <1>16 DEF Counted
  <2>4. Regions' BY <1>1, <1>2, <1>16 DEF Regions
  <2> QED BY <1>9, <2>1, <2>2, <2>3, <2>4 DEF Inv, PartitionInv
<1>17. ASSUME got.code = "placed", PartOK(got.part), got.part.size = part.size,
              compiled.bounded => got.part.front + got.part.back <= after,
              Regions'
       PROVE  Inv'
  <2>1. phase' = "allocate" /\ part' = got.part /\ placed' = Append(placed, r)
    BY <1>2, <1>17
  <2>2. Types' BY <1>1, <1>2, <1>17, <2>1 DEF Types
  <2>3. Declared' BY <1>1, <1>2, <2>1 DEF Declared
  <2>4. Counted'
    <3>1. Len(placed') = n + 1
      <4>1. placed \in Seq([buf : DOMAIN loop.allocs, begin : Nat, end : Nat])
        BY <1>1 DEF Regions
      <4> HIDE DEF r
      <4> QED BY <2>1, <4>1 DEF n
    <3>2. SumOver(Bytes(loop'), First(loop', Len(placed'))) = after
      BY <1>2, <3>1 DEF after
    <3> QED BY <1>2, <1>14, <1>17, <2>1, <3>2 DEF Counted
  <2> QED BY <1>9, <1>17, <2>2, <2>3, <2>4 DEF Inv, PartitionInv
<1>18. CASE a.bytes = 0 /\ got = [code |-> "placed", begin |-> 0, part |-> part]
  <2>1. got.code = "placed" /\ got.begin = 0 /\ got.part = part BY <1>18
  <2>2. r = [buf |-> b, begin |-> 0, end |-> 0] BY <1>18, <2>1
  <2>3. RegionOK(r, a, part) BY <1>18, <2>2 DEF RegionOK
  <2>4. Regions'
    <3>1. placed' = Append(placed, r) /\ part' = part /\ phase' = "allocate"
      BY <1>2, <2>1
    <3>2. part.front <= part.front /\ part.back <= part.back BY <1>15
    <3> HIDE DEF r
    <3> QED BY <1>1, <1>2, <1>3, <1>4, <2>2, <2>3, <3>1, <3>2, RegionAdded DEF a, n
  <2>5. compiled.bounded => part.front + part.back <= after
    BY <1>7, <1>11, <1>12, <1>15
  <2> QED BY <1>1, <1>17, <2>1, <2>4, <2>5
<1>19. CASE got.code = "aborted"
  <2>1. phase' = "aborted" /\ part' = part /\ placed' = placed BY <1>2, <1>19
  <2> QED BY <1>16, <2>1
<1>20. CASE /\ a.bytes > 0 /\ Honoured(a.align) \in PowersOf2
            /\ Grants(part, a.bytes, Honoured(a.align), cost, got)
  <2>1. got.code \in {"placed", "overflow"} BY <1>20 DEF Grants
  <2>2. compiled.bounded => got.code = "placed"
    <3>1. ASSUME compiled.bounded PROVE part.front + part.back + cost <= part.size
      <4>1. compiled.vtcm = DeclaredVtcm(loop) BY <1>1, <1>13, <3>1
      <4>2. part.front + part.back <= before BY <1>11, <3>1
      <4> QED BY <1>7, <1>8, <1>12, <1>14, <1>15, <4>1, <4>2
    <3> QED BY <1>20, <3>1 DEF Grants
  <2>3. CASE got.code = "overflow"
    <3>1. phase' = "overflow" /\ part' = part /\ placed' = placed BY <1>2, <2>3
    <3> QED BY <1>16, <2>2, <2>3, <3>1
  <2>4. CASE got.code = "placed"
    <3> DEFINE q == got.part
    <3>1. /\ PartOK(q) /\ q.base = part.base /\ q.size = part.size
          /\ part.front <= q.front /\ part.back <= q.back
          /\ got.begin \in Nat /\ part.front <= got.begin
          /\ got.begin + a.bytes <= part.size - part.back
          /\ \/ got.begin + a.bytes <= q.front
             \/ got.begin >= q.size - q.back
          /\ q.front + q.back <= part.front + part.back + cost
          /\ (part.base + got.begin) % Honoured(a.align) = 0
      BY <1>20, <2>4 DEF Grants
    <3>2. r.begin = got.begin /\ r.end = got.begin + a.bytes OBVIOUS
    <3>2t. got.begin + a.bytes \in Nat BY <1>6, <3>1
    <3>3. RegionOK(r, a, q)
      <4>1. ASSUME a.align \in PowersOf2 PROVE (q.base + got.begin) % a.align = 0
        <5>1. a.align <= Honoured(a.align)
          BY <1>6, MaxOfTwo DEF Honoured, MinAllocation
        <5>2. part.base + got.begin \in Nat BY <1>1, <3>1 DEF PartOK
        <5>3. (part.base + got.begin) % a.align = 0
          BY <1>20, <3>1, <4>1, <5>1, <5>2, MultipleOfSmaller
        <5> QED BY <3>1, <5>3
      <4> QED BY <3>1, <3>2, <4>1 DEF RegionOK
    <3>4. Regions'
      <4>1. placed' = Append(placed, r) /\ part' = q /\ phase' = "allocate"
        BY <1>2, <2>4
      <4> DEFINE m == got.begin + a.bytes
      <4>2. r = [buf |-> b, begin |-> got.begin, end |-> m] OBVIOUS
      <4> HIDE DEF r, q, m
      <4> QED BY <1>1, <1>2, <1>3, <1>4, <3>1, <3>2t, <3>3, <4>1, <4>2, RegionAdded
              DEF a, n, m
    <3>5. ASSUME compiled.bounded PROVE q.front + q.back <= after
      <4>1. part.front + part.back <= before BY <1>11, <3>5
      <4>2. q.front \in Nat /\ q.back \in Nat BY <3>1 DEF PartOK
      <4>3. q.front + q.back <= part.front + part.back + cost BY <3>1
      <4> HIDE DEF q
      <4> QED BY <1>7, <1>12, <1>15, <4>1, <4>2, <4>3
    <3> QED BY <1>17, <2>4, <3>1, <3>4, <3>5
  <2> QED BY <2>1, <2>3, <2>4
<1> QED BY <1>10, <1>18, <1>19, <1>20

-----------------------------------------------------------------------------
(* The dispatch thread moves on, and no task is waiting for it. *)
LEMMA DispatchThreadInv == Inv /\ (DmaStart \/ DmaWait \/ Copy \/ ComputeAlone) => Inv'
<1> SUFFICES ASSUME Inv, DmaStart \/ DmaWait \/ Copy \/ ComputeAlone PROVE Inv' OBVIOUS
<1>1. PartitionInv /\ Tasks BY DEF Inv
<1>2. UNCHANGED <<phase, compileVars, partVars>> /\ UNCHANGED taskVars
  BY DEF DmaStart, DmaWait, Copy, ComputeAlone
<1>3. spawned = 0
  <2>1. CASE ComputeAlone BY <1>1, <2>1 DEF ComputeAlone, Tasks
  <2>2. CASE DmaStart \/ DmaWait \/ Copy
    <3>1. ~ At("compute") BY <2>2 DEF DmaStart, DmaWait, Copy, At
    <3> QED BY <1>1, <3>1, NoTasks
  <2> QED BY <2>1, <2>2
<1>4. PartitionInv' BY <1>1, <1>2, PartitionFrame
<1>5. Tasks' BY <1>1, <1>2, <1>3, TasksFrame
<1> QED BY <1>4, <1>5 DEF Inv

(* The DMA engine moves a row. *)
LEMMA DmaMoveInv == Inv /\ DmaMove => Inv'
<1> SUFFICES ASSUME Inv, DmaMove PROVE Inv' OBVIOUS
<1>1. PartitionInv /\ Tasks BY DEF Inv
<1>2. /\ UNCHANGED <<phase, compileVars, partVars>>
      /\ phase' = phase /\ loop' = loop /\ compiled' = compiled /\ pc' = pc
      /\ spawned' = spawned /\ ended' = ended /\ pool' = pool /\ running' = running
  BY DEF DmaMove, compileVars, taskVars
<1>3. PartitionInv' BY <1>1, <1>2, PartitionFrame
<1>4. Busy' = Busy BY <1>2 DEF Busy
<1>5. Tasks' BY <1>1, <1>2, <1>4 DEF Tasks, At, Now
<1> QED BY <1>3, <1>5 DEF Inv

(* The threads that are busy can be counted. *)
LEMMA BusyFinite == IsFiniteSet(Threads) /\ IsFiniteSet(Busy) /\ Cardinality(Busy) \in Nat
<1>1. IsFiniteSet(Threads) BY TileLoopAssumption, FS_AddElement DEF Threads
<1>2. Busy \subseteq Threads BY DEF Busy
<1> QED BY <1>1, <1>2, FS_Subset, FS_CardinalityType

(* A task is handed to the pool. *)
LEMMA ExecuteInv == Inv /\ Execute => Inv'
<1> SUFFICES ASSUME Inv, Execute PROVE Inv' OBVIOUS
<1>1. PartitionInv /\ Tasks BY DEF Inv
<1>2. /\ UNCHANGED <<phase, compileVars, partVars>>
      /\ phase' = phase /\ loop' = loop /\ compiled' = compiled /\ pc' = pc
      /\ At("compute") /\ Now.item.threads /\ spawned < Chunks(loop)
      /\ spawned' = spawned + 1 /\ ended' = ended
      /\ pool' = Append(pool, spawned + 1) /\ running' = running
  BY DEF Execute, compileVars
<1>3. PartitionInv' BY <1>1, <1>2, PartitionFrame
<1>4. Busy' = Busy BY <1>2 DEF Busy
<1>5. /\ spawned \in Nat /\ ended \in Nat /\ pool \in Seq(Nat)
      /\ Len(pool) + Cardinality(Busy) + ended = spawned
      /\ running \in [Threads -> [row : Nat, at : {"idle", "gather", "write"}]]
  BY <1>1 DEF Tasks
<1>6. pool' \in Seq(Nat) /\ Len(pool') = Len(pool) + 1 /\ Len(pool) \in Nat
  BY <1>2, <1>5
<1>7. Chunks(loop) \in Nat BY <1>1 DEF PartitionInv, Types, LoopOK, Chunks
<1>8. Cardinality(Busy) \in Nat BY BusyFinite
<1>9. /\ spawned + 1 \in Nat /\ spawned + 1 <= Chunks(loop)
      /\ Len(pool') + Cardinality(Busy') + ended = spawned + 1
  BY <1>2, <1>4, <1>5, <1>6, <1>7, <1>8
<1>10. At("compute")' /\ Now' = Now /\ Chunks(loop)' = Chunks(loop)
  BY <1>2 DEF At, Now
<1>11. Tasks' BY <1>2, <1>5, <1>6, <1>9, <1>10 DEF Tasks
<1> QED BY <1>3, <1>11 DEF Inv

(* A thread takes a task from the pool. *)
LEMMA TakeTaskInv == ASSUME NEW t \in Threads PROVE Inv /\ TakeTask(t) => Inv'
<1> SUFFICES ASSUME Inv, TakeTask(t) PROVE Inv' OBVIOUS
<1>1. PartitionInv /\ Tasks BY DEF Inv
<1> DEFINE task == [row |-> Head(pool), at |-> "gather"]
<1>2. /\ UNCHANGED <<phase, compileVars, partVars>>
      /\ phase' = phase /\ loop' = loop /\ compiled' = compiled /\ pc' = pc
      /\ running[t] = Nothing /\ pool # <<>>
      /\ running' = [running EXCEPT ![t] = task] /\ pool' = Tail(pool)
      /\ spawned' = spawned /\ ended' = ended
  BY DEF TakeTask, compileVars
<1>3. PartitionInv' BY <1>1, <1>2, PartitionFrame
<1>4. /\ spawned \in Nat /\ ended \in Nat /\ pool \in Seq(Nat)
      /\ Len(pool) + Cardinality(Busy) + ended = spawned
      /\ running \in [Threads -> [row : Nat, at : {"idle", "gather", "write"}]]
      /\ spawned > 0 => /\ At("compute") /\ Now.item.threads
                        /\ spawned <= Chunks(loop)
  BY <1>1 DEF Tasks
<1>5. pool' \in Seq(Nat) /\ Len(pool') = Len(pool) - 1 /\ Len(pool) \in Nat
      /\ Head(pool) \in Nat
  BY <1>2, <1>4
<1>6. task \in [row : Nat, at : {"idle", "gather", "write"}] /\ task # Nothing
  BY <1>5 DEF Nothing
<1> HIDE DEF task
<1>7. running' \in [Threads -> [row : Nat, at : {"idle", "gather", "write"}]]
  BY <1>2, <1>4, <1>6
<1>8. Busy' = Busy \cup {t} /\ t \notin Busy
  <2>1. \A u \in Threads : running'[u] = IF u = t THEN task ELSE running[u]
    BY <1>2, <1>4
  <2> QED BY <1>2, <1>6, <2>1 DEF Busy
<1>9. Cardinality(Busy') = Cardinality(Busy) + 1 /\ Cardinality(Busy) \in Nat
  BY <1>8, BusyFinite, FS_AddElement
<1>10. Len(pool') + Cardinality(Busy') + ended = spawned BY <1>4, <1>5, <1>9
<1>11. Tasks' BY <1>2, <1>4, <1>5, <1>7, <1>10 DEF Tasks, At, Now
<1> QED BY <1>3, <1>11 DEF Inv

(* A thread works on its task, and ends it. *)
LEMMA RunTaskInv == ASSUME NEW t \in Threads PROVE Inv /\ RunTask(t) => Inv'
<1> SUFFICES ASSUME Inv, RunTask(t) PROVE Inv' OBVIOUS
<1>1. PartitionInv /\ Tasks BY DEF Inv
<1>2. /\ UNCHANGED <<phase, compileVars, partVars>>
      /\ phase' = phase /\ loop' = loop /\ compiled' = compiled /\ pc' = pc
      /\ running[t] # Nothing /\ pool' = pool /\ spawned' = spawned
  BY DEF RunTask, compileVars
<1>3. \/ /\ running[t].at = "gather" /\ ended' = ended
         /\ running' = [running EXCEPT ![t].at = "write"]
      \/ ended' = ended + 1 /\ running' = [running EXCEPT ![t] = Nothing]
  BY DEF RunTask
<1>4. PartitionInv' BY <1>1, <1>2, PartitionFrame
<1>5. /\ spawned \in Nat /\ ended \in Nat /\ pool \in Seq(Nat)
      /\ Len(pool) + Cardinality(Busy) + ended = spawned
      /\ running \in [Threads -> [row : Nat, at : {"idle", "gather", "write"}]]
      /\ spawned > 0 => /\ At("compute") /\ Now.item.threads
                        /\ spawned <= Chunks(loop)
  BY <1>1 DEF Tasks
<1>6. Len(pool) \in Nat BY <1>5
<1>7. /\ ended' \in Nat
      /\ running' \in [Threads -> [row : Nat, at : {"idle", "gather", "write"}]]
      /\ Len(pool) + Cardinality(Busy') + ended' = spawned
  <2>1. CASE /\ running[t].at = "gather" /\ ended' = ended
             /\ running' = [running EXCEPT ![t].at = "write"]
    <3> DEFINE task == [running[t] EXCEPT !.at = "write"]
    <3>1. task \in [row : Nat, at : {"idle", "gather", "write"}] /\ task.at = "write"
      BY <1>5
    <3>2. task # Nothing BY <3>1 DEF Nothing
    <3>3. running' = [running EXCEPT ![t] = task] BY <1>5, <2>1
    <3> HIDE DEF task
    <3>4. running' \in [Threads -> [row : Nat, at : {"idle", "gather", "write"}]]
      BY <1>5, <3>1, <3>3
    <3>5. \A u \in Threads : running'[u] = IF u = t THEN task ELSE running[u]
      BY <1>5, <3>3
    <3>6. Busy' = Busy BY <1>2, <3>2, <3>5 DEF Busy
    <3> QED BY <1>5, <2>1, <3>4, <3>6
  <2>2. CASE ended' = ended + 1 /\ running' = [running EXCEPT ![t] = Nothing]
    <3>1. Nothing \in [row : Nat, at : {"idle", "gather", "write"}] BY DEF Nothing
    <3>2. running' \in [Threads -> [row : Nat, at : {"idle", "gather", "write"}]]
      BY <1>5, <2>2, <3>1
    <3>3. \A u \in Threads : running'[u] = IF u = t THEN Nothing ELSE running[u]
      BY <1>5, <2>2
    <3>4. Busy' = Busy \ {t} /\ t \in Busy BY <1>2, <3>3 DEF Busy
    <3>5. Cardinality(Busy') = Cardinality(Busy) - 1 /\ Cardinality(Busy) \in Nat
      BY <3>4, BusyFinite, FS_RemoveElement
    <3>6. Len(pool) + Cardinality(Busy') + ended' = spawned /\ ended' \in Nat
      BY <1>5, <1>6, <2>2, <3>5
    <3> QED BY <3>2, <3>6
  <2> QED BY <1>3, <2>1, <2>2
<1>8. Tasks' BY <1>2, <1>5, <1>7 DEF Tasks, At, Now
<1> QED BY <1>4, <1>8 DEF Inv

(* The group has ended: all of its tasks have. *)
LEMMA AwaitEndsInv == Inv /\ AwaitEnds => Inv'
<1> SUFFICES ASSUME Inv, AwaitEnds PROVE Inv' OBVIOUS
<1>1. PartitionInv /\ Tasks BY DEF Inv
<1>2. /\ UNCHANGED <<phase, compileVars, partVars>>
      /\ ended = Chunks(loop) /\ spawned' = 0 /\ ended' = 0
      /\ pool' = pool /\ running' = running
  BY DEF AwaitEnds
<1>3. PartitionInv' BY <1>1, <1>2, PartitionFrame
<1>4. /\ spawned \in Nat /\ ended \in Nat /\ pool \in Seq(Nat)
      /\ Len(pool) + Cardinality(Busy) + ended = spawned
      /\ running \in [Threads -> [row : Nat, at : {"idle", "gather", "write"}]]
      /\ spawned > 0 => spawned <= Chunks(loop)
  BY <1>1 DEF Tasks
<1>5. Chunks(loop) \in Nat \ {0} BY <1>1 DEF PartitionInv, Types, LoopOK, Chunks
<1>6. Cardinality(Busy) \in Nat /\ Len(pool) \in Nat BY <1>4, BusyFinite
<1>7. Len(pool) = 0 /\ Cardinality(Busy) = 0 BY <1>2, <1>4, <1>5, <1>6
<1>8. Busy' = Busy BY <1>2 DEF Busy
<1>9. Tasks' BY <1>2, <1>4, <1>7, <1>8 DEF Tasks
<1> QED BY <1>3, <1>9 DEF Inv

(* Every step. *)
LEMMA NextInv == Inv /\ [Next]_vars => Inv'
<1> SUFFICES ASSUME Inv, [Next]_vars PROVE Inv' OBVIOUS
<1>1. CASE Compile
  BY <1>1, TileInv, PipelineTransfersInv, PrivatizeInv, FormAsyncThreadsInv, AnnotateInv
  DEF Compile
<1>2. CASE Dispatch
  <2>1. "dispatch" \in Threads BY DEF Threads
  <2>2. CASE AwaitAll
    BY <2>1, <2>2, TakeTaskInv, RunTaskInv, AwaitEndsInv DEF AwaitAll
  <2> QED
    BY <1>2, <2>2, LaunchInv, StartWorkgroupInv, AllocateInv, AllocatedInv,
       DispatchThreadInv, ExecuteInv, EndWorkgroupInv
    DEF Dispatch
<1>3. CASE DmaMove BY <1>3, DmaMoveInv
<1>4. ASSUME NEW w \in Workers, Worker(w) PROVE Inv'
  <2>1. w \in Threads BY DEF Threads
  <2> QED BY <1>4, <2>1, TakeTaskInv, RunTaskInv DEF Worker
<1>5. CASE UNCHANGED vars
  <2>1. /\ UNCHANGED <<phase, compileVars, partVars>>
        /\ phase' = phase /\ loop' = loop /\ compiled' = compiled /\ pc' = pc
        /\ spawned' = spawned /\ ended' = ended /\ pool' = pool /\ running' = running
    BY <1>5 DEF vars, compileVars, partVars
  <2>2. PartitionInv /\ Tasks BY DEF Inv
  <2>3. PartitionInv' BY <2>1, <2>2, PartitionFrame
  <2>4. Busy' = Busy BY <2>1 DEF Busy
  <2>5. Tasks' BY <2>1, <2>2, <2>4 DEF Tasks, At, Now
  <2> QED BY <2>3, <2>5 DEF Inv
<1>6. CASE Ended BY <1>5, <1>6 DEF Ended
<1> QED BY <1>1, <1>2, <1>3, <1>4, <1>5, <1>6 DEF Next

(* The invariant holds of every dispatch: what was counted at compile time *)
(* bounds what each end of the partition has handed out.                   *)
THEOREM InvHolds == Spec => []Inv
<1>1. Init => Inv BY InitInv
<1>2. Inv /\ [Next]_vars => Inv' BY NextInv
<1> QED BY <1>1, <1>2, PTL DEF Spec

(* The invariant says what the property asks for. *)
LEMMA InvSuffices == Inv => DeclaredResourcesSuffice
<1> SUFFICES ASSUME Inv PROVE DeclaredResourcesSuffice OBVIOUS
<1>1. Types /\ Declared /\ Counted /\ Regions /\ Tasks /\ LoopOK(loop) /\ PartOK(part)
  BY DEF Inv, PartitionInv, Types
<1>2. compiled.bounded => phase # "overflow" BY <1>1 DEF Counted
<1>3. /\ placed \in Seq([buf : DOMAIN loop.allocs, begin : Nat, end : Nat])
      /\ \A k \in 1 .. Len(placed) :
             RegionOK(placed[k], loop.allocs[placed[k].buf], part)
      /\ \A j, k \in 1 .. Len(placed) : j < k => Apart(placed[j], placed[k])
  BY <1>1 DEF Regions
<1>4. DOMAIN placed = 1 .. Len(placed) BY <1>3
<1>5. \A k \in 1 .. Len(placed) :
          placed[k] \in [buf : DOMAIN loop.allocs, begin : Nat, end : Nat]
  <2> DEFINE R == [buf : DOMAIN loop.allocs, begin : Nat, end : Nat]
  <2>1. placed \in Seq(R) BY <1>3
  <2> HIDE DEF R
  <2>2. \A k \in 1 .. Len(placed) : placed[k] \in R BY <2>1
  <2> QED BY <2>2 DEF R
<1>6. \A j, k \in DOMAIN placed : j < k =>
          placed[j].end <= placed[k].begin \/ placed[k].end <= placed[j].begin
  BY <1>3, <1>4 DEF Apart
<1>7. ASSUME NEW k \in DOMAIN placed, NEW a, a = loop.allocs[placed[k].buf],
             a.align \in PowersOf2, a.bytes > 0,
             NEW offset, offset = 0 \/ offset = a.slice
      PROVE  (part.base + placed[k].begin + offset) % a.align = 0
  <2> DEFINE x == part.base + placed[k].begin
  <2>1. /\ placed[k] \in [buf : DOMAIN loop.allocs, begin : Nat, end : Nat]
        /\ RegionOK(placed[k], a, part)
    BY <1>3, <1>4, <1>5, <1>7
  <2>2. x \in Nat BY <1>1, <2>1 DEF PartOK
  <2>3. x % a.align = 0 BY <1>7, <2>1 DEF RegionOK
  <2>4. placed[k].buf \in DOMAIN loop.allocs BY <2>1
  <2>5. a \in Allocations BY <1>1, <1>7, <2>4 DEF LoopOK
  <2>6. a.slice \in Nat /\ a.slice % a.align = 0
    <3>1. a.slice \in Nat BY <2>5 DEF Allocations
    <3>2. a.slice % a.align = 0 BY <1>1, <1>7, <2>4 DEF LoopOK, SlicesAligned
    <3> QED BY <3>1, <3>2
  <2> HIDE DEF x
  <2>7. (x + a.slice) % a.align = 0 BY <1>7, <2>2, <2>3, <2>6, MultiplesAdd
  <2>8. x + 0 = x BY <2>2
  <2>9. (x + offset) % a.align = 0 BY <1>7, <2>3, <2>7, <2>8
  <2> QED BY <2>9 DEF x
<1>8. Len(pool) + Cardinality(Busy) <= compiled.threads
  <2>1. /\ spawned \in Nat /\ ended \in Nat /\ Len(pool) \in Nat
        /\ Len(pool) + Cardinality(Busy) + ended = spawned
    BY <1>1 DEF Tasks
  <2>2. Cardinality(Busy) \in Nat /\ compiled.threads \in Nat
    BY <1>1, BusyFinite DEF Types
  <2>3. Chunks(loop) \in Nat BY <1>1 DEF LoopOK, Chunks
  <2>4. CASE spawned = 0 BY <2>1, <2>2, <2>4
  <2>5. CASE spawned > 0
    <3>1. At("compute") /\ Now.item.threads /\ spawned <= Chunks(loop)
      BY <1>1, <2>5 DEF Tasks
    <3>2. phase = "run" /\ Threaded(compiled.code) BY <3>1 DEF At, Now, Threaded
    <3>3. Chunks(loop) <= compiled.threads BY <1>1, <3>2 DEF Declared
    <3> QED BY <2>1, <2>2, <2>3, <3>1, <3>3
  <2> QED BY <2>1, <2>4, <2>5
<1>9. \A k \in DOMAIN placed :
          LET a == loop.allocs[placed[k].buf]
              slices == IF a.slice = 0 THEN {0} ELSE {0, a.slice}
          IN  a.align \in PowersOf2 /\ a.bytes > 0 => \A offset \in slices :
                  (part.base + placed[k].begin + offset) % a.align = 0
  <2> SUFFICES ASSUME NEW k \in DOMAIN placed, NEW a, a = loop.allocs[placed[k].buf],
                      a.align \in PowersOf2, a.bytes > 0,
                      NEW offset \in IF a.slice = 0 THEN {0} ELSE {0, a.slice}
               PROVE  (part.base + placed[k].begin + offset) % a.align = 0
    OBVIOUS
  <2>1. offset = 0 \/ offset = a.slice OBVIOUS
  <2> QED BY <1>7, <2>1
<1> QED BY <1>2, <1>6, <1>8, <1>9 DEF DeclaredResourcesSuffice, Busy

(* What HexagonAnnotateDispatchResources declares is enough for any loop,  *)
(* any sizes and alignments, and any place of the partition: a dispatch    *)
(* with known sizes never overflows it, its buffers lie apart and aligned, *)
(* and no more tasks are in flight than declared.                          *)
THEOREM DeclaredResourcesSufficeHolds == Spec => []DeclaredResourcesSuffice
<1>1. Inv => DeclaredResourcesSuffice BY InvSuffices
<1> QED BY <1>1, InvHolds, PTL
============================================================================

-------------------------- MODULE RecordingProofs --------------------------
(***************************************************************************)
(* Recording: any calls, any number of commands, any buffers and tables.   *)
(*                                                                         *)
(* Inv relates every phase to one layout of the stream: off[k], w[k] and   *)
(* d[k] are the items, bytes and direct references in front of command     *)
(* k + 1. They exist because each recorded command extends them. Progress  *)
(* places the walk that is under way on that layout (a walk that has read  *)
(* k commands stands at item off[k] with w[n] - w[k] bytes left), so that  *)
(* the DSP reads each command as it was recorded (ReadsCommand). Collects  *)
(* says of the ranges that they are pairwise apart (Ranged), cover the     *)
(* bytes of the direct references seen so far and no other (AllCovered),   *)
(* and are no more than those references (CollectMatches).                 *)
(*                                                                         *)
(* ExecInv adds what the commands mean: functions that satisfy the         *)
(* recursive definitions of MemoryAfter and Dispatched, extended with each *)
(* recorded command, with which memory and calls agree command by command. *)
(***************************************************************************)
EXTENDS Recording, FiniteSetTheorems, SequenceTheorems, WellFoundedInduction, NaturalsInduction, TLAPS

HeadOf(c) == Serialized(c)[1]
Words(c) == c.conBytes \div 4
TailLength(c) == IF c.kind = "dispatch" THEN Words(c) + Len(c.bindings) ELSE 0
RefList(c) == [i \in 1..Len(RefsOf(c)) |-> NormalizedRef(RefsOf(c)[i])]

AnyItem ==
  {Item("header", n) : n \in Nat} \cup {Item("con", n) : n \in Nat}
    \cup {Item("ref", NormalizedRef(r)) : r \in Reference} \cup {HeadOf(c) : c \in Palette}

\* The calls that end up in the list.
Accepted == {c \in Palette : ~ Refused(c)}

\* Accepted calls are of the four kinds the stream has.
LEMMA AcceptedKind ==
  ASSUME NEW c \in Accepted
  PROVE  /\ c.kind \in {"dispatch", "barrier", "copy", "fill"}
         /\ RefsOf(c) \in Seq(Reference)
         /\ c.kind = "fill" => c.pattern \in Seq(Nat) /\ Len(c.pattern) \in 1..4
         /\ c.kind = "dispatch" => /\ c.conBytes \in Nat
                                   /\ c.wgSize \in [1..3 -> Nat] /\ c.wgCount \in [1..3 -> Nat]
                                   /\ c.wgSize[3] <= U16Max
         /\ \A i \in DOMAIN RefsOf(c) : RefIsValid(RefsOf(c)[i])
<1>1. c \in Palette /\ ~ RefsRefused(c) /\ ~ Unsupported(c) /\ ~ FillRefused(c) /\ ~ DispatchRefused(c)
  BY DEF Accepted, Refused
<1>2. /\ c.kind \in {"dispatch", "barrier", "copy", "fill", "unsupported"}
      /\ RefsOf(c) \in Seq(Reference)
      /\ c.kind = "fill" => c.pattern \in Seq(Nat)
      /\ c.kind = "dispatch" => c.conBytes \in Nat /\ c.wgSize \in [1..3 -> Nat] /\ c.wgCount \in [1..3 -> Nat]
  BY <1>1, PaletteAssumption
<1>3. c.kind = "dispatch" => c.wgSize[3] <= U16Max
  <2>1. c.kind = "dispatch" => ~ (c.wgSize[3] > U16Max)
    BY <1>1 DEF DispatchRefused
  <2>2. c.kind = "dispatch" => c.wgSize[3] \in Nat
    BY <1>2
  <2>3. QED
    BY <2>1, <2>2, SizesAssumption
<1>4. QED
  BY <1>1, <1>2, <1>3 DEF Unsupported, FillRefused, RefsRefused

\* What a serialized command looks like: its head, its constants, its references.
LEMMA SerializedShape ==
  ASSUME NEW c \in Accepted
  PROVE  /\ Serialized(c) \in Seq(AnyItem)
         /\ TailLength(c) \in Nat
         /\ Len(Serialized(c)) = 1 + TailLength(c)
         /\ c.kind = "dispatch" =>
              /\ Words(c) \in Nat
              /\ \A i \in 1..Words(c) : Serialized(c)[1 + i] = Item("con", i)
              /\ \A i \in 1..Len(RefsOf(c)) : Serialized(c)[1 + Words(c) + i] = Item("ref", RefList(c)[i])
         /\ HeadOf(c) =
              CASE c.kind = "dispatch" ->
                     Item("dispatch", [fn |-> c.fn, size |-> WorkgroupSize(c.wgSize),
                             count |-> WorkgroupCount(c.wgCount),
                             cons |-> Words(c), refs |-> Len(RefsOf(c))])
                [] c.kind = "barrier" -> Item("barrier", 0)
                [] c.kind = "copy" -> Item("copy", RefList(c))
                [] c.kind = "fill" -> Item("fill", [n |-> Len(c.pattern), pattern |-> Padded(c.pattern),
                                           trgt |-> RefList(c)[1]])
<1>a. /\ c.kind \in {"dispatch", "barrier", "copy", "fill"}
      /\ RefsOf(c) \in Seq(Reference)
      /\ c.kind = "dispatch" => c.conBytes \in Nat
  BY AcceptedKind
<1>b. c \in Palette
  BY DEF Accepted
<1>c. HeadOf(c) \in AnyItem
  BY <1>b DEF AnyItem
<1>1. CASE c.kind = "dispatch"
  <2> DEFINE head == Item("dispatch", [fn |-> c.fn, size |-> WorkgroupSize(c.wgSize),
                             count |-> WorkgroupCount(c.wgCount),
                             cons |-> Words(c), refs |-> Len(RefsOf(c))])
             q == Words(c)
             b == RefsOf(c)
             f == [i \in 1..q |-> Item("con", i)]
             g == [i \in 1..Len(b) |-> Item("ref", NormalizedRef(b[i]))]
             S == AnyItem \cup {head}
  <2>1. b = c.bindings /\ b \in Seq(Reference)
    BY <1>1, <1>a DEF RefsOf
  <2>2. q \in Nat
    BY <1>1, <1>a DEF Words
  <2>3. Serialized(c) = <<head>> \o f \o g
    <3>1. DOMAIN c.bindings = 1..Len(b)
      BY <2>1
    <3>2. QED
      BY <1>1, <2>1, <3>1 DEF Serialized, Words
  <2>4. \A i \in 1..q : Item("con", i) \in AnyItem
    BY <2>2 DEF AnyItem
  <2>5. \A i \in 1..Len(b) : Item("ref", NormalizedRef(b[i])) \in AnyItem
    <3>1. \A i \in 1..Len(b) : b[i] \in Reference
      <4> HIDE DEF b
      <4> QED BY <2>1
    <3>2. QED
      BY <3>1 DEF AnyItem
  <2>6. Len(b) \in Nat
    BY <2>1
  <2>7. f \in Seq(S) /\ Len(f) = q /\ g \in Seq(S) /\ Len(g) = Len(b) /\ <<head>> \in Seq(S)
    <3> HIDE DEF b, q, head
    <3> QED BY <2>2, <2>4, <2>5, <2>6
  <2>8. /\ <<head>> \o f \in Seq(S) /\ Len(<<head>> \o f) = 1 + q
        /\ (<<head>> \o f)[1] = head
        /\ \A i \in 1..q : (<<head>> \o f)[1 + i] = f[i]
    <3> HIDE DEF f, head, S, q
    <3> QED BY <2>2, <2>7
  <2> DEFINE hf == <<head>> \o f
  <2>9. /\ hf \o g \in Seq(S) /\ Len(hf \o g) = 1 + q + Len(b)
        /\ (hf \o g)[1] = head
        /\ \A i \in 1..q : (hf \o g)[1 + i] = f[i]
        /\ \A i \in 1..Len(b) : (hf \o g)[1 + q + i] = g[i]
    <3> HIDE DEF f, g, head, S, q, b, hf
    <3>1. hf \in Seq(S) /\ Len(hf) = 1 + q /\ hf[1] = head /\ (\A i \in 1..q : hf[1 + i] = f[i])
      BY <2>8 DEF hf
    <3>2. hf \o g \in Seq(S) /\ Len(hf \o g) = 1 + q + Len(b)
      BY <3>1, <2>7, <2>2, <2>6
    <3>3. \A i \in 1..(1 + q) : (hf \o g)[i] = hf[i]
      BY <3>1, <2>7, <2>2
    <3>4. \A i \in 1..Len(b) : (hf \o g)[1 + q + i] = g[i]
      BY <3>1, <2>7, <2>2, <2>6
    <3>5. QED
      BY <3>1, <3>2, <3>3, <3>4, <2>2
  <2>10. HeadOf(c) = head
    BY <2>3, <2>9 DEF HeadOf
  <2>11. S = AnyItem
    BY <2>10, <1>c
  <2>12. TailLength(c) = q + Len(b)
    BY <1>1, <2>1 DEF TailLength
  <2>13. \A i \in 1..Len(b) : g[i] = Item("ref", RefList(c)[i])
    BY DEF RefList
  <2>14. \A i \in 1..q : f[i] = Item("con", i)
    OBVIOUS
  <2>15. QED
    <3> HIDE DEF f, g, S, hf
    <3>1. Serialized(c) = hf \o g
      BY <2>3 DEF hf
    <3>2. /\ Serialized(c) \in Seq(AnyItem)
          /\ TailLength(c) \in Nat
          /\ Len(Serialized(c)) = 1 + TailLength(c)
      BY <3>1, <2>9, <2>11, <2>12, <2>2, <2>6
    <3>3. /\ \A i \in 1..Words(c) : Serialized(c)[1 + i] = Item("con", i)
          /\ \A i \in 1..Len(RefsOf(c)) : Serialized(c)[1 + Words(c) + i] = Item("ref", RefList(c)[i])
      BY <3>1, <2>9, <2>13, <2>14
    <3>4. QED
      BY <3>2, <3>3, <2>2, <2>10, <1>1
<1>2. CASE c.kind = "barrier"
  <2>1. Serialized(c) = <<Item("barrier", 0)>>
    BY <1>2 DEF Serialized
  <2>2. QED
    BY <2>1, <1>2, <1>c DEF HeadOf, TailLength
<1>3. CASE c.kind = "copy"
  <2>1. Serialized(c) = <<Item("copy", <<NormalizedRef(c.src), NormalizedRef(c.trgt)>>)>>
    BY <1>3 DEF Serialized
  <2>2. RefsOf(c) = <<c.src, c.trgt>>
    BY <1>3 DEF RefsOf
  <2>3. RefList(c) = <<NormalizedRef(c.src), NormalizedRef(c.trgt)>>
    BY <2>2 DEF RefList
  <2>4. QED
    BY <2>1, <2>3, <1>3, <1>c DEF HeadOf, TailLength
<1>4. CASE c.kind = "fill"
  <2>1. Serialized(c) = <<Item("fill", [n |-> Len(c.pattern), pattern |-> Padded(c.pattern),
                                           trgt |-> NormalizedRef(c.trgt)])>>
    BY <1>4 DEF Serialized
  <2>2. RefsOf(c) = <<c.trgt>>
    BY <1>4 DEF RefsOf
  <2>3. RefList(c)[1] = NormalizedRef(c.trgt)
    BY <2>2 DEF RefList
  <2>4. QED
    BY <2>1, <2>3, <1>4, <1>c DEF HeadOf, TailLength
<1>5. QED
  BY <1>1, <1>2, <1>3, <1>4, <1>a
------------------------------------------------------------------------------
(* The layout of the stream: off[k], w[k] and d[k] are the items, the bytes and *)
(* the direct references in front of command k + 1.                         *)

Direct(c) == {i \in 1..Len(RefsOf(c)) : RefList(c)[i].fd # -1}

Layout(off, w, d) ==
  /\ off \in [0..Len(asked) -> Nat] /\ w \in [0..Len(asked) -> Nat] /\ d \in [0..Len(asked) -> Nat]
  /\ off[0] = 1 /\ w[0] = ItemSize("header") /\ d[0] = 0
  /\ \A k \in 1..Len(asked) :
       /\ off[k] = off[k - 1] + Len(Serialized(asked[k]))
       /\ w[k] = w[k - 1] + SerializedSize(asked[k])
       /\ d[k] = d[k - 1] + Cardinality(Direct(asked[k]))
  /\ \A i, j \in 0..Len(asked) : i <= j => off[i] <= off[j] /\ w[i] <= w[j] /\ d[i] <= d[j]

Recorded ==
  /\ asked \in Seq(Accepted)
  /\ entries = [k \in 1..Len(asked) |->
                  [size |-> SerializedSize(asked[k]), items |-> Serialized(asked[k])]]

\* The stream holds the header and the first m commands.
Written(off, m) ==
  /\ stream.items \in Seq(AnyItem) /\ Len(stream.items) = off[m]
  /\ stream.items[1] = Item("header", Len(asked))
  /\ \A k \in 1..m : \A j \in 1..Len(Serialized(asked[k])) :
       stream.items[off[k - 1] + j] = Serialized(asked[k])[j]

Walking == {"count", "collect", "execute", "done"}
Position == [left : Int, pos : Nat, entry : Nat]

\* Where a walk is, in terms of the layout.
Progress(off, w) ==
  /\ at \in Position /\ at.entry <= Len(asked)
  /\ stream \in [size : Nat, items : Seq(AnyItem)]
  /\ phase \in {"record", "size", "copy", "error"} \cup Walking
  /\ phase \in {"record", "size"} => stream.items = <<>>
  /\ phase = "record" => at.entry = 0
  /\ phase = "size" => stream.size = w[at.entry]
  /\ phase \in {"copy"} \cup Walking =>
       /\ stream.size = w[Len(asked)]
       /\ at.left = w[Len(asked)] - w[at.entry]
       /\ at.pos = off[at.entry]
  /\ phase = "copy" => Written(off, at.entry)
  /\ phase \in Walking => Written(off, Len(asked))

\* Counts are natural numbers.
LEMMA LayoutType ==
  ASSUME NEW off, NEW w, NEW d, Layout(off, w, d), NEW k \in 0..Len(asked)
  PROVE  off[k] \in Nat /\ w[k] \in Nat /\ d[k] \in Nat
BY DEF Layout

\* The sizes of the packed structures.
LEMMA ItemSizes ==
  /\ ItemSize("header") = 4 /\ ItemSize("dispatch") = 35 /\ ItemSize("con") = 4 /\ ItemSize("ref") = 32
  /\ ItemSize("barrier") = 1 /\ ItemSize("copy") = 65 /\ ItemSize("fill") = 38
BY DEF ItemSize

\* A command has a size.
LEMMA SizeType ==
  ASSUME NEW c \in Accepted
  PROVE  SerializedSize(c) \in Nat
<1>1. CASE c.kind = "dispatch"
  <2>1. c.conBytes \in Nat /\ c.bindings \in Seq(Reference)
    BY <1>1, AcceptedKind DEF RefsOf
  <2>2. c.conBytes \div 4 \in Nat /\ Len(c.bindings) \in Nat
    BY <2>1
  <2>3. QED
    BY <1>1, <2>2, ItemSizes DEF SerializedSize
<1>2. CASE c.kind # "dispatch"
  BY <1>2, AcceptedKind, ItemSizes DEF SerializedSize
<1>3. QED
  BY <1>1, <1>2

\* A command has a number of direct references.
LEMMA DirectCount ==
  ASSUME NEW c \in Accepted
  PROVE  /\ IsFiniteSet(Direct(c)) /\ Cardinality(Direct(c)) \in Nat
         /\ Direct(c) \subseteq 1..Len(RefsOf(c))
<1>1. Len(RefsOf(c)) \in Nat
  BY AcceptedKind
<1>2. Direct(c) \subseteq 1..Len(RefsOf(c))
  BY DEF Direct
<1>3. IsFiniteSet(1..Len(RefsOf(c)))
  BY <1>1, FS_Interval
<1>4. QED
  BY <1>2, <1>3, FS_Subset, FS_CardinalityType

\* A walk that has not reached the end reads the next command as it was recorded, and
\* moves on to the one behind it.
LEMMA ReadsCommand ==
  ASSUME NEW off, NEW w, NEW d, Layout(off, w, d), Recorded, Progress(off, w),
         phase \in Walking, NEW c, at.entry < Len(asked) => c = asked[at.entry + 1]
  PROVE  /\ MoreToRead <=> at.entry < Len(asked)
         /\ MoreToRead =>
              /\ c \in Accepted
              /\ Readable
              /\ Cmd = HeadOf(c) /\ Cmd.t = c.kind
              /\ References = RefList(c) /\ Len(References) = Len(RefsOf(c))
              /\ DOMAIN References = 1..Len(RefsOf(c))
              /\ DirectRefs = Direct(c)
              /\ c.kind = "dispatch" => Constants = [i \in 1..Words(c) |-> i]
              /\ AfterCmd = [left |-> w[Len(asked)] - w[at.entry + 1], pos |-> off[at.entry + 1],
                             entry |-> at.entry + 1]
<1> DEFINE n == Len(asked)
           e == at.entry
<1>1. /\ n \in Nat /\ e \in Nat /\ e <= n
      /\ at.left = w[n] - w[e] /\ at.pos = off[e]
      /\ Written(off, n)
  <2>1. asked \in Seq(Accepted)
    BY DEF Recorded
  <2>2. QED
    BY <2>1 DEF Progress, Position, Walking
<1>2. Entries = n
  BY <1>1 DEF Written, Entries, Item
<1>3. MoreToRead <=> e < n
  BY <1>2 DEF MoreToRead
<1>4. SUFFICES ASSUME e < n
               PROVE  /\ c \in Accepted
                      /\ Readable
                      /\ Cmd = HeadOf(c) /\ Cmd.t = c.kind
                      /\ References = RefList(c) /\ Len(References) = Len(RefsOf(c))
                      /\ DOMAIN References = 1..Len(RefsOf(c))
                      /\ DirectRefs = Direct(c)
                      /\ c.kind = "dispatch" => Constants = [i \in 1..Words(c) |-> i]
                      /\ AfterCmd = [left |-> w[n] - w[e + 1], pos |-> off[e + 1], entry |-> e + 1]
  BY <1>3
<1>5. c = asked[e + 1] /\ e + 1 \in 1..n
  BY <1>4, <1>1
<1>6. c \in Accepted
  <2>1. asked \in Seq(Accepted)
    BY DEF Recorded
  <2>2. QED
    BY <2>1, <1>5
<1>7. /\ off[e] \in Nat /\ off[e + 1] \in Nat /\ off[n] \in Nat
      /\ w[e] \in Nat /\ w[e + 1] \in Nat /\ w[n] \in Nat
  <2>1. e \in 0..n /\ e + 1 \in 0..n /\ n \in 0..n
    BY <1>1, <1>4
  <2>2. QED
    BY <2>1, LayoutType
<1>8. /\ off[e + 1] = off[e] + Len(Serialized(c))
      /\ w[e + 1] = w[e] + SerializedSize(c)
  <2>1. /\ off[e + 1] = off[(e + 1) - 1] + Len(Serialized(c))
        /\ w[e + 1] = w[(e + 1) - 1] + SerializedSize(c)
    BY <1>5 DEF Layout
  <2>2. (e + 1) - 1 = e
    BY <1>1
  <2>3. QED
    BY <2>1, <2>2
<1>9. off[e + 1] <= off[n] /\ w[e + 1] <= w[n]
  <2>1. e + 1 \in 0..n /\ n \in 0..n /\ e + 1 <= n
    BY <1>1, <1>4
  <2>2. QED
    BY <2>1 DEF Layout
<1>10. /\ TailLength(c) \in Nat /\ Len(Serialized(c)) = 1 + TailLength(c)
       /\ c.kind = "dispatch" =>
              /\ Words(c) \in Nat
              /\ \A i \in 1..Words(c) : Serialized(c)[1 + i] = Item("con", i)
              /\ \A i \in 1..Len(RefsOf(c)) : Serialized(c)[1 + Words(c) + i] = Item("ref", RefList(c)[i])
  BY <1>6, SerializedShape
<1>11. \A j \in 1..(1 + TailLength(c)) : stream.items[off[e] + j] = Serialized(c)[j]
  <2>1. \A j \in 1..Len(Serialized(c)) : stream.items[off[(e + 1) - 1] + j] = Serialized(c)[j]
    BY <1>1, <1>5 DEF Written
  <2>2. (e + 1) - 1 = e
    BY <1>1
  <2>3. QED
    BY <2>1, <2>2, <1>10
<1>12. Cmd = HeadOf(c)
  <2>1. 1 \in 1..(1 + TailLength(c))
    BY <1>10
  <2>2. stream.items[off[e] + 1] = Serialized(c)[1]
    BY <2>1, <1>11
  <2>3. QED
    BY <2>2, <1>1 DEF Cmd, HeadOf
<1>13. c.kind \in {"dispatch", "barrier", "copy", "fill"} /\ RefsOf(c) \in Seq(Reference)
  BY <1>6, AcceptedKind
<1>h. HeadOf(c) =
              CASE c.kind = "dispatch" ->
                     Item("dispatch", [fn |-> c.fn, size |-> WorkgroupSize(c.wgSize),
                             count |-> WorkgroupCount(c.wgCount),
                             cons |-> Words(c), refs |-> Len(RefsOf(c))])
                [] c.kind = "barrier" -> Item("barrier", 0)
                [] c.kind = "copy" -> Item("copy", RefList(c))
                [] c.kind = "fill" -> Item("fill", [n |-> Len(c.pattern), pattern |-> Padded(c.pattern),
                                           trgt |-> RefList(c)[1]])
  BY <1>6, SerializedShape
<1>14. Cmd.t = c.kind
  BY <1>12, <1>13, <1>h DEF Item
<1>15. c.kind = "dispatch" => Cmd.v.cons = Words(c) /\ Cmd.v.refs = Len(RefsOf(c))
  BY <1>12, <1>h DEF Item
<1>16. Trailing = TailLength(c)
  <2>1. c.kind = "dispatch" => RefsOf(c) = c.bindings
    BY DEF RefsOf
  <2>2. QED
    BY <1>14, <1>15, <2>1 DEF Trailing, TailLength
<1>17. CmdSize = SerializedSize(c) /\ SerializedSize(c) \in Nat
  <2>1. c.kind = "dispatch" => RefsOf(c) = c.bindings
    BY DEF RefsOf
  <2>2. CASE c.kind = "dispatch"
    <3>1. Words(c) \in Nat /\ Len(RefsOf(c)) \in Nat
      BY <1>10, <1>13, <2>2
    <3>2. CmdSize = 35 + (Words(c) * 4 + Len(RefsOf(c)) * 32)
      BY <1>14, <1>15, <2>2, ItemSizes DEF CmdSize
    <3>3. SerializedSize(c) = 35 + Words(c) * 4 + Len(RefsOf(c)) * 32
      BY <2>1, <2>2, ItemSizes DEF SerializedSize, Words
    <3>4. QED
      BY <3>1, <3>2, <3>3, <1>6, SizeType
  <2>3. CASE c.kind # "dispatch"
    <3>1. ItemSize(c.kind) \in Nat
      BY <2>3, <1>13, ItemSizes
    <3>2. CmdSize = ItemSize(c.kind) + 0 /\ SerializedSize(c) = ItemSize(c.kind)
      BY <1>14, <2>3 DEF CmdSize, SerializedSize
    <3>3. QED
      BY <3>1, <3>2
  <2>4. QED
    BY <2>2, <2>3
<1>18. Readable
  <2>1. Len(stream.items) = off[n]
    BY <1>1 DEF Written
  <2>2. off[e] < off[n]
    BY <1>7, <1>8, <1>9, <1>10
  <2>3. SerializedSize(c) <= w[n] - w[e]
    BY <1>7, <1>8, <1>9, <1>17
  <2>4. QED
    BY <1>1, <2>1, <2>2, <2>3, <1>17 DEF Readable
<1>19. AfterCmd = [left |-> w[n] - w[e + 1], pos |-> off[e + 1], entry |-> e + 1]
  <2>1. at.left - CmdSize = w[n] - w[e + 1]
    BY <1>1, <1>7, <1>8, <1>17
  <2>2. at.pos + 1 + Trailing = off[e + 1]
    <3>1. TailLength(c) \in Nat /\ Len(Serialized(c)) = 1 + TailLength(c)
      BY <1>10
    <3>2. off[e + 1] = off[e] + (1 + TailLength(c)) /\ off[e] \in Nat
      BY <3>1, <1>7, <1>8
    <3>3. at.pos = off[e]
      BY <1>1
    <3>4. QED
      BY <3>1, <3>2, <3>3, <1>16
  <2>3. QED
    BY <2>1, <2>2 DEF AfterCmd
<1>20. References = RefList(c)
  <2>1. CASE c.kind = "dispatch"
    <3>1. \A i \in 1..Len(RefsOf(c)) : stream.items[off[e] + 1 + Words(c) + i].v = RefList(c)[i]
      <4> SUFFICES ASSUME NEW i \in 1..Len(RefsOf(c))
                   PROVE  stream.items[off[e] + 1 + Words(c) + i].v = RefList(c)[i]
        OBVIOUS
      <4>1. TailLength(c) = Words(c) + Len(RefsOf(c)) /\ Words(c) \in Nat /\ Len(RefsOf(c)) \in Nat
        BY <2>1, <1>10, <1>13 DEF TailLength, RefsOf
      <4>2. 1 + Words(c) + i \in 1..(1 + TailLength(c))
        BY <4>1
      <4>3. off[e] + 1 + Words(c) + i = off[e] + (1 + Words(c) + i)
        <5>1. PICK x, y : x = off[e] /\ y = Words(c)
          OBVIOUS
        <5>2. x \in Nat /\ y \in Nat /\ i \in Nat
          BY <5>1, <4>1, <1>7
        <5>3. x + 1 + y + i = x + (1 + y + i)
          BY <5>2
        <5>4. QED
          BY <5>1, <5>3
      <4>4. stream.items[off[e] + 1 + Words(c) + i] = Item("ref", RefList(c)[i])
        BY <4>2, <4>3, <1>10, <1>11, <2>1
      <4>5. QED
        BY <4>4 DEF Item
    <3>2. References = [i \in 1..Len(RefsOf(c)) |-> stream.items[off[e] + 1 + Words(c) + i].v]
      BY <1>1, <1>14, <1>15, <2>1 DEF References
    <3>3. RefList(c) = [i \in 1..Len(RefsOf(c)) |-> RefList(c)[i]]
      BY DEF RefList
    <3>4. QED
      BY <3>1, <3>2, <3>3
  <2>2. CASE c.kind = "copy"
    BY <2>2, <1>12, <1>14, <1>h DEF References, Item
  <2>3. CASE c.kind = "fill"
    <3>1. References = <<RefList(c)[1]>>
      BY <2>3, <1>12, <1>14, <1>h DEF References, Item
    <3>2. RefsOf(c) = <<c.trgt>>
      BY <2>3 DEF RefsOf
    <3>3. RefList(c) = <<RefList(c)[1]>>
      BY <3>2 DEF RefList
    <3>4. QED
      BY <3>1, <3>3
  <2>4. CASE c.kind = "barrier"
    <3>1. References = <<>>
      BY <2>4, <1>14 DEF References
    <3>2. RefsOf(c) = <<>>
      BY <2>4 DEF RefsOf
    <3>3. RefList(c) = <<>>
      BY <3>2 DEF RefList
    <3>4. QED
      BY <3>1, <3>3
  <2>5. QED
    BY <2>1, <2>2, <2>3, <2>4, <1>13
<1>21. Len(References) = Len(RefsOf(c)) /\ DOMAIN References = 1..Len(RefsOf(c))
  <2>1. Len(RefsOf(c)) \in Nat
    BY <1>13
  <2>2. QED
    BY <2>1, <1>20 DEF RefList
<1>22. DirectRefs = Direct(c)
  BY <1>20, <1>21 DEF DirectRefs, Direct
<1>23. c.kind = "dispatch" => Constants = [i \in 1..Words(c) |-> i]
  <2> SUFFICES ASSUME c.kind = "dispatch" PROVE Constants = [i \in 1..Words(c) |-> i]
    OBVIOUS
  <2>1. TailLength(c) = Words(c) + Len(RefsOf(c)) /\ Words(c) \in Nat /\ Len(RefsOf(c)) \in Nat
    BY <1>10, <1>13 DEF TailLength, RefsOf
  <2>2. \A i \in 1..Words(c) : stream.items[off[e] + 1 + i].v = i
    <3> SUFFICES ASSUME NEW i \in 1..Words(c) PROVE stream.items[off[e] + 1 + i].v = i
      OBVIOUS
    <3>1. 1 + i \in 1..(1 + TailLength(c)) /\ off[e] + 1 + i = off[e] + (1 + i)
      <4>1. i \in Nat /\ 1 <= i /\ i <= Words(c)
        BY <2>1
      <4>2. off[e] \in Nat
        BY <1>7
      <4>3. 1 + i <= 1 + TailLength(c)
        BY <2>1, <4>1
      <4>4. off[e] + 1 + i = off[e] + (1 + i)
        BY <4>1, <4>2
      <4>5. QED
        BY <2>1, <4>1, <4>3, <4>4, <1>10
    <3>2. stream.items[off[e] + 1 + i] = Item("con", i)
      BY <3>1, <1>10, <1>11
    <3>3. QED
      BY <3>2 DEF Item
  <2>3. Constants = [i \in 1..Words(c) |-> stream.items[off[e] + 1 + i].v]
    BY <1>1, <1>15 DEF Constants
  <2>4. QED
    BY <2>2, <2>3
<1>24. QED
  BY <1>6, <1>12, <1>14, <1>18, <1>19, <1>20, <1>21, <1>22, <1>23
------------------------------------------------------------------------------
(* The host's part: recording and sending.                                  *)

\* Only Record changes what was recorded.
LEMMA HostUnchanged ==
  ASSUME NEW off, NEW w, NEW d, Layout(off, w, d), Recorded, UNCHANGED hostVars
  PROVE  Layout(off, w, d)' /\ Recorded'
<1>1. asked' = asked /\ entries' = entries
  BY DEF hostVars
<1>2. Layout(off, w, d)'
  BY <1>1 DEF Layout
<1>3. Recorded'
  BY <1>1 DEF Recorded
<1>4. QED
  BY <1>2, <1>3

\* A recorded command extends the layout by its own items, bytes and direct references.
LEMMA RecordLayout ==
  ASSUME NEW off, NEW w, NEW d, Layout(off, w, d), Recorded, NEW c \in Palette, Record(c)
  PROVE  Recorded' /\ \E off2, w2, d2 : Layout(off2, w2, d2)'
<1> DEFINE n == Len(asked)
           x == Len(Serialized(c))
           y == SerializedSize(c)
           z == Cardinality(Direct(c))
           off2 == [k \in 0..(n + 1) |-> IF k <= n THEN off[k] ELSE off[n] + x]
           w2 == [k \in 0..(n + 1) |-> IF k <= n THEN w[k] ELSE w[n] + y]
           d2 == [k \in 0..(n + 1) |-> IF k <= n THEN d[k] ELSE d[n] + z]
<1>1. c \in Accepted
  BY DEF Record, Accepted
<1>2. x \in Nat /\ y \in Nat /\ z \in Nat
  BY <1>1, SerializedShape, SizeType, DirectCount
<1>3. /\ asked \in Seq(Accepted) /\ n \in Nat
      /\ entries = [k \in 1..n |-> [size |-> SerializedSize(asked[k]), items |-> Serialized(asked[k])]]
  <2>1. asked \in Seq(Accepted)
    BY DEF Recorded
  <2>2. QED
    BY <2>1 DEF Recorded
<1>4. /\ asked' \in Seq(Accepted) /\ Len(asked') = n + 1
      /\ asked'[n + 1] = c /\ \A k \in 1..n : asked'[k] = asked[k]
  <2>1. asked' = Append(asked, c)
    BY DEF Record
  <2>2. QED
    BY <2>1, <1>1, <1>3
<1>5. Recorded'
  <2> DEFINE E(s) == [size |-> SerializedSize(s), items |-> Serialized(s)]
  <2>1. entries' = Append(entries, E(c))
    BY DEF Record
  <2>2. entries = [k \in 1..n |-> E(asked[k])]
    BY <1>3
  <2> DEFINE es == {E(s) : s \in Accepted}
  <2> HIDE DEF E
  <2>3. \A k \in 1..n : asked[k] \in Accepted
    BY <1>3
  <2>4. entries \in Seq(es) /\ Len(entries) = n /\ E(c) \in es
    BY <2>2, <2>3, <1>3, <1>1
  <2> HIDE DEF es
  <2>5. entries' \in Seq(es) /\ Len(entries') = n + 1 /\ entries'[n + 1] = E(c)
        /\ \A k \in 1..n : entries'[k] = entries[k]
    BY <2>1, <2>4
  <2>6. \A k \in 1..(n + 1) : entries'[k] = E(asked'[k])
    <3> SUFFICES ASSUME NEW k \in 1..(n + 1) PROVE entries'[k] = E(asked'[k])
      OBVIOUS
    <3>1. k = n + 1 \/ k \in 1..n
      BY <1>3
    <3>2. QED
      BY <3>1, <2>5, <2>2, <1>4
  <2>7. entries' = [k \in 1..(n + 1) |-> entries'[k]]
    BY <2>5, <1>3
  <2>8. entries' = [k \in 1..(n + 1) |-> E(asked'[k])]
    BY <2>6, <2>7
  <2>9. QED
    BY <2>8, <1>4 DEF Recorded, E
<1>6. /\ off \in [0..n -> Nat] /\ w \in [0..n -> Nat] /\ d \in [0..n -> Nat]
      /\ off[0] = 1 /\ w[0] = ItemSize("header") /\ d[0] = 0
      /\ \A k \in 1..n :
           /\ off[k] = off[k - 1] + Len(Serialized(asked[k]))
           /\ w[k] = w[k - 1] + SerializedSize(asked[k])
           /\ d[k] = d[k - 1] + Cardinality(Direct(asked[k]))
      /\ \A i, j \in 0..n : i <= j => off[i] <= off[j] /\ w[i] <= w[j] /\ d[i] <= d[j]
  BY DEF Layout
<1>7. n \in 0..n /\ 0 \in 0..n /\ off[n] \in Nat /\ w[n] \in Nat /\ d[n] \in Nat
  BY <1>3, <1>6
<1>8. /\ \A k \in 0..n : off2[k] = off[k] /\ w2[k] = w[k] /\ d2[k] = d[k]
      /\ off2[n + 1] = off[n] + x /\ w2[n + 1] = w[n] + y /\ d2[n + 1] = d[n] + z
  <2>1. \A k \in 0..n : k \in 0..(n + 1) /\ k <= n
    BY <1>3
  <2>2. n + 1 \in 0..(n + 1) /\ ~ (n + 1 <= n)
    BY <1>3
  <2> HIDE DEF x, y, z, n
  <2> QED BY <2>1, <2>2
<1>9. off2 \in [0..(n + 1) -> Nat] /\ w2 \in [0..(n + 1) -> Nat] /\ d2 \in [0..(n + 1) -> Nat]
  <2>1. \A k \in 0..(n + 1) : k <= n => k \in 0..n
    BY <1>3
  <2> HIDE DEF x, y, z, n
  <2> QED BY <2>1, <1>2, <1>6, <1>7
<1> HIDE DEF off2, w2, d2
<1>10. \A k \in 1..(n + 1) :
           /\ off2[k] = off2[k - 1] + Len(Serialized(asked'[k]))
           /\ w2[k] = w2[k - 1] + SerializedSize(asked'[k])
           /\ d2[k] = d2[k - 1] + Cardinality(Direct(asked'[k]))
  <2> SUFFICES ASSUME NEW k \in 1..(n + 1)
               PROVE  /\ off2[k] = off2[k - 1] + Len(Serialized(asked'[k]))
                      /\ w2[k] = w2[k - 1] + SerializedSize(asked'[k])
                      /\ d2[k] = d2[k - 1] + Cardinality(Direct(asked'[k]))
    OBVIOUS
  <2>1. CASE k \in 1..n
    <3>1. k \in 0..n /\ k - 1 \in 0..n
      BY <2>1, <1>3
    <3>2. QED
      BY <3>1, <2>1, <1>6, <1>8, <1>4
  <2>2. CASE k = n + 1
    <3>1. k - 1 = n
      BY <2>2, <1>3
    <3>2. QED
      BY <3>1, <2>2, <1>8, <1>7, <1>4
  <2>3. QED
    BY <2>1, <2>2, <1>3
<1>11. \A i, j \in 0..(n + 1) : i <= j => off2[i] <= off2[j] /\ w2[i] <= w2[j] /\ d2[i] <= d2[j]
  <2> SUFFICES ASSUME NEW i \in 0..(n + 1), NEW j \in 0..(n + 1), i <= j
               PROVE  off2[i] <= off2[j] /\ w2[i] <= w2[j] /\ d2[i] <= d2[j]
    OBVIOUS
  <2>1. CASE j \in 0..n
    <3>1. i \in 0..n
      BY <2>1, <1>3
    <3>2. QED
      BY <3>1, <2>1, <1>6, <1>8
  <2>2. CASE j = n + 1 /\ i \in 0..n
    <3>1. off[i] <= off[n] /\ w[i] <= w[n] /\ d[i] <= d[n] /\ off[i] \in Nat /\ w[i] \in Nat /\ d[i] \in Nat
      <4>1. i <= n
        BY <2>2, <1>3
      <4>2. QED
        BY <4>1, <2>2, <1>6, <1>7
    <3>2. off2[i] = off[i] /\ w2[i] = w[i] /\ d2[i] = d[i]
      BY <2>2, <1>8
    <3>3. off2[j] = off[n] + x /\ w2[j] = w[n] + y /\ d2[j] = d[n] + z
      BY <2>2, <1>8
    <3>4. \A p, q, r \in Nat : p <= q => p <= q + r
      OBVIOUS
    <3>5. off[i] <= off[n] + x /\ w[i] <= w[n] + y /\ d[i] <= d[n] + z
      <4> HIDE DEF x, y, z, n
      <4> QED BY <3>1, <3>4, <1>2, <1>7
    <3>6. QED
      BY <3>2, <3>3, <3>5
  <2>3. CASE j = n + 1 /\ i = n + 1
    <3>1. off2[i] \in Nat /\ w2[i] \in Nat /\ d2[i] \in Nat
      BY <1>9
    <3>2. QED
      BY <2>3, <3>1
  <2>4. (i \in 0..n \/ i = n + 1) /\ (j \in 0..n \/ j = n + 1)
    BY <1>3
  <2>5. QED
    BY <2>1, <2>2, <2>3, <2>4
<1>12. off2[0] = 1 /\ w2[0] = ItemSize("header") /\ d2[0] = 0
  BY <1>6, <1>7, <1>8
<1>13. PICK o, u, v : o = off2 /\ u = w2 /\ v = d2
  OBVIOUS
<1>14. Layout(o, u, v)'
  BY <1>4, <1>9, <1>10, <1>11, <1>12, <1>13 DEF Layout
<1>15. QED
  BY <1>5, <1>14

\* Nothing has been sent, and everything starts at the beginning.
LEMMA InitProgress ==
  ASSUME Init
  PROVE  Recorded /\ \E off, w, d : Layout(off, w, d) /\ Progress(off, w)
<1> DEFINE one == [k \in 0..0 |-> 1]
           four == [k \in 0..0 |-> 4]
           zero == [k \in 0..0 |-> 0]
<1>1. /\ asked = <<>> /\ Len(asked) = 0 /\ asked \in Seq(Accepted) /\ entries = <<>> /\ phase = "record"
      /\ stream = [size |-> 0, items |-> <<>>] /\ at = [left |-> 0, pos |-> 0, entry |-> 0]
  BY DEF Init
<1>2. Recorded
  <2>1. [k \in 1..Len(asked) |-> [size |-> SerializedSize(asked[k]), items |-> Serialized(asked[k])]] = <<>>
    BY <1>1
  <2>2. QED
    BY <1>1, <2>1 DEF Recorded
<1>3. Layout(one, four, zero)
  BY <1>1, ItemSizes DEF Layout
<1>4. Progress(one, four)
  <2>1. at \in Position /\ at.entry = 0
    BY <1>1 DEF Position
  <2>2. stream \in [size : Nat, items : Seq(AnyItem)] /\ stream.items = <<>>
    BY <1>1
  <2>3. QED
    BY <1>1, <2>1, <2>2 DEF Progress, Walking
<1>5. QED
  BY <1>2, <1>3, <1>4

\* A step that moves no walk.
LEMMA ProgressStays ==
  ASSUME NEW off, NEW w, Progress(off, w), UNCHANGED <<hostVars, stream, at>>,
         \/ phase' = phase
         \/ phase' = "error"
         \/ phase = "execute" /\ phase' = "done"
  PROVE  Progress(off, w)'
<1>1. asked' = asked /\ stream' = stream /\ at' = at
  BY DEF hostVars
<1>2. \A m : Written(off, m)' <=> Written(off, m)
  BY <1>1 DEF Written
<1>3. QED
  BY <1>1, <1>2 DEF Progress, Walking

\* A step that reads a command.
LEMMA ProgressReads ==
  ASSUME NEW off, NEW w, NEW d, Layout(off, w, d), Recorded, Progress(off, w),
         phase \in Walking, MoreToRead, at' = AfterCmd, UNCHANGED <<hostVars, phase, stream>>
  PROVE  Progress(off, w)' /\ at'.entry = at.entry + 1 /\ at.entry < Len(asked)
<1>1. PICK c : c = asked[at.entry + 1]
  OBVIOUS
<1>2. /\ at.entry < Len(asked)
      /\ AfterCmd = [left |-> w[Len(asked)] - w[at.entry + 1], pos |-> off[at.entry + 1], entry |-> at.entry + 1]
  BY <1>1, ReadsCommand
<1>3. asked' = asked /\ phase' = phase /\ stream' = stream
  BY DEF hostVars
<1>4. at.entry \in Nat /\ Len(asked) \in Nat
  <2>1. asked \in Seq(Accepted)
    BY DEF Recorded
  <2>2. QED
    BY <2>1 DEF Progress, Position
<1>5. at.entry + 1 \in 0..Len(asked) /\ Len(asked) \in 0..Len(asked)
  BY <1>2, <1>4
<1>6. off[at.entry + 1] \in Nat /\ w[at.entry + 1] \in Nat /\ w[Len(asked)] \in Nat
  BY <1>5, LayoutType
<1>7. /\ at'.left = w[Len(asked)] - w[at.entry + 1] /\ at'.pos = off[at.entry + 1] /\ at'.entry = at.entry + 1
      /\ at' \in Position
  BY <1>2, <1>4, <1>6 DEF Position
<1>8. Written(off, Len(asked))'
  <2>1. Written(off, Len(asked))
    BY DEF Progress
  <2>2. QED
    BY <2>1, <1>3 DEF Written
<1>9. stream' \in [size : Nat, items : Seq(AnyItem)] /\ stream'.size = w[Len(asked)]
  BY <1>3 DEF Progress
<1>10. at'.entry <= Len(asked)
  BY <1>5, <1>7
<1>11. QED
  BY <1>2, <1>3, <1>7, <1>8, <1>9, <1>10 DEF Progress, Walking

\* A new walk starts behind the header.
LEMMA ProgressRestarts ==
  ASSUME NEW off, NEW w, NEW d, Layout(off, w, d), Recorded, Progress(off, w),
         phase \in {"copy"} \cup Walking, phase = "copy" => at.entry = Len(asked),
         phase' \in Walking, at' = StartOfStream(stream), UNCHANGED <<hostVars, stream>>
  PROVE  Progress(off, w)' /\ at'.entry = 0
<1>1. asked' = asked /\ stream' = stream
  BY DEF hostVars
<1>2. Len(asked) \in Nat
  <2>1. asked \in Seq(Accepted)
    BY DEF Recorded
  <2>2. QED
    BY <2>1
<1>3. off[0] = 1 /\ w[0] = 4 /\ w[Len(asked)] \in Nat
  <2>1. Len(asked) \in 0..Len(asked)
    BY <1>2
  <2>2. QED
    BY <2>1, LayoutType, ItemSizes DEF Layout
<1>4. stream.size = w[Len(asked)] /\ stream \in [size : Nat, items : Seq(AnyItem)]
  BY DEF Progress
<1>5. /\ at'.left = w[Len(asked)] - w[0] /\ at'.pos = off[0] /\ at'.entry = 0
      /\ at' \in Position
  BY <1>3, <1>4, ItemSizes DEF StartOfStream, Position
<1>6. Written(off, Len(asked))'
  <2>1. Written(off, Len(asked))
    BY DEF Progress, Walking
  <2>2. QED
    BY <2>1, <1>1 DEF Written
<1>7. at'.entry <= Len(asked)
  BY <1>2, <1>5
<1>8. QED
  BY <1>1, <1>4, <1>5, <1>6, <1>7 DEF Progress, Walking

\* The sum of the sizes grows by one entry, as the layout does.
LEMMA AddSizeProgress ==
  ASSUME NEW off, NEW w, NEW d, Layout(off, w, d), Recorded, Progress(off, w), AddSize
  PROVE  Progress(off, w)'
<1> DEFINE e == at.entry
<1>1. /\ phase = "size" /\ phase' = "size" /\ asked' = asked /\ e < Len(entries)
      /\ stream' = [stream EXCEPT !.size = @ + entries[e + 1].size]
      /\ at' = [at EXCEPT !.entry = @ + 1]
  BY DEF AddSize, hostVars
<1>2. asked \in Seq(Accepted) /\ Len(asked) \in Nat /\ Len(entries) = Len(asked)
  <2>1. asked \in Seq(Accepted)
    BY DEF Recorded
  <2>2. Len(asked) \in Nat
    BY <2>1
  <2>3. QED
    BY <2>1, <2>2 DEF Recorded
<1>3. /\ at \in Position /\ e \in Nat /\ stream \in [size : Nat, items : Seq(AnyItem)]
      /\ stream.size = w[e] /\ stream.items = <<>>
  BY <1>1 DEF Progress, Position
<1>4. e + 1 \in 1..Len(asked) /\ e + 1 \in 0..Len(asked) /\ e \in 0..Len(asked)
  BY <1>1, <1>2, <1>3
<1>5. entries[e + 1].size = SerializedSize(asked[e + 1])
  BY <1>4 DEF Recorded
<1>6. w[e + 1] = w[e] + SerializedSize(asked[e + 1])
  <2>1. w[e + 1] = w[(e + 1) - 1] + SerializedSize(asked[e + 1])
    BY <1>4 DEF Layout
  <2>2. (e + 1) - 1 = e
    BY <1>3
  <2>3. QED
    BY <2>1, <2>2
<1>7. w[e + 1] \in Nat
  BY <1>4, LayoutType
<1>8. stream' = [size |-> w[e + 1], items |-> <<>>]
  BY <1>1, <1>3, <1>5, <1>6
<1>9. at' \in Position /\ at'.entry = e + 1
  BY <1>1, <1>3 DEF Position
<1>10. at'.entry <= Len(asked)
  BY <1>4, <1>9
<1>11. QED
  BY <1>1, <1>7, <1>8, <1>9, <1>10 DEF Progress, Walking

\* The header is written in front of the first command.
LEMMA SizedProgress ==
  ASSUME NEW off, NEW w, NEW d, Layout(off, w, d), Recorded, Progress(off, w), Sized
  PROVE  Progress(off, w)'
<1>1. /\ phase = "size" /\ phase' = "copy" /\ asked' = asked /\ at.entry = Len(entries)
      /\ stream' = [stream EXCEPT !.items = <<Item("header", Len(entries))>>]
      /\ at' = StartOfStream(stream)
  BY DEF Sized, hostVars
<1>2. Len(asked) \in Nat /\ Len(entries) = Len(asked)
  <2>1. asked \in Seq(Accepted)
    BY DEF Recorded
  <2>2. Len(asked) \in Nat
    BY <2>1
  <2>3. QED
    BY <2>2 DEF Recorded
<1>3. stream \in [size : Nat, items : Seq(AnyItem)] /\ stream.size = w[Len(asked)]
  BY <1>1, <1>2 DEF Progress
<1>4. Item("header", Len(asked)) \in AnyItem
  BY <1>2 DEF AnyItem
<1>5. off[0] = 1 /\ w[0] = 4
  BY ItemSizes DEF Layout
<1>6. stream' = [size |-> w[Len(asked)], items |-> <<Item("header", Len(asked))>>]
  BY <1>1, <1>2, <1>3
<1>7. Written(off, 0)'
  <2>1. /\ stream'.items \in Seq(AnyItem) /\ Len(stream'.items) = 1
        /\ stream'.items[1] = Item("header", Len(asked))
    BY <1>4, <1>6
  <2>2. QED
    BY <2>1, <1>1, <1>5 DEF Written
<1>8. /\ at'.left = w[Len(asked)] - w[0] /\ at'.pos = off[0] /\ at'.entry = 0
      /\ at' \in Position
  BY <1>1, <1>3, <1>5, ItemSizes DEF StartOfStream, Position
<1>9. stream' \in [size : Nat, items : Seq(AnyItem)] /\ stream'.size = w[Len(asked)]
  BY <1>3, <1>4, <1>6
<1>10. QED
  BY <1>1, <1>2, <1>7, <1>8, <1>9 DEF Progress, Walking

\* What two sequences joined hold, and where.
LEMMA Joined ==
  ASSUME NEW S, NEW p \in Seq(S), NEW q \in Seq(S)
  PROVE  /\ p \o q \in Seq(S) /\ Len(p \o q) = Len(p) + Len(q)
         /\ \A i \in 1..Len(p) : (p \o q)[i] = p[i]
         /\ \A j \in 1..Len(q) : (p \o q)[Len(p) + j] = q[j]
<1>1. Len(p) \in Nat /\ Len(q) \in Nat
  OBVIOUS
<1>2. p \o q \in Seq(S) /\ Len(p \o q) = Len(p) + Len(q)
  OBVIOUS
<1>3. \A i \in 1..Len(p) : (p \o q)[i] = p[i]
  BY <1>1
<1>4. ASSUME NEW j \in 1..Len(q) PROVE (p \o q)[Len(p) + j] = q[j]
  <2>1. Len(p) + j \in 1..(Len(p) + Len(q)) /\ Len(p) + j > Len(p) /\ (Len(p) + j) - Len(p) = j
    BY <1>1
  <2>2. QED
    BY <2>1, <1>1
<1>5. QED
  BY <1>2, <1>3, <1>4

\* A copied command is where the layout puts it; the ones before it stay where they are.
LEMMA CopyEntryProgress ==
  ASSUME NEW off, NEW w, NEW d, Layout(off, w, d), Recorded, Progress(off, w), CopyEntry
  PROVE  Progress(off, w)'
<1> DEFINE e == at.entry
           n == Len(asked)
           s == Serialized(asked[e + 1])
           old == stream.items
<1>1. /\ phase = "copy" /\ phase' = "copy" /\ asked' = asked /\ e < Len(entries)
      /\ stream' = [stream EXCEPT !.items = @ \o entries[e + 1].items]
      /\ at' = [left |-> at.left - entries[e + 1].size, pos |-> at.pos + Len(entries[e + 1].items),
                entry |-> e + 1]
  BY DEF CopyEntry, hostVars
<1>2. asked \in Seq(Accepted) /\ n \in Nat /\ Len(entries) = n
  <2>1. asked \in Seq(Accepted)
    BY DEF Recorded
  <2>2. n \in Nat
    BY <2>1
  <2>3. QED
    BY <2>1, <2>2 DEF Recorded
<1>3. /\ at \in Position /\ e \in Nat /\ stream \in [size : Nat, items : Seq(AnyItem)]
      /\ stream.size = w[n] /\ at.left = w[n] - w[e] /\ at.pos = off[e] /\ Written(off, e)
  BY <1>1 DEF Progress, Position
<1>4. e + 1 \in 1..n /\ e + 1 \in 0..n /\ e \in 0..n /\ n \in 0..n
  BY <1>1, <1>2, <1>3
<1>5. entries[e + 1].size = SerializedSize(asked[e + 1]) /\ entries[e + 1].items = s
  BY <1>4 DEF Recorded
<1>6. asked[e + 1] \in Accepted
  BY <1>2, <1>4
<1>7. s \in Seq(AnyItem) /\ Len(s) \in Nat /\ SerializedSize(asked[e + 1]) \in Nat
  <2>1. s \in Seq(AnyItem)
    BY <1>6, SerializedShape
  <2>2. SerializedSize(asked[e + 1]) \in Nat
    BY <1>6, SizeType
  <2> HIDE DEF s
  <2>3. QED
    BY <2>1, <2>2
<1>8. w[e + 1] = w[e] + SerializedSize(asked[e + 1]) /\ off[e + 1] = off[e] + Len(s)
  <2>1. /\ w[e + 1] = w[(e + 1) - 1] + SerializedSize(asked[e + 1])
        /\ off[e + 1] = off[(e + 1) - 1] + Len(s)
    BY <1>4 DEF Layout
  <2>2. (e + 1) - 1 = e
    BY <1>3
  <2>3. QED
    BY <2>1, <2>2
<1>9. /\ w[e] \in Nat /\ w[e + 1] \in Nat /\ w[n] \in Nat /\ off[e] \in Nat /\ off[e + 1] \in Nat
  BY <1>4, LayoutType
<1>10. /\ old \in Seq(AnyItem) /\ Len(old) = off[e] /\ old[1] = Item("header", n)
       /\ \A k \in 1..e : \A j \in 1..Len(Serialized(asked[k])) : old[off[k - 1] + j] = Serialized(asked[k])[j]
  BY <1>3 DEF Written
<1>11. stream' = [size |-> w[n], items |-> old \o s]
  BY <1>1, <1>3, <1>5
<1>12. /\ old \o s \in Seq(AnyItem) /\ Len(old \o s) = off[e + 1]
       /\ \A i \in 1..off[e] : (old \o s)[i] = old[i]
       /\ \A j \in 1..Len(s) : (old \o s)[off[e] + j] = s[j]
  <2> HIDE DEF old, s, e, n
  <2>0. old \in Seq(AnyItem) /\ s \in Seq(AnyItem)
    BY <1>7, <1>10
  <2>1. /\ old \o s \in Seq(AnyItem) /\ Len(old \o s) = Len(old) + Len(s)
        /\ \A i \in 1..Len(old) : (old \o s)[i] = old[i]
        /\ \A j \in 1..Len(s) : (old \o s)[Len(old) + j] = s[j]
    BY <2>0, Joined
  <2>2. QED
    BY <2>1, <1>8, <1>10
<1>13. \A k \in 1..(e + 1) : \A j \in 1..Len(Serialized(asked[k])) :
         (old \o s)[off[k - 1] + j] = Serialized(asked[k])[j]
  <2> SUFFICES ASSUME NEW k \in 1..(e + 1), NEW j \in 1..Len(Serialized(asked[k]))
               PROVE  (old \o s)[off[k - 1] + j] = Serialized(asked[k])[j]
    OBVIOUS
  <2>1. CASE k = e + 1
    <3>1. k - 1 = e
      BY <2>1, <1>3
    <3>2. QED
      BY <3>1, <2>1, <1>12
  <2>2. CASE k \in 1..e
    <3>1. k \in 1..n /\ k \in 0..n /\ k - 1 \in 0..n /\ k <= e
      BY <2>2, <1>4
    <3>2. off[k] = off[k - 1] + Len(Serialized(asked[k]))
      BY <3>1 DEF Layout
    <3>3. off[k] \in Nat /\ off[k - 1] \in Nat
      BY <3>1, LayoutType
    <3>4. off[k] <= off[e]
      BY <3>1, <1>4 DEF Layout
    <3>5. asked[k] \in Accepted
      BY <3>1, <1>2
    <3>6. Len(Serialized(asked[k])) \in Nat
      BY <3>5, SerializedShape
    <3>7. j \in Nat /\ 1 <= j /\ j <= Len(Serialized(asked[k]))
      BY <3>6
    <3>8. off[k - 1] + j <= off[k]
      BY <3>2, <3>3, <3>6, <3>7
    <3>9. off[k - 1] + j \in 1..off[e]
      <4>1. PICK lo, hi, end : lo = off[k - 1] /\ hi = off[k] /\ end = off[e]
        OBVIOUS
      <4>2. /\ lo \in Nat /\ hi \in Nat /\ end \in Nat /\ hi <= end
            /\ j \in Nat /\ 1 <= j /\ lo + j <= hi
        BY <4>1, <3>3, <3>4, <3>7, <3>8, <1>9
      <4>3. lo + j \in 1..end
        BY <4>2
      <4>4. QED
        BY <4>1, <4>3
    <3>10. (old \o s)[off[k - 1] + j] = old[off[k - 1] + j]
      BY <3>9, <1>12
    <3>11. old[off[k - 1] + j] = Serialized(asked[k])[j]
      <4> HIDE DEF old
      <4> QED BY <2>2, <1>10
    <3> HIDE DEF old, s
    <3>12. QED
      BY <3>10, <3>11
  <2>3. k = e + 1 \/ k \in 1..e
    BY <1>3
  <2> HIDE DEF old, s
  <2>4. QED
    BY <2>1, <2>2, <2>3
<1>14. (old \o s)[1] = Item("header", n)
  <2>1. off[0] = 1 /\ off[0] <= off[e]
    <3>1. 0 \in 0..n /\ 0 <= e
      BY <1>2, <1>3
    <3>2. QED
      BY <3>1, <1>4 DEF Layout
  <2>2. 1 \in 1..off[e]
    BY <2>1, <1>9
  <2>3. QED
    BY <2>2, <1>10, <1>12
<1>15. Written(off, at.entry)'
  <2>1. at'.entry = e + 1 /\ asked' = asked
    BY <1>1
  <2>2. stream'.items = old \o s
    BY <1>11
  <2> DEFINE new == old \o s
  <2> HIDE DEF old, s, new
  <2>3. /\ new \in Seq(AnyItem) /\ Len(new) = off[e + 1] /\ new[1] = Item("header", n)
        /\ \A k \in 1..(e + 1) : \A j \in 1..Len(Serialized(asked[k])) :
              new[off[k - 1] + j] = Serialized(asked[k])[j]
    BY <1>12, <1>13, <1>14 DEF new
  <2>4. QED
    BY <2>1, <2>2, <2>3 DEF Written, new
<1>16. at' = [left |-> w[n] - w[e + 1], pos |-> off[e + 1], entry |-> e + 1] /\ at' \in Position
  <2>1. at' = [left |-> (w[n] - w[e]) - SerializedSize(asked[e + 1]), pos |-> off[e] + Len(s), entry |-> e + 1]
    BY <1>1, <1>3, <1>5
  <2>2. (w[n] - w[e]) - SerializedSize(asked[e + 1]) = w[n] - w[e + 1]
    <3>1. PICK x, y, z, q : x = w[n] /\ y = w[e] /\ z = w[e + 1] /\ q = SerializedSize(asked[e + 1])
      OBVIOUS
    <3>2. x \in Nat /\ y \in Nat /\ z \in Nat /\ q \in Nat /\ z = y + q
      BY <3>1, <1>7, <1>8, <1>9
    <3>3. (x - y) - q = x - z
      BY <3>2
    <3>4. QED
      BY <3>1, <3>3
  <2>3. w[n] - w[e + 1] \in Int /\ e + 1 \in Nat
    BY <1>9, <1>3
  <2>4. at' = [left |-> w[n] - w[e + 1], pos |-> off[e + 1], entry |-> e + 1]
    BY <2>1, <2>2, <1>8
  <2>5. QED
    BY <2>3, <2>4, <1>9 DEF Position
<1>17. stream' \in [size : Nat, items : Seq(AnyItem)]
  <2> HIDE DEF old, s
  <2> QED BY <1>11, <1>12, <1>9
<1>18. QED
  BY <1>1, <1>4, <1>11, <1>15, <1>16, <1>17 DEF Progress, Walking
------------------------------------------------------------------------------
(* References and the bytes they stand for.                                 *)

Window(fd, first, len) == [i \in 1..len |-> <<fd, first + i - 1>>]

\* A part of a window is a window.
LEMMA PartOfWindow ==
  ASSUME NEW fd, NEW first \in Nat, NEW size \in Nat, NEW off \in Nat, NEW len \in Nat, InRange(off, len, size)
  PROVE  /\ RestIfWhole(off, len, size) \in Nat
         /\ off + RestIfWhole(off, len, size) <= size
         /\ Part(Window(fd, first, size), off, len) = Window(fd, first + off, RestIfWhole(off, len, size))
<1> DEFINE rest == RestIfWhole(off, len, size)
           W == Window(fd, first, size)
<1>1. off <= size /\ (len = Whole \/ len <= size - off)
  BY DEF InRange
<1>2. rest \in Nat /\ off + rest <= size
  BY <1>1 DEF RestIfWhole
<1>3. W \in Seq({fd} \X Nat) /\ Len(W) = size
  <2>1. \A i \in 1..size : <<fd, first + i - 1>> \in {fd} \X Nat
    OBVIOUS
  <2>2. QED
    BY <2>1 DEF Window
<1>4. Part(W, off, len) = SubSeq(W, off + 1, off + rest)
  <2>1. (IF len = Whole THEN Len(W) ELSE off + len) = off + rest
    BY <1>1, <1>3 DEF RestIfWhole
  <2>2. QED
    BY <2>1 DEF Part
<1>5. /\ SubSeq(W, off + 1, off + rest) = [i \in 1..rest |-> W[off + i]]
  <2> HIDE DEF W, rest
  <2>1. SubSeq(W, off + 1, off + rest) = [i \in 1..((off + rest) - (off + 1) + 1) |-> W[i + (off + 1) - 1]]
    BY <1>2, <1>3
  <2>2. (off + rest) - (off + 1) + 1 = rest
    BY <1>2
  <2>3. \A i \in 1..rest : i + (off + 1) - 1 = off + i
    BY <1>2
  <2>4. QED
    BY <2>1, <2>2, <2>3
<1>6. \A i \in 1..rest : W[off + i] = <<fd, (first + off) + i - 1>>
  <2> SUFFICES ASSUME NEW i \in 1..rest PROVE W[off + i] = <<fd, (first + off) + i - 1>>
    OBVIOUS
  <2> HIDE DEF rest
  <2>1. off + i \in 1..size
    BY <1>2
  <2>2. W[off + i] = <<fd, first + (off + i) - 1>>
    BY <2>1 DEF Window
  <2>3. first + (off + i) - 1 = (first + off) + i - 1
    BY <1>2
  <2>4. QED
    BY <2>2, <2>3
<1>7. Window(fd, first + off, rest) = [i \in 1..rest |-> <<fd, (first + off) + i - 1>>]
  BY DEF Window
<1> HIDE DEF rest, W
<1>8. QED
  BY <1>2, <1>4, <1>5, <1>6, <1>7 DEF rest, W

\* A valid direct reference is normalized to the bytes it stands for, inside its allocation.
LEMMA DirectWindow ==
  ASSUME NEW ref \in Reference, IsDirect(ref), RefIsValid(ref)
  PROVE  /\ NormalizedRef(ref).fd \in DOMAIN AllocSize /\ NormalizedRef(ref).fd # -1
         /\ NormalizedRef(ref).off \in Nat /\ NormalizedRef(ref).len \in Nat
         /\ NormalizedRef(ref).off + NormalizedRef(ref).len <= AllocSize[NormalizedRef(ref).fd]
         /\ DirectBytes(ref) = Window(NormalizedRef(ref).fd, NormalizedRef(ref).off, NormalizedRef(ref).len)
<1> DEFINE b == Buffers[ref.buf]
<1>1. /\ ref.buf \in DOMAIN Buffers /\ ref.off \in Nat /\ ref.len \in Nat
  BY DEF Reference, IsDirect
<1>2. /\ b.fd \in DOMAIN AllocSize /\ b.base \in Nat /\ b.len \in Nat /\ b.base + b.len <= AllocSize[b.fd]
  BY <1>1, BuffersAssumption
<1>3. InRange(ref.off, ref.len, b.len)
  BY DEF RefIsValid
<1> DEFINE rest == RestIfWhole(ref.off, ref.len, b.len)
<1>4. NormalizedRef(ref).fd = b.fd /\ NormalizedRef(ref).off = b.base + ref.off /\ NormalizedRef(ref).len = rest
  BY DEF NormalizedRef
<1>5. BytesOf(b) = Window(b.fd, b.base, b.len)
  BY DEF BytesOf, Window
<1>6. /\ rest \in Nat /\ ref.off + rest <= b.len
      /\ Part(Window(b.fd, b.base, b.len), ref.off, ref.len) = Window(b.fd, b.base + ref.off, rest)
  <2> HIDE DEF b
  <2> QED BY <1>1, <1>2, <1>3, PartOfWindow
<1>7. DirectBytes(ref) = Window(b.fd, b.base + ref.off, rest)
  BY <1>5, <1>6 DEF DirectBytes
<1>8. b.fd # -1 /\ AllocSize[b.fd] \in Nat
  BY <1>2, SizesAssumption
<1> HIDE DEF rest, b
<1>9. (b.base + ref.off) + rest <= AllocSize[b.fd]
  BY <1>1, <1>2, <1>6, <1>8
<1>10. QED
  BY <1>1, <1>2, <1>4, <1>6, <1>7, <1>8, <1>9

RefCovers(r, f, x) == r.fd = f /\ r.off <= x /\ x < r.off + r.len

\* The same, for the references of a command: what the DSP sees of a direct one.
LEMMA DirectRef ==
  ASSUME NEW c \in Accepted, NEW i \in 1..Len(RefsOf(c))
  PROVE  /\ i \in Direct(c) <=> IsDirect(RefsOf(c)[i])
         /\ i \in Direct(c) =>
              /\ RefList(c)[i].fd \in DOMAIN AllocSize
              /\ RefList(c)[i].off \in Nat /\ RefList(c)[i].len \in Nat
              /\ \A f, x : <<f, x>> \in Range(DirectBytes(RefsOf(c)[i])) <=>
                             x \in Int /\ RefCovers(RefList(c)[i], f, x)
              /\ \A y \in Range(DirectBytes(RefsOf(c)[i])) : \E x \in Int : y = <<RefList(c)[i].fd, x>>
<1> DEFINE ref == RefsOf(c)[i]
           r == RefList(c)[i]
<1>1. ref \in Reference /\ RefIsValid(ref)
  <2>1. RefsOf(c) \in Seq(Reference) /\ \A k \in DOMAIN RefsOf(c) : RefIsValid(RefsOf(c)[k])
    BY AcceptedKind
  <2>2. i \in DOMAIN RefsOf(c)
    BY <2>1
  <2>3. QED
    BY <2>1, <2>2
<1>2. r = NormalizedRef(ref)
  BY DEF RefList
<1>3. i \in Direct(c) <=> r.fd # -1
  BY DEF Direct
<1>4. CASE ~ IsDirect(ref)
  <2>1. r.fd = -1
    BY <1>2, <1>4 DEF NormalizedRef
  <2>2. QED
    BY <2>1, <1>3, <1>4
<1>5. CASE IsDirect(ref)
  <2>1. /\ r.fd \in DOMAIN AllocSize /\ r.fd # -1 /\ r.off \in Nat /\ r.len \in Nat
        /\ DirectBytes(ref) = Window(r.fd, r.off, r.len)
    BY <1>1, <1>2, <1>5, DirectWindow
  <2> DEFINE R == Range(DirectBytes(ref))
  <2>2. R = {<<r.fd, r.off + k - 1>> : k \in 1..r.len}
    BY <2>1 DEF Range, Window
  <2> HIDE DEF r, R, ref
  <2>3. \A f, x : <<f, x>> \in R <=> x \in Int /\ RefCovers(r, f, x)
    <3> SUFFICES ASSUME NEW f, NEW x PROVE <<f, x>> \in R <=> x \in Int /\ RefCovers(r, f, x)
      OBVIOUS
    <3>1. <<f, x>> \in R => x \in Int /\ RefCovers(r, f, x)
      <4> SUFFICES ASSUME <<f, x>> \in R PROVE x \in Int /\ RefCovers(r, f, x)
        OBVIOUS
      <4>1. PICK k \in 1..r.len : <<f, x>> = <<r.fd, r.off + k - 1>>
        BY <2>2
      <4>2. f = r.fd /\ x = r.off + k - 1
        BY <4>1
      <4>3. QED
        BY <4>2, <2>1 DEF RefCovers
    <3>2. ASSUME x \in Int, RefCovers(r, f, x) PROVE <<f, x>> \in R
      <4>1. r.fd = f /\ r.off <= x /\ x < r.off + r.len
        BY <3>2 DEF RefCovers
      <4>2. x - r.off + 1 \in 1..r.len /\ r.off + (x - r.off + 1) - 1 = x
        BY <3>2, <4>1, <2>1
      <4>3. QED
        BY <4>1, <4>2, <2>2
    <3>3. QED
      BY <3>1, <3>2
  <2>4. \A y \in R : \E x \in Int : y = <<r.fd, x>>
    BY <2>1, <2>2
  <2>5. QED
    BY <2>1, <2>3, <2>4, <1>3, <1>5 DEF r, R, ref
<1>6. QED
  BY <1>4, <1>5
------------------------------------------------------------------------------
(* Merging: the ranges collected so far are apart, the new one is apart from *)
(* those it was compared with, and together they cover what was seen.       *)

Ranges == [fd : DOMAIN AllocSize, begin : Nat, end : Nat]
NewRanges == [fd : DOMAIN AllocSize, begin : Nat, end : Nat, idx : Nat]
Covers(r, f, x) == r.fd = f /\ r.begin <= x /\ x < r.end
AreApart(r, s) == r.fd # s.fd \/ r.end < s.begin \/ s.end < r.begin

Ranged ==
  /\ bufs \in Seq(Ranges)
  /\ \A j \in 1..Len(bufs) : bufs[j].begin <= bufs[j].end
  /\ \A i, j \in 1..Len(bufs) : i # j => AreApart(bufs[i], bufs[j])
  /\ merge # None =>
       /\ merge \in NewRanges /\ merge.begin <= merge.end
       /\ merge.idx \in 1..(Len(bufs) + 1)
       /\ \A j \in 1..(merge.idx - 1) : AreApart(bufs[j], merge)

Covered(f, x) ==
  \/ \E j \in 1..Len(bufs) : Covers(bufs[j], f, x)
  \/ merge # None /\ Covers(merge, f, x)
InHand == IF merge = None THEN 0 ELSE 1

\* A range is not None.
LEMMA RangeIsSomething ==
  ASSUME NEW m \in NewRanges
  PROVE  m # None
<1>1. "fd" \in DOMAIN m /\ "fd" \notin DOMAIN None
  BY DEF NewRanges, None
<1>2. QED
  BY <1>1

\* What is left when the last range takes the place of the i-th.
LEMMA Removed ==
  ASSUME bufs \in Seq(Ranges), NEW i \in 1..Len(bufs)
  PROVE  /\ WithoutMerged(i) \in Seq(Ranges) /\ Len(WithoutMerged(i)) = Len(bufs) - 1
         /\ \A j \in 1..(Len(bufs) - 1) : WithoutMerged(i)[j] = IF j = i THEN bufs[Len(bufs)] ELSE bufs[j]
<1> DEFINE n == Len(bufs)
           s == [bufs EXCEPT ![i] = bufs[n]]
<1>1. n \in Nat /\ n \in 1..n /\ \A j \in 1..n : bufs[j] \in Ranges
  <2>1. n \in Nat
    OBVIOUS
  <2>2. n \in 1..n
    BY <2>1
  <2>3. QED
    BY <2>1, <2>2
<1>2. \A j \in 1..n : s[j] = IF j = i THEN bufs[n] ELSE bufs[j]
  OBVIOUS
<1> HIDE DEF s
<1>3. \A j \in 1..(n - 1) : s[j] \in Ranges
  BY <1>1, <1>2
<1>4. /\ SubSeq(s, 1, n - 1) \in Seq(Ranges)
      /\ Len(SubSeq(s, 1, n - 1)) = IF 1 <= n - 1 THEN (n - 1) - 1 + 1 ELSE 0
      /\ \A j \in 1..((n - 1) - 1 + 1) : SubSeq(s, 1, n - 1)[j] = s[1 + j - 1]
  <2>1. n - 1 \in Int /\ 1 \in Int
    BY <1>1
  <2>2. QED
    BY <2>1, <1>3, SubSeqProperties
<1>5. Len(SubSeq(s, 1, n - 1)) = n - 1
  <2>1. n \in Nat /\ 1 <= n
    BY <1>1
  <2>2. Len(SubSeq(s, 1, n - 1)) = IF 1 <= n - 1 THEN (n - 1) - 1 + 1 ELSE 0
    BY <1>4
  <2> HIDE DEF n
  <2>3. QED
    BY <2>1, <2>2
<1>6. \A j \in 1..(n - 1) : SubSeq(s, 1, n - 1)[j] = s[j]
  <2>1. (n - 1) - 1 + 1 = n - 1 /\ \A j \in 1..(n - 1) : 1 + j - 1 = j
    BY <1>1
  <2>2. QED
    BY <2>1, <1>4
<1>7. \A j \in 1..(n - 1) : j \in 1..n
  BY <1>1
<1>8. WithoutMerged(i) = SubSeq(s, 1, n - 1)
  BY DEF WithoutMerged, s
<1>9. QED
  BY <1>2, <1>4, <1>5, <1>6, <1>7, <1>8

\* The hull of two ranges that touch covers what they cover, and is apart from every
\* range that is apart from both.
LEMMA Hull ==
  ASSUME NEW m \in Ranges, NEW b \in Ranges, m.begin <= m.end, b.begin <= b.end,
         ~ AreApart(b, m), NEW h,
         h.fd = m.fd, h.begin = (IF b.begin < m.begin THEN b.begin ELSE m.begin),
         h.end = (IF b.end > m.end THEN b.end ELSE m.end)
  PROVE  /\ h.fd \in DOMAIN AllocSize /\ h.begin \in Nat /\ h.end \in Nat /\ h.begin <= h.end
         /\ \A f, x : x \in Int => (Covers(h, f, x) <=> Covers(m, f, x) \/ Covers(b, f, x))
         /\ \A r \in Ranges : r.begin <= r.end /\ AreApart(r, m) /\ AreApart(r, b) => AreApart(r, h)
<1>1. /\ m.fd \in DOMAIN AllocSize /\ m.begin \in Nat /\ m.end \in Nat
      /\ b.begin \in Nat /\ b.end \in Nat
  BY DEF Ranges
<1>2. b.fd = m.fd /\ ~ (b.end < m.begin) /\ ~ (m.end < b.begin)
  BY DEF AreApart
<1>3. h.begin \in Nat /\ h.end \in Nat /\ h.begin <= h.end
  BY <1>1
<1>4. ASSUME NEW f, NEW x \in Int
      PROVE  Covers(h, f, x) <=> Covers(m, f, x) \/ Covers(b, f, x)
  BY <1>1, <1>2 DEF Covers
<1>5. ASSUME NEW r \in Ranges, r.begin <= r.end, AreApart(r, m), AreApart(r, b)
      PROVE  AreApart(r, h)
  <2>1. r.begin \in Nat /\ r.end \in Nat
    BY DEF Ranges
  <2>2. CASE r.fd # m.fd
    BY <2>2 DEF AreApart
  <2>3. CASE r.fd = m.fd
    <3>1. (r.end < m.begin \/ m.end < r.begin) /\ (r.end < b.begin \/ b.end < r.begin)
      BY <2>3, <1>2, <1>5 DEF AreApart
    <3>2. r.end < h.begin \/ h.end < r.begin
      BY <3>1, <2>1, <1>1, <1>2, <1>5
    <3>3. QED
      BY <3>2 DEF AreApart
  <2>4. QED
    BY <2>2, <2>3
<1>6. QED
  BY <1>1, <1>3, <1>4, <1>5

\* A comparison moves on to the next range or absorbs this one; either way the ranges and
\* the new one cover what they covered.
LEMMA MergeStepRanged ==
  ASSUME Ranged, MergeStep
  PROVE  /\ Ranged' /\ merge' # None
         /\ Len(bufs') <= Len(bufs)
         /\ \A f, x : x \in Int => (Covered(f, x)' <=> Covered(f, x))
<1> DEFINE n == Len(bufs)
           i == merge.idx
           b == bufs[i]
<1>1. /\ bufs \in Seq(Ranges) /\ n \in Nat
      /\ merge # None /\ merge \in NewRanges /\ merge.begin <= merge.end /\ i \in 1..n
      /\ \A j \in 1..n : bufs[j] \in Ranges /\ bufs[j].begin <= bufs[j].end
      /\ \A k, j \in 1..n : k # j => AreApart(bufs[k], bufs[j])
      /\ \A j \in 1..(i - 1) : AreApart(bufs[j], merge)
  <2>1. bufs \in Seq(Ranges)
    BY DEF Ranged
  <2>2. n \in Nat /\ \A j \in 1..n : bufs[j] \in Ranges
    BY <2>1
  <2>3. merge # None /\ i <= n
    BY DEF MergeStep
  <2>4. i \in 1..n
    BY <2>2, <2>3 DEF Ranged
  <2>5. QED
    BY <2>1, <2>2, <2>3, <2>4 DEF Ranged
<1>2. /\ merge.fd \in DOMAIN AllocSize /\ merge.begin \in Nat /\ merge.end \in Nat
      /\ merge = [fd |-> merge.fd, begin |-> merge.begin, end |-> merge.end, idx |-> i]
  BY <1>1 DEF NewRanges
<1>3. b \in Ranges /\ b.begin <= b.end /\ b.begin \in Nat /\ b.end \in Nat
  <2>1. b \in Ranges /\ b.begin <= b.end
    BY <1>1
  <2>2. QED
    BY <2>1 DEF Ranges
<1>4. CASE Apart(b)
  <2>1. merge' = [merge EXCEPT !.idx = @ + 1] /\ bufs' = bufs
    BY <1>4 DEF MergeStep
  <2>2. /\ merge'.fd = merge.fd /\ merge'.begin = merge.begin /\ merge'.end = merge.end /\ merge'.idx = i + 1
        /\ merge' \in NewRanges
    BY <2>1, <1>1 DEF NewRanges
  <2>3. merge' # None
    BY <2>2, RangeIsSomething
  <2>4. AreApart(b, merge)
    BY <1>4, <1>2, <1>3 DEF Apart, AreApart
  <2>5. \A j \in 1..((i + 1) - 1) : AreApart(bufs[j], merge')
    <3> SUFFICES ASSUME NEW j \in 1..((i + 1) - 1) PROVE AreApart(bufs[j], merge')
      OBVIOUS
    <3>1. j = i \/ j \in 1..(i - 1)
      BY <1>1
    <3>2. AreApart(bufs[j], merge)
      BY <3>1, <2>4, <1>1
    <3>3. QED
      BY <3>2, <2>2 DEF AreApart
  <2>6. i + 1 \in 1..(n + 1)
    BY <1>1
  <2>7. Ranged'
    BY <2>1, <2>2, <2>5, <2>6, <1>1 DEF Ranged
  <2>8. \A f, x : Covered(f, x)' <=> Covered(f, x)
    BY <2>1, <2>2, <2>3, <1>1 DEF Covered, Covers
  <2>9. QED
    BY <2>1, <2>3, <2>7, <2>8, <1>1
<1>5. CASE ~ Apart(b)
  <2>1. /\ merge' = [merge EXCEPT !.begin = IF b.begin < @ THEN b.begin ELSE @,
                                  !.end = IF b.end > @ THEN b.end ELSE @,
                                  !.idx = i]
        /\ bufs' = WithoutMerged(i)
    BY <1>5 DEF MergeStep, LookAtNext
  <2>2. /\ merge'.fd = merge.fd /\ merge'.idx = i
        /\ merge'.begin = IF b.begin < merge.begin THEN b.begin ELSE merge.begin
        /\ merge'.end = IF b.end > merge.end THEN b.end ELSE merge.end
    BY <2>1, <1>1 DEF NewRanges
  <2>3. ~ AreApart(b, merge)
    BY <1>5, <1>2, <1>3 DEF Apart, AreApart
  <2> DEFINE m == [fd |-> merge.fd, begin |-> merge.begin, end |-> merge.end]
  <2>4. /\ m \in Ranges /\ m.fd = merge.fd /\ m.begin = merge.begin /\ m.end = merge.end
    BY <1>2 DEF Ranges
  <2>5. ~ AreApart(b, m)
    BY <2>3, <2>4 DEF AreApart
  <2>6. PICK h : h = merge'
    OBVIOUS
  <2>7. /\ h.fd \in DOMAIN AllocSize /\ h.begin \in Nat /\ h.end \in Nat /\ h.begin <= h.end
        /\ \A f, x : x \in Int => (Covers(h, f, x) <=> Covers(m, f, x) \/ Covers(b, f, x))
        /\ \A r \in Ranges : r.begin <= r.end /\ AreApart(r, m) /\ AreApart(r, b) => AreApart(r, h)
    <3>1. h.fd = m.fd /\ h.begin = (IF b.begin < m.begin THEN b.begin ELSE m.begin)
          /\ h.end = (IF b.end > m.end THEN b.end ELSE m.end)
      BY <2>2, <2>4, <2>6
    <3>2. m.begin <= m.end
      BY <2>4, <1>1
    <3> HIDE DEF m, b
    <3>3. QED
      BY <3>1, <3>2, <2>4, <2>5, <1>3, Hull
  <2>8. h \in NewRanges
    <3>1. h = [fd |-> merge.fd, begin |-> h.begin, end |-> h.end, idx |-> i]
      BY <2>1, <2>2, <2>6, <1>2
    <3>2. i \in Nat
      BY <1>1
    <3>3. QED
      BY <3>1, <3>2, <2>7, <1>2 DEF NewRanges
  <2>9. h # None
    BY <2>8, RangeIsSomething
  <2>10. /\ bufs' \in Seq(Ranges) /\ Len(bufs') = n - 1
         /\ \A j \in 1..(n - 1) : bufs'[j] = IF j = i THEN bufs[n] ELSE bufs[j]
    BY <2>1, <1>1, Removed
  <2> DEFINE to(j) == IF j = i THEN n ELSE j
  <2>11. /\ \A j \in 1..(n - 1) : to(j) \in 1..n /\ to(j) # i /\ bufs'[j] = bufs[to(j)]
         /\ \A j, k \in 1..(n - 1) : j # k => to(j) # to(k)
         /\ \A k \in 1..n : k # i => \E j \in 1..(n - 1) : to(j) = k
    <3>1. \A j \in 1..(n - 1) : to(j) \in 1..n /\ to(j) # i /\ bufs'[j] = bufs[to(j)]
      <4> SUFFICES ASSUME NEW j \in 1..(n - 1) PROVE to(j) \in 1..n /\ to(j) # i /\ bufs'[j] = bufs[to(j)]
        OBVIOUS
      <4>1. to(j) \in 1..n /\ to(j) # i
        BY <1>1
      <4>2. QED
        BY <4>1, <2>10
    <3>2. \A j, k \in 1..(n - 1) : j # k => to(j) # to(k)
      BY <1>1
    <3>3. \A k \in 1..n : k # i => \E j \in 1..(n - 1) : to(j) = k
      <4> SUFFICES ASSUME NEW k \in 1..n, k # i PROVE \E j \in 1..(n - 1) : to(j) = k
        OBVIOUS
      <4>1. CASE k = n
        <5>1. i \in 1..(n - 1) /\ to(i) = n
          BY <4>1, <1>1
        <5>2. QED
          BY <5>1, <4>1
      <4>2. CASE k # n
        <5>1. k \in 1..(n - 1) /\ to(k) = k
          BY <4>2, <1>1
        <5>2. QED
          BY <5>1
      <4>3. QED
        BY <4>1, <4>2
    <3>4. QED
      BY <3>1, <3>2, <3>3
  <2> HIDE DEF to
  <2>12. \A j \in 1..(n - 1) : bufs'[j].begin <= bufs'[j].end
    BY <2>11, <1>1
  <2>13. \A j, k \in 1..(n - 1) : j # k => AreApart(bufs'[j], bufs'[k])
    <3> SUFFICES ASSUME NEW j \in 1..(n - 1), NEW k \in 1..(n - 1), j # k PROVE AreApart(bufs'[j], bufs'[k])
      OBVIOUS
    <3>1. AreApart(bufs[to(j)], bufs[to(k)])
      BY <2>11, <1>1
    <3>2. bufs'[j] = bufs[to(j)] /\ bufs'[k] = bufs[to(k)]
      BY <2>11
    <3>3. QED
      BY <3>1, <3>2
  <2>14. \A j \in 1..(i - 1) : AreApart(bufs'[j], h)
    <3> SUFFICES ASSUME NEW j \in 1..(i - 1) PROVE AreApart(bufs'[j], h)
      OBVIOUS
    <3>1. j \in 1..n /\ j \in 1..(n - 1) /\ j # i
      BY <1>1
    <3>2. bufs'[j] = bufs[j]
      BY <3>1, <2>10
    <3>3. AreApart(bufs[j], merge) /\ AreApart(bufs[j], b)
      BY <3>1, <1>1
    <3>4. AreApart(bufs[j], m)
      BY <3>3, <2>4 DEF AreApart
    <3>5. bufs[j] \in Ranges /\ bufs[j].begin <= bufs[j].end
      BY <3>1, <1>1
    <3> HIDE DEF m, b
    <3>6. AreApart(bufs[j], h)
      BY <3>3, <3>4, <3>5, <2>7
    <3>7. QED
      BY <3>2, <3>6
  <2>15. i \in 1..((n - 1) + 1)
    BY <1>1
  <2>16. Ranged'
    <3>1. merge' \in NewRanges /\ merge'.begin <= merge'.end /\ merge'.idx = i
          /\ \A j \in 1..(i - 1) : AreApart(bufs'[j], merge')
      BY <2>2, <2>6, <2>7, <2>8, <2>14
    <3>2. QED
      BY <3>1, <2>10, <2>12, <2>13, <2>15 DEF Ranged
  <2>17. ASSUME NEW f, NEW x \in Int PROVE Covered(f, x)' <=> Covered(f, x)
    <3>1. Covered(f, x)' <=> (\E j \in 1..(n - 1) : Covers(bufs'[j], f, x)) \/ Covers(h, f, x)
      BY <2>6, <2>9, <2>10 DEF Covered, Covers
    <3>2. Covered(f, x) <=> (\E j \in 1..n : Covers(bufs[j], f, x)) \/ Covers(merge, f, x)
      BY <1>1 DEF Covered
    <3>3. Covers(merge, f, x) <=> Covers(m, f, x)
      BY <2>4 DEF Covers
    <3>4. (\E j \in 1..n : Covers(bufs[j], f, x)) <=>
            Covers(bufs[i], f, x) \/ \E j \in 1..(n - 1) : Covers(bufs'[j], f, x)
      <4>1. ASSUME NEW k \in 1..n, Covers(bufs[k], f, x)
            PROVE  Covers(bufs[i], f, x) \/ \E j \in 1..(n - 1) : Covers(bufs'[j], f, x)
        <5>1. CASE k = i
          BY <5>1, <4>1
        <5>2. CASE k # i
          <6>1. PICK j \in 1..(n - 1) : to(j) = k
            BY <5>2, <2>11
          <6>2. bufs'[j] = bufs[k]
            BY <6>1, <2>11
          <6>3. QED
            BY <6>2, <4>1
        <5>3. QED
          BY <5>1, <5>2
      <4>2. ASSUME NEW j \in 1..(n - 1), Covers(bufs'[j], f, x) PROVE \E k \in 1..n : Covers(bufs[k], f, x)
        <5>1. to(j) \in 1..n /\ bufs'[j] = bufs[to(j)]
          BY <2>11
        <5>2. QED
          BY <5>1, <4>2
      <4>3. QED
        BY <4>1, <4>2, <1>1
    <3>5. Covers(h, f, x) <=> Covers(m, f, x) \/ Covers(bufs[i], f, x)
      BY <2>7
    <3>6. QED
      BY <3>1, <3>2, <3>3, <3>4, <3>5
  <2>18. QED
    BY <2>6, <2>9, <2>10, <2>16, <2>17, <1>1
<1>6. QED
  BY <1>4, <1>5

\* The merged range joins the others when it has been compared with all of them.
LEMMA MergeDoneRanged ==
  ASSUME Ranged, MergeDone
  PROVE  /\ Ranged' /\ merge' = None
         /\ Len(bufs') = Len(bufs) + 1
         /\ \A f, x : Covered(f, x)' <=> Covered(f, x)
<1> DEFINE n == Len(bufs)
           m == [fd |-> merge.fd, begin |-> merge.begin, end |-> merge.end]
<1>1. /\ bufs \in Seq(Ranges) /\ n \in Nat
      /\ merge # None /\ merge \in NewRanges /\ merge.begin <= merge.end
      /\ \A j \in 1..n : bufs[j] \in Ranges /\ bufs[j].begin <= bufs[j].end
      /\ \A k, j \in 1..n : k # j => AreApart(bufs[k], bufs[j])
      /\ \A j \in 1..n : AreApart(bufs[j], merge)
  <2>1. bufs \in Seq(Ranges)
    BY DEF Ranged
  <2>2. n \in Nat /\ \A j \in 1..n : bufs[j] \in Ranges
    BY <2>1
  <2>3. merge # None /\ merge.idx > n
    BY DEF MergeDone
  <2>4. merge.idx \in 1..(n + 1) /\ \A j \in 1..(merge.idx - 1) : AreApart(bufs[j], merge)
    BY <2>3 DEF Ranged
  <2>5. merge.idx - 1 = n
    BY <2>2, <2>3, <2>4
  <2>6. \A j \in 1..n : AreApart(bufs[j], merge)
    BY <2>4, <2>5
  <2>7. QED
    BY <2>1, <2>2, <2>3, <2>6 DEF Ranged
<1>2. m \in Ranges /\ m.fd = merge.fd /\ m.begin = merge.begin /\ m.end = merge.end
  BY <1>1 DEF NewRanges, Ranges
<1>3. bufs' = Append(bufs, m) /\ merge' = None
  BY DEF MergeDone
<1> HIDE DEF m
<1>4. /\ bufs' \in Seq(Ranges) /\ Len(bufs') = n + 1
      /\ bufs'[n + 1] = m /\ \A j \in 1..n : bufs'[j] = bufs[j]
  BY <1>1, <1>2, <1>3
<1>5. \A j \in 1..(n + 1) : bufs'[j].begin <= bufs'[j].end
  <2> SUFFICES ASSUME NEW j \in 1..(n + 1) PROVE bufs'[j].begin <= bufs'[j].end
    OBVIOUS
  <2>1. j = n + 1 \/ j \in 1..n
    BY <1>1
  <2>2. QED
    BY <2>1, <1>1, <1>2, <1>4
<1>6. \A k, j \in 1..(n + 1) : k # j => AreApart(bufs'[k], bufs'[j])
  <2> SUFFICES ASSUME NEW k \in 1..(n + 1), NEW j \in 1..(n + 1), k # j PROVE AreApart(bufs'[k], bufs'[j])
    OBVIOUS
  <2>1. (j = n + 1 \/ j \in 1..n) /\ (k = n + 1 \/ k \in 1..n)
    BY <1>1
  <2>2. \A l \in 1..n : AreApart(bufs[l], m) /\ AreApart(m, bufs[l])
    BY <1>1, <1>2 DEF AreApart
  <2>3. QED
    BY <2>1, <2>2, <1>1, <1>4
<1>7. Ranged'
  BY <1>3, <1>4, <1>5, <1>6 DEF Ranged
<1>8. ASSUME NEW f, NEW x PROVE Covered(f, x)' <=> Covered(f, x)
  <2>1. Covered(f, x)' <=> \E j \in 1..(n + 1) : Covers(bufs'[j], f, x)
    BY <1>3, <1>4 DEF Covered, Covers
  <2>2. Covered(f, x) <=> (\E j \in 1..n : Covers(bufs[j], f, x)) \/ Covers(m, f, x)
    BY <1>1, <1>2 DEF Covered, Covers
  <2>3. \A j \in 1..(n + 1) : j = n + 1 \/ j \in 1..n
    BY <1>1
  <2>4. n + 1 \in 1..(n + 1) /\ \A j \in 1..n : j \in 1..(n + 1)
    BY <1>1
  <2>5. QED
    BY <2>1, <2>2, <2>3, <2>4, <1>4
<1>9. QED
  BY <1>3, <1>4, <1>7, <1>8
------------------------------------------------------------------------------
(* Counting and collecting.                                                 *)

SeenOf(c, s) == {i \in Direct(c) : i <= s}

\* <<f, x>> belongs to a direct reference of the first e commands or to one of the first
\* s references of the next one.
Named(e, s, f, x) ==
  \E k \in 1..Len(asked) : \E i \in Direct(asked[k]) :
    /\ k <= e \/ (k = e + 1 /\ i <= s)
    /\ RefCovers(RefList(asked[k])[i], f, x)

AllCovered(e, s) == \A f, x : x \in Int => (Covered(f, x) <=> Named(e, s, f, x))

CountMatches(d) ==
  /\ phase \in {"record", "size", "copy"} => maxBufs = 0
  /\ phase = "count" => maxBufs = d[at.entry]
  /\ phase \in {"collect", "execute", "done"} => maxBufs = d[Len(asked)]
CollectMatches(d) ==
  phase = "collect" =>
    /\ seen \in Nat
    /\ at.entry < Len(asked) =>
         /\ seen <= Len(RefsOf(asked[at.entry + 1]))
         /\ Len(bufs) + InHand <= d[at.entry] + Cardinality(SeenOf(asked[at.entry + 1], seen))
    /\ at.entry = Len(asked) => seen = 0 /\ Len(bufs) + InHand <= d[at.entry]
    /\ AllCovered(at.entry, seen)
Collects(d) ==
  /\ Ranged
  /\ phase # "collect" => merge = None /\ seen = 0
  /\ phase \in {"record", "size", "copy", "count"} => bufs = <<>>
  /\ CountMatches(d)
  /\ CollectMatches(d)
  /\ phase \in {"execute", "done"} => AllCovered(Len(asked), 0)

\* How the references seen of one command are counted.
LEMMA SeenCount ==
  ASSUME NEW c \in Accepted, NEW s \in Nat
  PROVE  /\ IsFiniteSet(SeenOf(c, s)) /\ Cardinality(SeenOf(c, s)) \in Nat
         /\ Cardinality(SeenOf(c, s)) <= Cardinality(Direct(c))
         /\ Cardinality(SeenOf(c, s + 1)) = Cardinality(SeenOf(c, s)) + (IF s + 1 \in Direct(c) THEN 1 ELSE 0)
         /\ s = Len(RefsOf(c)) => SeenOf(c, s) = Direct(c)
<1>1. IsFiniteSet(Direct(c)) /\ Cardinality(Direct(c)) \in Nat /\ Direct(c) \subseteq 1..Len(RefsOf(c))
  BY DirectCount
<1>2. SeenOf(c, s) \subseteq Direct(c)
  BY DEF SeenOf
<1>3. IsFiniteSet(SeenOf(c, s)) /\ Cardinality(SeenOf(c, s)) <= Cardinality(Direct(c))
  BY <1>1, <1>2, FS_Subset
<1>4. Cardinality(SeenOf(c, s)) \in Nat
  BY <1>3, FS_CardinalityType
<1>5. Direct(c) \subseteq Nat
  <2>1. Len(RefsOf(c)) \in Nat
    BY AcceptedKind
  <2>2. QED
    BY <1>1, <2>1
<1>8. s = Len(RefsOf(c)) => SeenOf(c, s) = Direct(c)
  BY <1>1 DEF SeenOf
<1>9. Cardinality(SeenOf(c, s + 1)) = Cardinality(SeenOf(c, s)) + (IF s + 1 \in Direct(c) THEN 1 ELSE 0)
  <2>1. CASE s + 1 \in Direct(c)
    <3>1. SeenOf(c, s + 1) = SeenOf(c, s) \cup {s + 1} /\ s + 1 \notin SeenOf(c, s)
      BY <1>5, <2>1 DEF SeenOf
    <3>2. Cardinality(SeenOf(c, s + 1)) = Cardinality(SeenOf(c, s)) + 1
      BY <3>1, <1>3, FS_AddElement
    <3>3. QED
      BY <3>2, <2>1
  <2>2. CASE s + 1 \notin Direct(c)
    <3>1. SeenOf(c, s + 1) = SeenOf(c, s)
      BY <1>5, <2>2 DEF SeenOf
    <3>2. QED
      BY <3>1, <1>4, <2>2
  <2>3. QED
    BY <2>1, <2>2
<1>10. QED
  BY <1>3, <1>4, <1>8, <1>9

\* Steps that leave the ranges and the counters alone, and are not in the second walk.
LEMMA CollectsStays ==
  ASSUME NEW d, Collects(d), UNCHANGED <<maxBufs, bufs, seen, merge>>,
         \/ phase \in {"record", "size", "copy"} /\ phase' \in {"record", "size", "copy"}
         \/ /\ phase \in {"execute", "done"} /\ phase' \in {"execute", "done", "error"}
            /\ asked' = asked
         \/ phase = "error" /\ phase' = "error"
         \/ /\ phase' = phase /\ asked' = asked /\ at' = at
  PROVE  Collects(d)'
<1>1. Ranged'
  BY DEF Collects, Ranged
<1>2. phase' # "collect" => merge' = None /\ seen' = 0
  BY DEF Collects
<1>3. phase' \in {"record", "size", "copy", "count"} => bufs' = <<>>
  BY DEF Collects
<1>4. CountMatches(d)'
  BY DEF Collects, CountMatches
<1>5. asked' = asked => \A e, s : AllCovered(e, s)' <=> AllCovered(e, s)
  <2> SUFFICES ASSUME asked' = asked, NEW e, NEW s PROVE AllCovered(e, s)' <=> AllCovered(e, s)
    OBVIOUS
  <2>1. \A f, x : Named(e, s, f, x)' <=> Named(e, s, f, x)
    BY DEF Named
  <2>2. \A f, x : Covered(f, x)' <=> Covered(f, x)
    BY DEF Covered, Covers
  <2>3. QED
    BY <2>1, <2>2 DEF AllCovered
<1>6. CollectMatches(d)'
  <2>1. CASE phase' = "collect"
    <3>1. asked' = asked /\ at' = at /\ phase = "collect"
      BY <2>1
    <3>2. InHand' = InHand
      BY DEF InHand
    <3>3. AllCovered(at.entry, seen)' <=> AllCovered(at.entry, seen)
      <4>1. PICK e, s : e = at.entry /\ s = seen
        OBVIOUS
      <4>2. AllCovered(e, s)' <=> AllCovered(e, s)
        BY <3>1, <1>5
      <4>3. AllCovered(at.entry, seen)' <=> AllCovered(e, s)'
        BY <3>1, <4>1 DEF AllCovered, Named
      <4>4. QED
        BY <4>1, <4>2, <4>3
    <3>4. QED
      BY <3>1, <3>2, <3>3 DEF Collects, CollectMatches
  <2>2. QED
    BY <2>1 DEF CollectMatches
<1>7. phase' \in {"execute", "done"} => AllCovered(Len(asked), 0)'
  <2> SUFFICES ASSUME phase' \in {"execute", "done"} PROVE AllCovered(Len(asked), 0)'
    OBVIOUS
  <2>1. asked' = asked /\ AllCovered(Len(asked), 0)
    BY DEF Collects
  <2>2. PICK e, s : e = Len(asked) /\ s = 0
    OBVIOUS
  <2>3. AllCovered(e, s)'
    BY <2>1, <2>2, <1>5
  <2>4. QED
    BY <2>1, <2>2, <2>3 DEF AllCovered, Named
<1>8. QED
  BY <1>1, <1>2, <1>3, <1>4, <1>6, <1>7 DEF Collects

\* The first walk counts what the layout counts.
LEMMA CountCmdCollects ==
  ASSUME NEW off, NEW w, NEW d, Layout(off, w, d), Recorded, Progress(off, w), Collects(d), CountCmd
  PROVE  Collects(d)'
<1>1. /\ phase = "count" /\ phase' = "count" /\ MoreToRead /\ asked' = asked
      /\ maxBufs' = maxBufs + Cardinality(DirectRefs) /\ at' = AfterCmd
      /\ UNCHANGED <<hostVars, phase, stream, bufs, seen, merge>>
  BY DEF CountCmd, hostVars
<1>2. PICK c : c = asked[at.entry + 1]
  OBVIOUS
<1>3. at.entry < Len(asked) /\ DirectRefs = Direct(c) /\ AfterCmd.entry = at.entry + 1
  BY <1>1, <1>2, ReadsCommand DEF Walking
<1>4. at.entry \in Nat /\ Len(asked) \in Nat
  <2>1. asked \in Seq(Accepted)
    BY DEF Recorded
  <2>2. QED
    BY <2>1 DEF Progress, Position
<1>5. at.entry + 1 \in 1..Len(asked) /\ (at.entry + 1) - 1 = at.entry
  BY <1>3, <1>4
<1>6. d[at.entry + 1] = d[at.entry] + Cardinality(Direct(c))
  BY <1>2, <1>5 DEF Layout
<1>7. maxBufs = d[at.entry]
  BY <1>1 DEF Collects, CountMatches
<1>8. CountMatches(d)'
  BY <1>1, <1>3, <1>6, <1>7 DEF CountMatches
<1>9. Ranged' /\ merge' = None /\ seen' = 0 /\ bufs' = <<>>
  BY <1>1 DEF Collects, Ranged
<1>10. QED
  BY <1>1, <1>8, <1>9 DEF Collects, CollectMatches

\* Nothing is covered, and nothing was seen, before the second walk.
LEMMA NothingNamed ==
  ASSUME Recorded, bufs = <<>>, merge = None
  PROVE  AllCovered(0, 0)
<1>1. \A f, x : ~ Covered(f, x)
  BY DEF Covered
<1>2. ASSUME NEW f, NEW x PROVE ~ Named(0, 0, f, x)
  <2> SUFFICES ASSUME NEW k \in 1..Len(asked), NEW i \in Direct(asked[k]),
                      k <= 0 \/ (k = 0 + 1 /\ i <= 0)
               PROVE  FALSE
    BY DEF Named
  <2>1. Len(asked) \in Nat /\ asked[k] \in Accepted
    <3>1. asked \in Seq(Accepted)
      BY DEF Recorded
    <3>2. QED
      BY <3>1
  <2>2. i \in 1..Len(RefsOf(asked[k])) /\ Len(RefsOf(asked[k])) \in Nat
    BY <2>1, DirectCount, AcceptedKind
  <2>3. QED
    BY <2>1, <2>2
<1>3. QED
  BY <1>1, <1>2 DEF AllCovered

\* No direct reference was counted: no byte is named.
LEMMA NothingDirect ==
  ASSUME NEW off, NEW w, NEW d, Layout(off, w, d), Recorded, bufs = <<>>, merge = None, d[Len(asked)] = 0
  PROVE  AllCovered(Len(asked), 0)
<1>1. \A f, x : ~ Covered(f, x)
  BY DEF Covered
<1>2. ASSUME NEW k \in 1..Len(asked) PROVE Direct(asked[k]) = {}
  <2>1. Len(asked) \in Nat /\ asked[k] \in Accepted
    <3>1. asked \in Seq(Accepted)
      BY DEF Recorded
    <3>2. QED
      BY <3>1
  <2>2. k \in 0..Len(asked) /\ k - 1 \in 0..Len(asked) /\ Len(asked) \in 0..Len(asked) /\ k <= Len(asked)
    BY <2>1
  <2>3. d[k] = d[k - 1] + Cardinality(Direct(asked[k])) /\ d[k] <= d[Len(asked)]
    BY <2>2 DEF Layout
  <2>4. d[k] \in Nat /\ d[k - 1] \in Nat
    BY <2>2, LayoutType
  <2>5. IsFiniteSet(Direct(asked[k])) /\ Cardinality(Direct(asked[k])) \in Nat
    BY <2>1, DirectCount
  <2>6. Cardinality(Direct(asked[k])) = 0
    BY <2>3, <2>4, <2>5
  <2>7. QED
    BY <2>5, <2>6, FS_EmptySet
<1>3. \A f, x : ~ Named(Len(asked), 0, f, x)
  BY <1>2 DEF Named
<1>4. QED
  BY <1>1, <1>3 DEF AllCovered

\* The array is as large as there are direct references; without any, nothing is collected.
LEMMA CountedCollects ==
  ASSUME NEW off, NEW w, NEW d, Layout(off, w, d), Recorded, Progress(off, w), Collects(d), Counted
  PROVE  Collects(d)'
<1>1. /\ phase = "count" /\ ~ MoreToRead /\ asked' = asked
      /\ phase' = (IF maxBufs > 0 THEN "collect" ELSE "execute") /\ at' = StartOfStream(stream)
      /\ UNCHANGED <<maxBufs, bufs, seen, merge>>
  BY DEF Counted, hostVars, walkVars
<1>2. at.entry \in Nat /\ Len(asked) \in Nat /\ at.entry <= Len(asked)
  <2>1. asked \in Seq(Accepted)
    BY DEF Recorded
  <2>2. QED
    BY <2>1 DEF Progress, Position
<1>3. ~ (at.entry < Len(asked))
  <2>1. PICK c : c = asked[at.entry + 1]
    OBVIOUS
  <2>2. QED
    BY <2>1, <1>1, ReadsCommand DEF Walking
<1>4. at.entry = Len(asked)
  BY <1>2, <1>3
<1>5. maxBufs = d[Len(asked)] /\ bufs = <<>> /\ merge = None /\ seen = 0
  BY <1>1, <1>4 DEF Collects, CountMatches
<1>6. at'.entry = 0
  BY <1>1 DEF StartOfStream
<1>7. d[0] = 0 /\ d[Len(asked)] \in Nat
  <2>1. Len(asked) \in 0..Len(asked)
    BY <1>2
  <2>2. QED
    BY <2>1, LayoutType DEF Layout
<1>8. Ranged' /\ merge' = None /\ seen' = 0 /\ bufs' = <<>>
  BY <1>1, <1>5 DEF Collects, Ranged
<1>9. Recorded'
  <2>1. entries' = entries
    BY DEF Counted, hostVars
  <2>2. QED
    BY <2>1, <1>1 DEF Recorded
<1>10. AllCovered(0, 0)'
  <2>1. AllCovered(0, 0)
    BY <1>5, NothingNamed
  <2>2. (\A f, x : Named(0, 0, f, x)' <=> Named(0, 0, f, x)) /\ (\A f, x : Covered(f, x)' <=> Covered(f, x))
    BY <1>1 DEF Named, Covered, Covers
  <2>3. QED
    BY <2>1, <2>2 DEF AllCovered
<1>11. CASE maxBufs > 0
  <2>1. phase' = "collect"
    BY <1>1, <1>11
  <2>2. Len(bufs') + InHand' = 0
    BY <1>8 DEF InHand
  <2>3. AllCovered(at.entry, seen)'
    BY <1>6, <1>8, <1>10 DEF AllCovered, Named
  <2>4. 0 < Len(asked) => Cardinality(SeenOf(asked[0 + 1], 0)) \in Nat /\ Len(RefsOf(asked[0 + 1])) \in Nat
    <3>1. asked \in Seq(Accepted)
      BY DEF Recorded
    <3>2. 0 < Len(asked) => asked[0 + 1] \in Accepted
      BY <3>1, <1>2
    <3>3. SUFFICES ASSUME 0 < Len(asked)
                   PROVE  Cardinality(SeenOf(asked[0 + 1], 0)) \in Nat /\ Len(RefsOf(asked[0 + 1])) \in Nat
      OBVIOUS
    <3>4. Cardinality(SeenOf(asked[0 + 1], 0)) \in Nat
      BY <3>2, <3>3, SeenCount
    <3>5. RefsOf(asked[0 + 1]) \in Seq(Reference)
      BY <3>2, <3>3, AcceptedKind
    <3>6. QED
      BY <3>4, <3>5
  <2>5. CollectMatches(d)'
    <3>1. 0 < Len(asked) => /\ 0 <= Len(RefsOf(asked[0 + 1]))
                            /\ Len(bufs') + InHand' <= d[0] + Cardinality(SeenOf(asked[0 + 1], 0))
      BY <2>2, <2>4, <1>7
    <3>2. Len(bufs') + InHand' <= d[0]
      BY <2>2, <1>7
    <3>3. QED
      BY <3>1, <3>2, <2>3, <1>1, <1>6, <1>8 DEF CollectMatches
  <2>6. CountMatches(d)'
    BY <2>1, <1>1, <1>5 DEF CountMatches
  <2>7. QED
    BY <2>1, <2>5, <2>6, <1>8 DEF Collects
<1>12. CASE ~ (maxBufs > 0)
  <2>1. phase' = "execute"
    BY <1>1, <1>12
  <2>2. d[Len(asked)] = 0
    BY <1>5, <1>7, <1>12
  <2>3. AllCovered(Len(asked), 0)
    BY <2>2, <1>5, NothingDirect
  <2>4. AllCovered(Len(asked), 0)'
    <3>1. \A f, x : Named(Len(asked), 0, f, x)' <=> Named(Len(asked), 0, f, x)
      BY <1>1 DEF Named
    <3>2. \A f, x : Covered(f, x)' <=> Covered(f, x)
      BY <1>1 DEF Covered, Covers
    <3>3. QED
      BY <2>3, <3>1, <3>2 DEF AllCovered
  <2>5. CountMatches(d)'
    BY <2>1, <1>1, <1>5 DEF CountMatches
  <2>6. CollectMatches(d)'
    BY <2>1 DEF CollectMatches
  <2>7. QED
    BY <2>1, <2>4, <2>5, <2>6, <1>8 DEF Collects
<1>13. QED
  BY <1>11, <1>12

\* A reference joins what was seen; a direct one becomes the range to merge.
LEMMA AddDirectBufCollects ==
  ASSUME NEW off, NEW w, NEW d, Layout(off, w, d), Recorded, Progress(off, w), Collects(d), AddDirectBuf
  PROVE  Collects(d)'
<1> DEFINE e == at.entry
           t == seen + 1
<1>1. /\ phase = "collect" /\ phase' = "collect" /\ merge = None /\ MoreToRead
      /\ asked' = asked /\ bufs' = bufs /\ at' = at /\ maxBufs' = maxBufs
      /\ seen < Len(References) /\ seen' = t
      /\ merge' = IF t \in DirectRefs
                     THEN [fd |-> References[t].fd, begin |-> References[t].off,
                           end |-> References[t].off + References[t].len, idx |-> 1]
                     ELSE None
  BY DEF AddDirectBuf, hostVars
<1>2. PICK c : c = asked[e + 1]
  OBVIOUS
<1>3. /\ e < Len(asked) /\ c \in Accepted
      /\ References = RefList(c) /\ Len(References) = Len(RefsOf(c)) /\ DirectRefs = Direct(c)
  BY <1>1, <1>2, ReadsCommand DEF Walking
<1>4. e \in Nat /\ Len(asked) \in Nat /\ e + 1 \in 1..Len(asked) /\ e \in 0..Len(asked) /\ e # Len(asked)
  <2>1. asked \in Seq(Accepted)
    BY DEF Recorded
  <2>2. e \in Nat /\ Len(asked) \in Nat
    BY <2>1 DEF Progress, Position
  <2>3. QED
    BY <2>2, <1>3
<1>5. /\ seen \in Nat /\ Ranged /\ AllCovered(e, seen)
      /\ Len(bufs) + InHand <= d[e] + Cardinality(SeenOf(c, seen))
  BY <1>1, <1>2, <1>3 DEF Collects, CollectMatches
<1>6. t \in 1..Len(RefsOf(c)) /\ Len(RefsOf(c)) \in Nat /\ t \in Nat
  <2>1. Len(RefsOf(c)) \in Nat
    BY <1>3, AcceptedKind
  <2>2. QED
    BY <2>1, <1>1, <1>3, <1>5
<1>7. d[e] \in Nat /\ Len(bufs) \in Nat /\ bufs \in Seq(Ranges)
  <2>1. d[e] \in Nat
    BY <1>4, LayoutType
  <2>2. bufs \in Seq(Ranges)
    BY <1>5 DEF Ranged
  <2>3. QED
    BY <2>1, <2>2
<1>8. /\ Cardinality(SeenOf(c, seen)) \in Nat
      /\ Cardinality(SeenOf(c, t)) = Cardinality(SeenOf(c, seen)) + (IF t \in Direct(c) THEN 1 ELSE 0)
  BY <1>3, <1>5, SeenCount
<1>9. \A f, x : Covered(f, x) <=> \E j \in 1..Len(bufs) : Covers(bufs[j], f, x)
  BY <1>1 DEF Covered
<1>10. \A f, x : Named(e, t, f, x) <=>
          Named(e, seen, f, x) \/ (t \in Direct(c) /\ RefCovers(RefList(c)[t], f, x))
  <2> SUFFICES ASSUME NEW f, NEW x
               PROVE  Named(e, t, f, x) <=>
                        Named(e, seen, f, x) \/ (t \in Direct(c) /\ RefCovers(RefList(c)[t], f, x))
    OBVIOUS
  <2>1. ASSUME Named(e, t, f, x)
        PROVE  Named(e, seen, f, x) \/ (t \in Direct(c) /\ RefCovers(RefList(c)[t], f, x))
    <3>0. PICK k \in 1..Len(asked) : \E i \in Direct(asked[k]) :
             /\ k <= e \/ (k = e + 1 /\ i <= t)
             /\ RefCovers(RefList(asked[k])[i], f, x)
      BY <2>1 DEF Named
    <3>1. PICK i \in Direct(asked[k]) :
             /\ k <= e \/ (k = e + 1 /\ i <= t)
             /\ RefCovers(RefList(asked[k])[i], f, x)
      BY <3>0
    <3>2. CASE k <= e
      BY <3>1, <3>2 DEF Named
    <3>3. CASE k = e + 1 /\ i <= t
      <4>1. i \in Direct(c) /\ i \in Nat
        <5>1. i \in Direct(c)
          BY <3>1, <3>3, <1>2
        <5>2. i \in 1..Len(RefsOf(c))
          BY <5>1, <1>3, DirectCount
        <5>3. QED
          BY <5>1, <5>2
      <4>2. i = t \/ i <= seen
        BY <4>1, <3>3, <1>5
      <4>3. CASE i = t
        BY <4>3, <4>1, <3>1, <3>3, <1>2
      <4>4. CASE i <= seen
        BY <4>4, <3>1, <3>3 DEF Named
      <4>5. QED
        BY <4>2, <4>3, <4>4
    <3>4. QED
      BY <3>1, <3>2, <3>3
  <2>2. ASSUME Named(e, seen, f, x) PROVE Named(e, t, f, x)
    <3>0. PICK k \in 1..Len(asked) : \E i \in Direct(asked[k]) :
             /\ k <= e \/ (k = e + 1 /\ i <= seen)
             /\ RefCovers(RefList(asked[k])[i], f, x)
      BY <2>2 DEF Named
    <3>1. PICK i \in Direct(asked[k]) :
             /\ k <= e \/ (k = e + 1 /\ i <= seen)
             /\ RefCovers(RefList(asked[k])[i], f, x)
      BY <3>0
    <3>2. k = e + 1 => i \in Nat
      <4>1. k = e + 1 => i \in Direct(c)
        BY <3>1, <1>2
      <4>2. k = e + 1 => i \in 1..Len(RefsOf(c))
        BY <4>1, <1>3, DirectCount
      <4>3. QED
        BY <4>2
    <3>3. k <= e \/ (k = e + 1 /\ i <= t)
      BY <3>1, <3>2, <1>5
    <3>4. QED
      BY <3>1, <3>3 DEF Named
  <2>3. ASSUME t \in Direct(c), RefCovers(RefList(c)[t], f, x) PROVE Named(e, t, f, x)
    <3>1. t <= t
      BY <1>6
    <3>2. QED
      BY <2>3, <3>1, <1>2, <1>4 DEF Named
  <2>4. QED
    BY <2>1, <2>2, <2>3
<1>11. CountMatches(d)'
  BY <1>1 DEF Collects, CountMatches
<1>12. ASSUME Ranged', Len(bufs') + InHand' <= d[e] + Cardinality(SeenOf(c, t)),
              \A f, x : x \in Int => (Covered(f, x)' <=> Named(e, t, f, x))
       PROVE  Collects(d)'
  <2>1. AllCovered(at.entry, seen)'
    BY <1>1, <1>12 DEF AllCovered, Named
  <2>2. SeenOf(asked[at.entry + 1], seen)' = SeenOf(c, t)
    BY <1>1, <1>2 DEF SeenOf, Direct, RefsOf
  <2>3. t <= Len(RefsOf(c))
    BY <1>6
  <2>4. RefsOf(asked[at.entry + 1])' = RefsOf(c)
    BY <1>1, <1>2 DEF RefsOf
  <2> HIDE DEF e, t
  <2>5. CollectMatches(d)'
    BY <2>1, <2>2, <2>3, <2>4, <1>12, <1>1, <1>4, <1>6 DEF CollectMatches, e
  <2>6. QED
    BY <2>5, <1>11, <1>12, <1>1 DEF Collects
<1>13. CASE t \in Direct(c)
  <2> DEFINE r == RefList(c)[t]
  <2>1. r.fd \in DOMAIN AllocSize /\ r.off \in Nat /\ r.len \in Nat
    BY <1>3, <1>6, <1>13, DirectRef
  <2>2. merge' = [fd |-> r.fd, begin |-> r.off, end |-> r.off + r.len, idx |-> 1]
    BY <1>1, <1>3, <1>13
  <2> HIDE DEF r
  <2>3. /\ merge' \in NewRanges /\ merge'.begin <= merge'.end /\ merge'.idx = 1
        /\ merge'.fd = r.fd /\ merge'.begin = r.off /\ merge'.end = r.off + r.len
    BY <2>1, <2>2 DEF NewRanges
  <2>4. merge' # None
    BY <2>3, RangeIsSomething
  <2>5. Ranged'
    <3>1. 1 \in 1..(Len(bufs) + 1) /\ 1..(1 - 1) = {}
      BY <1>7
    <3>2. QED
      BY <2>3, <3>1, <1>1, <1>5 DEF Ranged
  <2>6. Len(bufs') + InHand' <= d[e] + Cardinality(SeenOf(c, t))
    <3>1. InHand = 0 /\ InHand' = 1
      BY <2>4, <1>1 DEF InHand
    <3>2. QED
      BY <3>1, <1>1, <1>5, <1>7, <1>8, <1>13
  <2>7. ASSUME NEW f, NEW x \in Int PROVE Covered(f, x)' <=> Named(e, t, f, x)
    <3>1. Covered(f, x)' <=> (\E j \in 1..Len(bufs) : Covers(bufs[j], f, x)) \/ RefCovers(r, f, x)
      BY <2>3, <2>4, <1>1 DEF Covered, Covers, RefCovers
    <3>2. Covered(f, x) <=> Named(e, seen, f, x)
      BY <1>5 DEF AllCovered
    <3>3. QED
      BY <3>1, <3>2, <1>9, <1>10, <1>13 DEF r
  <2>8. QED
    BY <2>5, <2>6, <2>7, <1>12
<1>14. CASE t \notin Direct(c)
  <2>1. merge' = None
    BY <1>1, <1>3, <1>14
  <2>2. Ranged'
    BY <2>1, <1>1, <1>5 DEF Ranged
  <2>3. Len(bufs') + InHand' <= d[e] + Cardinality(SeenOf(c, t))
    <3>1. InHand = 0 /\ InHand' = 0
      BY <2>1, <1>1 DEF InHand
    <3>2. Cardinality(SeenOf(c, t)) = Cardinality(SeenOf(c, seen))
      BY <1>8, <1>14
    <3>3. QED
      BY <3>1, <3>2, <1>1, <1>5
  <2>4. ASSUME NEW f, NEW x \in Int PROVE Covered(f, x)' <=> Named(e, t, f, x)
    <3>1. Covered(f, x)' <=> \E j \in 1..Len(bufs) : Covers(bufs[j], f, x)
      BY <2>1, <1>1 DEF Covered, Covers
    <3>2. Covered(f, x) <=> Named(e, seen, f, x)
      BY <1>5 DEF AllCovered
    <3>3. QED
      BY <3>1, <3>2, <1>9, <1>10, <1>14
  <2>5. QED
    BY <2>2, <2>3, <2>4, <1>12
<1>15. QED
  BY <1>13, <1>14

\* Comparing and appending the new range changes neither what is covered nor the count.
LEMMA MergeCollects ==
  ASSUME NEW off, NEW w, NEW d, Layout(off, w, d), Recorded, Progress(off, w), Collects(d),
         MergeStep \/ MergeDone
  PROVE  Collects(d)'
<1>1. merge # None /\ Ranged /\ phase = "collect"
  BY DEF Collects, MergeStep, MergeDone
<1>2. UNCHANGED <<asked, phase, maxBufs, seen, at>>
  BY DEF MergeStep, MergeDone, hostVars
<1>3. /\ Ranged' /\ Len(bufs') + InHand' <= Len(bufs) + InHand
      /\ \A f, x : x \in Int => (Covered(f, x)' <=> Covered(f, x))
  <2>0. bufs \in Seq(Ranges)
    BY <1>1 DEF Ranged
  <2>1. CASE MergeStep
    <3>1. /\ Ranged' /\ merge' # None /\ Len(bufs') <= Len(bufs)
          /\ \A f, x : x \in Int => (Covered(f, x)' <=> Covered(f, x))
      BY <2>1, <1>1, MergeStepRanged
    <3>2. InHand = 1 /\ InHand' = 1 /\ bufs' \in Seq(Ranges)
      BY <3>1, <1>1 DEF InHand, Ranged
    <3>3. Len(bufs) \in Nat /\ Len(bufs') \in Nat
      BY <2>0, <3>2
    <3>4. QED
      BY <3>1, <3>2, <3>3
  <2>2. CASE MergeDone
    <3>1. /\ Ranged' /\ merge' = None /\ Len(bufs') = Len(bufs) + 1
          /\ \A f, x : Covered(f, x)' <=> Covered(f, x)
      BY <2>2, <1>1, MergeDoneRanged
    <3>2. InHand = 1 /\ InHand' = 0
      BY <3>1, <1>1 DEF InHand
    <3>3. Len(bufs) \in Nat
      BY <2>0
    <3>4. QED
      BY <3>1, <3>2, <3>3
  <2>3. QED
    BY <2>1, <2>2
<1>4. Len(bufs) + InHand \in Int /\ Len(bufs') + InHand' \in Int
  <2>1. bufs \in Seq(Ranges) /\ bufs' \in Seq(Ranges)
    BY <1>1, <1>3 DEF Ranged
  <2>2. QED
    BY <2>1 DEF InHand
<1>5. AllCovered(at.entry, seen)'
  <2>1. AllCovered(at.entry, seen)
    BY <1>1 DEF Collects, CollectMatches
  <2>2. QED
    BY <2>1, <1>2, <1>3 DEF AllCovered, Named
<1>6. CollectMatches(d)'
  <2>1. at.entry < Len(asked) =>
          /\ seen <= Len(RefsOf(asked[at.entry + 1]))
          /\ Len(bufs') + InHand' <= d[at.entry] + Cardinality(SeenOf(asked[at.entry + 1], seen))
    <3> SUFFICES ASSUME at.entry < Len(asked)
                 PROVE  /\ seen <= Len(RefsOf(asked[at.entry + 1]))
                        /\ Len(bufs') + InHand' <= d[at.entry] + Cardinality(SeenOf(asked[at.entry + 1], seen))
      OBVIOUS
    <3>1. /\ seen \in Nat /\ seen <= Len(RefsOf(asked[at.entry + 1]))
          /\ Len(bufs) + InHand <= d[at.entry] + Cardinality(SeenOf(asked[at.entry + 1], seen))
      BY <1>1 DEF Collects, CollectMatches
    <3>2. at.entry \in 0..Len(asked) /\ asked[at.entry + 1] \in Accepted
      <4>1. asked \in Seq(Accepted) /\ at.entry \in Nat
        BY DEF Recorded, Progress, Position
      <4>2. Len(asked) \in Nat
        BY <4>1
      <4>3. at.entry + 1 \in 1..Len(asked) /\ at.entry \in 0..Len(asked)
        BY <4>1, <4>2
      <4>4. QED
        BY <4>1, <4>3
    <3>3. d[at.entry] \in Nat
      BY <3>2, LayoutType
    <3>4. Cardinality(SeenOf(asked[at.entry + 1], seen)) \in Nat
      BY <3>1, <3>2, SeenCount
    <3>5. QED
      BY <3>1, <3>3, <3>4, <1>3, <1>4
  <2>2. at.entry = Len(asked) => seen = 0 /\ Len(bufs') + InHand' <= d[at.entry]
    <3> SUFFICES ASSUME at.entry = Len(asked) PROVE seen = 0 /\ Len(bufs') + InHand' <= d[at.entry]
      OBVIOUS
    <3>1. seen = 0 /\ Len(bufs) + InHand <= d[at.entry]
      BY <1>1 DEF Collects, CollectMatches
    <3>2. at.entry \in 0..Len(asked)
      <4>1. at.entry \in Nat
        BY DEF Progress, Position
      <4>2. QED
        BY <4>1
    <3>3. d[at.entry] \in Nat
      BY <3>2, LayoutType
    <3>4. QED
      BY <3>1, <3>3, <1>3, <1>4
  <2>3. seen \in Nat
    BY <1>1 DEF Collects, CollectMatches
  <2>4. QED
    BY <2>1, <2>2, <2>3, <1>2, <1>5 DEF CollectMatches
<1>7. CountMatches(d)'
  BY <1>2 DEF Collects, CountMatches
<1>8. QED
  BY <1>1, <1>2, <1>3, <1>6, <1>7 DEF Collects

\* All references of a command were seen: it is one of the commands that were read.
LEMMA CollectCmdCollects ==
  ASSUME NEW off, NEW w, NEW d, Layout(off, w, d), Recorded, Progress(off, w), Collects(d), CollectCmd
  PROVE  Collects(d)'
<1> DEFINE e == at.entry
           n == Len(asked)
<1>1. /\ phase = "collect" /\ phase' = "collect" /\ merge = None /\ MoreToRead
      /\ seen = Len(References) /\ seen' = 0 /\ at' = AfterCmd
      /\ UNCHANGED <<asked, maxBufs, bufs, merge>>
  BY DEF CollectCmd, hostVars
<1>2. PICK c : c = asked[e + 1]
  OBVIOUS
<1>3. /\ e < n /\ c \in Accepted /\ Len(References) = Len(RefsOf(c))
      /\ AfterCmd.entry = e + 1
  BY <1>1, <1>2, ReadsCommand DEF Walking
<1>4. e \in Nat /\ n \in Nat /\ e + 1 \in 1..n /\ e + 1 \in 0..n /\ e \in 0..n /\ (e + 1) - 1 = e
      /\ asked \in Seq(Accepted)
  <2>1. asked \in Seq(Accepted)
    BY DEF Recorded
  <2>2. e \in Nat /\ n \in Nat
    BY <2>1 DEF Progress, Position
  <2>3. QED
    BY <2>1, <2>2, <1>3
<1>5. /\ seen = Len(RefsOf(c)) /\ seen \in Nat /\ Ranged /\ AllCovered(e, seen)
      /\ Len(bufs) + InHand <= d[e] + Cardinality(SeenOf(c, seen))
  BY <1>1, <1>2, <1>3 DEF Collects, CollectMatches
<1>6. SeenOf(c, seen) = Direct(c) /\ Cardinality(Direct(c)) \in Nat
  BY <1>3, <1>5, SeenCount, DirectCount
<1>7. d[e + 1] = d[e] + Cardinality(Direct(c)) /\ d[e] \in Nat /\ d[e + 1] \in Nat
  <2>1. d[e + 1] = d[(e + 1) - 1] + Cardinality(Direct(c))
    BY <1>2, <1>4 DEF Layout
  <2>2. QED
    BY <2>1, <1>4, LayoutType
<1>8. InHand' = InHand /\ Len(bufs') + InHand' <= d[e + 1]
  <2>1. InHand' = InHand
    BY <1>1 DEF InHand
  <2>2. QED
    BY <2>1, <1>1, <1>5, <1>6, <1>7
<1>9. Len(bufs') + InHand' \in Int
  <2>1. bufs \in Seq(Ranges)
    BY <1>5 DEF Ranged
  <2>2. Len(bufs) \in Nat
    BY <2>1
  <2>3. QED
    BY <2>2, <1>1 DEF InHand
<1>10. \A f, x : Named(e + 1, 0, f, x) <=> Named(e, seen, f, x)
  <2> SUFFICES ASSUME NEW f, NEW x PROVE Named(e + 1, 0, f, x) <=> Named(e, seen, f, x)
    OBVIOUS
  <2>1. ASSUME NEW k \in 1..n, NEW i \in Direct(asked[k])
        PROVE  (k <= e + 1 \/ (k = (e + 1) + 1 /\ i <= 0)) <=> (k <= e \/ (k = e + 1 /\ i <= seen))
    <3>1. asked[k] \in Accepted /\ k \in Nat
      BY <1>4
    <3>2. i \in 1..Len(RefsOf(asked[k])) /\ Len(RefsOf(asked[k])) \in Nat
      BY <3>1, DirectCount, AcceptedKind
    <3>3. i \in Nat /\ 1 <= i /\ (k = e + 1 => i <= seen)
      BY <3>2, <1>2, <1>5
    <3>4. QED
      BY <3>1, <3>3, <1>4
  <2>2. QED
    BY <2>1 DEF Named
<1>11. AllCovered(e + 1, 0)
  BY <1>5, <1>10 DEF AllCovered
<1>12. at'.entry = e + 1
  BY <1>1, <1>3
<1>13. AllCovered(at.entry, seen)'
  <2>1. \A f, x : Covered(f, x)' <=> Covered(f, x)
    BY <1>1 DEF Covered, Covers
  <2>2. \A f, x : Named(at.entry, seen, f, x)' <=> Named(e + 1, 0, f, x)
    BY <1>1, <1>12 DEF Named
  <2>3. QED
    BY <2>1, <2>2, <1>11 DEF AllCovered
<1>14. e + 1 < n => /\ 0 <= Len(RefsOf(asked[(e + 1) + 1]))
                    /\ Len(bufs') + InHand' <= d[e + 1] + Cardinality(SeenOf(asked[(e + 1) + 1], 0))
  <2> SUFFICES ASSUME e + 1 < n
               PROVE  /\ 0 <= Len(RefsOf(asked[(e + 1) + 1]))
                      /\ Len(bufs') + InHand' <= d[e + 1] + Cardinality(SeenOf(asked[(e + 1) + 1], 0))
    OBVIOUS
  <2>1. (e + 1) + 1 \in 1..n
    BY <1>4
  <2>2. asked[(e + 1) + 1] \in Accepted
    BY <2>1, <1>4
  <2>3. Cardinality(SeenOf(asked[(e + 1) + 1], 0)) \in Nat
    BY <2>2, SeenCount
  <2>4. RefsOf(asked[(e + 1) + 1]) \in Seq(Reference)
    BY <2>2, AcceptedKind
  <2>5. Len(RefsOf(asked[(e + 1) + 1])) \in Nat
    BY <2>4
  <2>6. QED
    BY <2>3, <2>5, <1>7, <1>8, <1>9
<1>15. CollectMatches(d)'
  BY <1>1, <1>8, <1>12, <1>13, <1>14 DEF CollectMatches
<1>16. CountMatches(d)'
  BY <1>1 DEF Collects, CountMatches
<1>17. Ranged'
  BY <1>1, <1>5 DEF Ranged
<1>18. QED
  BY <1>1, <1>15, <1>16, <1>17 DEF Collects

\* At the end of the second walk the ranges cover the direct references of every command.
LEMMA CollectedCollects ==
  ASSUME NEW off, NEW w, NEW d, Layout(off, w, d), Recorded, Progress(off, w), Collects(d), Collected
  PROVE  Collects(d)'
<1>1. /\ phase = "collect" /\ phase' = "execute" /\ merge = None /\ ~ MoreToRead
      /\ UNCHANGED <<asked, maxBufs, bufs, seen, merge>>
  BY DEF Collected, hostVars, walkVars
<1>2. at.entry = Len(asked)
  <2>1. PICK c : c = asked[at.entry + 1]
    OBVIOUS
  <2>2. ~ (at.entry < Len(asked))
    BY <2>1, <1>1, ReadsCommand DEF Walking
  <2>3. asked \in Seq(Accepted) /\ at.entry \in Nat /\ at.entry <= Len(asked)
    BY DEF Recorded, Progress, Position
  <2>4. Len(asked) \in Nat
    BY <2>3
  <2>5. QED
    BY <2>2, <2>3, <2>4
<1>3. seen = 0 /\ AllCovered(Len(asked), 0) /\ Ranged
  <2>1. seen = 0 /\ AllCovered(at.entry, seen)
    BY <1>1, <1>2 DEF Collects, CollectMatches
  <2>2. QED
    BY <2>1, <1>2 DEF Collects
<1>4. AllCovered(Len(asked), 0)'
  <2>1. \A f, x : Covered(f, x)' <=> Covered(f, x)
    BY <1>1 DEF Covered, Covers
  <2>2. \A f, x : Named(Len(asked), 0, f, x)' <=> Named(Len(asked), 0, f, x)
    BY <1>1 DEF Named
  <2>3. QED
    BY <2>1, <2>2, <1>3 DEF AllCovered
<1>5. Ranged'
  BY <1>1, <1>3 DEF Ranged
<1>6. CountMatches(d)'
  BY <1>1 DEF Collects, CountMatches
<1>7. QED
  BY <1>1, <1>3, <1>4, <1>5, <1>6 DEF Collects, CollectMatches
------------------------------------------------------------------------------
(* The inductive invariant and the theorems.                                *)

Inv ==
  /\ Recorded
  /\ \E off, w, d : Layout(off, w, d) /\ Progress(off, w) /\ Collects(d)

\* An empty recording satisfies the invariant.
LEMMA InitInv == Init => Inv
<1> SUFFICES ASSUME Init PROVE Inv
  OBVIOUS
<1>1. PICK off, w, d : Layout(off, w, d) /\ Progress(off, w)
  BY InitProgress
<1>2. phase = "record" /\ maxBufs = 0 /\ bufs = <<>> /\ seen = 0 /\ merge = None
  BY DEF Init
<1>3. Ranged
  BY <1>2 DEF Ranged
<1>4. Collects(d)
  BY <1>2, <1>3 DEF Collects, CountMatches, CollectMatches
<1>5. QED
  BY <1>1, <1>4, InitProgress DEF Inv

\* Recording a command preserves it.
LEMMA RecordInv ==
  ASSUME NEW off, NEW w, NEW d, Layout(off, w, d), Recorded, Progress(off, w), Collects(d),
         NEW c \in Palette, Record(c)
  PROVE  Inv'
<1>1. phase = "record" /\ UNCHANGED <<phase, stream, at, maxBufs, bufs, seen, merge>>
  BY DEF Record, walkVars
<1>2. Recorded' /\ \E off2, w2, d2 : Layout(off2, w2, d2)'
  BY RecordLayout
<1>3. PICK off2, w2, d2 : Layout(off2, w2, d2)'
  BY <1>2
<1>4. at \in Position /\ at.entry = 0 /\ stream \in [size : Nat, items : Seq(AnyItem)] /\ stream.items = <<>>
  BY <1>1 DEF Progress
<1>5. 0 <= Len(asked')
  <2>1. asked' \in Seq(Accepted)
    BY <1>2 DEF Recorded
  <2>2. QED
    BY <2>1
<1>6. Progress(off2, w2)'
  BY <1>1, <1>4, <1>5 DEF Progress, Walking
<1>7. Collects(d2)'
  <2>1. bufs' = <<>> /\ merge' = None /\ seen' = 0 /\ maxBufs' = 0 /\ phase' = "record"
    BY <1>1 DEF Collects, CountMatches
  <2>2. Ranged'
    BY <2>1 DEF Ranged
  <2>3. QED
    BY <2>1, <2>2 DEF Collects, CountMatches, CollectMatches
<1>8. QED
  BY <1>2, <1>3, <1>6, <1>7 DEF Inv

\* So does every other step.
LEMMA StepInv ==
  ASSUME NEW off, NEW w, NEW d, Layout(off, w, d), Recorded, Progress(off, w), Collects(d),
         \/ End \/ AddSize \/ Sized \/ CopyEntry \/ Sent \/ EndFails
         \/ CountCmd \/ Counted
         \/ CollectCmd \/ AddDirectBuf \/ MergeStep \/ MergeDone \/ Collected
         \/ ExecBarrier \/ ExecCopy \/ ExecFill \/ ExecDispatch \/ ExecRefuses \/ ExecDone
         \/ UNCHANGED vars
  PROVE  UNCHANGED hostVars /\ Progress(off, w)' /\ Collects(d)'
<1>1. UNCHANGED hostVars
  BY DEF End, AddSize, Sized, CopyEntry, Sent, EndFails, CountCmd, Counted, CollectCmd, AddDirectBuf,
         MergeStep, MergeDone, Collected, ExecBarrier, ExecCopy, ExecFill, ExecDispatch, ExecRefuses,
         ExecDone, vars
<1>a. asked' = asked
  BY <1>1 DEF hostVars
<1>2. CASE End
  <2>1. phase = "record" /\ phase' = "size" /\ UNCHANGED <<maxBufs, bufs, seen, merge, at>>
        /\ stream' = [size |-> 4, items |-> <<>>]
    BY <1>2, ItemSizes DEF End
  <2>2. at.entry = 0 /\ at \in Position /\ at.entry <= Len(asked) /\ w[0] = 4
    BY <2>1, ItemSizes DEF Progress, Layout
  <2>3. stream' \in [size : Nat, items : Seq(AnyItem)] /\ stream'.size = 4 /\ stream'.items = <<>>
    BY <2>1
  <2>4. Progress(off, w)'
    BY <2>1, <2>2, <2>3, <1>a DEF Progress, Walking
  <2>5. Collects(d)'
    BY <2>1, CollectsStays
  <2>6. QED
    BY <2>4, <2>5, <1>1
<1>3. CASE AddSize
  <2>1. Collects(d)'
    <3>1. phase = "size" /\ phase' = "size" /\ UNCHANGED <<maxBufs, bufs, seen, merge>>
      BY <1>3 DEF AddSize
    <3>2. QED
      BY <3>1, CollectsStays
  <2>2. QED
    BY <2>1, <1>1, <1>3, AddSizeProgress
<1>4. CASE Sized
  <2>1. Collects(d)'
    <3>1. phase = "size" /\ phase' = "copy" /\ UNCHANGED <<maxBufs, bufs, seen, merge>>
      BY <1>4 DEF Sized
    <3>2. QED
      BY <3>1, CollectsStays
  <2>2. QED
    BY <2>1, <1>1, <1>4, SizedProgress
<1>5. CASE CopyEntry
  <2>1. Collects(d)'
    <3>1. phase = "copy" /\ phase' = "copy" /\ UNCHANGED <<maxBufs, bufs, seen, merge>>
      BY <1>5 DEF CopyEntry
    <3>2. QED
      BY <3>1, CollectsStays
  <2>2. QED
    BY <2>1, <1>1, <1>5, CopyEntryProgress
<1>6. CASE Sent
  <2>1. /\ phase = "copy" /\ phase' = "count" /\ at.entry = Len(entries) /\ at' = StartOfStream(stream)
        /\ UNCHANGED <<stream, maxBufs, bufs, seen, merge>>
    BY <1>6 DEF Sent, walkVars
  <2>2. Len(entries) = Len(asked)
    <3>1. asked \in Seq(Accepted)
      BY DEF Recorded
    <3>2. Len(asked) \in Nat
      BY <3>1
    <3>3. QED
      BY <3>2 DEF Recorded
  <2>3. Progress(off, w)' /\ at'.entry = 0
    BY <2>1, <2>2, <1>1, ProgressRestarts DEF Walking
  <2>4. maxBufs = 0 /\ bufs = <<>> /\ merge = None /\ seen = 0 /\ d[0] = 0
    BY <2>1 DEF Collects, CountMatches, Layout
  <2>5. Ranged'
    BY <2>1 DEF Collects, Ranged
  <2>6. Collects(d)'
    BY <2>1, <2>3, <2>4, <2>5 DEF Collects, CountMatches, CollectMatches
  <2>7. QED
    BY <2>3, <2>6, <1>1
<1>7. CASE EndFails
  <2>1. /\ phase' = "error" /\ stream' = [size |-> 0, items |-> <<>>] /\ bufs' = <<>> /\ seen' = 0
        /\ merge' = None /\ at' = at
    BY <1>7 DEF EndFails
  <2>2. Progress(off, w)'
    <3>1. stream' \in [size : Nat, items : Seq(AnyItem)]
      BY <2>1
    <3>2. QED
      BY <2>1, <3>1, <1>a DEF Progress, Walking
  <2>3. Ranged'
    BY <2>1 DEF Ranged
  <2>4. Collects(d)'
    BY <2>1, <2>3 DEF Collects, CountMatches, CollectMatches
  <2>5. QED
    BY <2>2, <2>4, <1>1
<1>8. CASE CountCmd
  <2>1. Progress(off, w)'
    <3>1. phase \in Walking /\ MoreToRead /\ at' = AfterCmd /\ UNCHANGED <<hostVars, phase, stream>>
      BY <1>8 DEF CountCmd, Walking
    <3>2. QED
      BY <3>1, ProgressReads
  <2>2. QED
    BY <2>1, <1>1, <1>8, CountCmdCollects
<1>9. CASE Counted
  <2>1. Progress(off, w)'
    <3>1. phase \in Walking /\ phase # "copy" /\ phase' \in Walking /\ at' = StartOfStream(stream)
          /\ UNCHANGED <<hostVars, stream>>
      BY <1>9 DEF Counted, Walking, walkVars
    <3>2. QED
      BY <3>1, ProgressRestarts
  <2>2. QED
    BY <2>1, <1>1, <1>9, CountedCollects
<1>10. CASE CollectCmd
  <2>1. Progress(off, w)'
    <3>1. phase \in Walking /\ MoreToRead /\ at' = AfterCmd /\ UNCHANGED <<hostVars, phase, stream>>
      BY <1>10 DEF CollectCmd, Walking
    <3>2. QED
      BY <3>1, ProgressReads
  <2>2. QED
    BY <2>1, <1>1, <1>10, CollectCmdCollects
<1>11. CASE AddDirectBuf
  <2>1. Progress(off, w)'
    <3>1. UNCHANGED <<hostVars, stream, at>> /\ phase' = phase
      BY <1>11 DEF AddDirectBuf
    <3>2. QED
      BY <3>1, ProgressStays
  <2>2. QED
    BY <2>1, <1>1, <1>11, AddDirectBufCollects
<1>12. CASE MergeStep \/ MergeDone
  <2>1. Progress(off, w)'
    <3>1. UNCHANGED <<hostVars, stream, at>> /\ phase' = phase
      BY <1>12 DEF MergeStep, MergeDone
    <3>2. QED
      BY <3>1, ProgressStays
  <2>2. QED
    BY <2>1, <1>1, <1>12, MergeCollects
<1>13. CASE Collected
  <2>1. Progress(off, w)'
    <3>1. phase \in Walking /\ phase # "copy" /\ phase' \in Walking /\ at' = StartOfStream(stream)
          /\ UNCHANGED <<hostVars, stream>>
      BY <1>13 DEF Collected, Walking, walkVars
    <3>2. QED
      BY <3>1, ProgressRestarts
  <2>2. QED
    BY <2>1, <1>1, <1>13, CollectedCollects
<1>14. CASE ExecBarrier \/ ExecCopy \/ ExecFill \/ ExecDispatch
  <2>1. /\ phase = "execute" /\ phase' = "execute" /\ MoreToRead /\ at' = AfterCmd
        /\ UNCHANGED <<hostVars, stream, maxBufs, bufs, seen, merge>>
    BY <1>14 DEF ExecBarrier, ExecCopy, ExecFill, ExecDispatch, CanExecute, walkVars
  <2>2. Progress(off, w)'
    BY <2>1, ProgressReads DEF Walking
  <2>3. Collects(d)'
    BY <2>1, <1>a, CollectsStays
  <2>4. QED
    BY <2>2, <2>3, <1>1
<1>15. CASE ExecRefuses \/ ExecDone
  <2>1. /\ phase = "execute" /\ phase' \in {"error", "done"}
        /\ UNCHANGED <<hostVars, stream, at, maxBufs, bufs, seen, merge>>
    BY <1>15 DEF ExecRefuses, ExecDone, walkVars
  <2>2. Progress(off, w)'
    BY <2>1, ProgressStays
  <2>3. Collects(d)'
    BY <2>1, <1>a, CollectsStays
  <2>4. QED
    BY <2>2, <2>3, <1>1
<1>16. CASE UNCHANGED vars
  <2>1. UNCHANGED <<hostVars, phase, stream, at, maxBufs, bufs, seen, merge>>
    BY <1>16 DEF vars, walkVars
  <2>2. Progress(off, w)'
    BY <2>1, ProgressStays
  <2>3. Collects(d)'
    BY <2>1, <1>a, CollectsStays
  <2>4. QED
    BY <2>2, <2>3, <1>1
<1>17. QED
  BY <1>2, <1>3, <1>4, <1>5, <1>6, <1>7, <1>8, <1>9, <1>10, <1>11, <1>12, <1>13, <1>14, <1>15, <1>16

\* The invariant is inductive.
LEMMA NextInv == Inv /\ [Next]_vars => Inv'
<1> SUFFICES ASSUME Inv, [Next]_vars PROVE Inv'
  OBVIOUS
<1>1. PICK off, w, d : Layout(off, w, d) /\ Progress(off, w) /\ Collects(d)
  BY DEF Inv
<1>2. Recorded
  BY DEF Inv
<1>3. CASE \E c \in Palette : Record(c)
  BY <1>1, <1>2, <1>3, RecordInv
<1>4. CASE ~ \E c \in Palette : Record(c)
  <2>1. UNCHANGED hostVars /\ Progress(off, w)' /\ Collects(d)'
    BY <1>1, <1>2, <1>4, StepInv DEF Next
  <2>2. Layout(off, w, d)' /\ Recorded'
    BY <2>1, <1>1, <1>2, HostUnchanged
  <2>3. QED
    BY <2>1, <2>2 DEF Inv
<1>5. QED
  BY <1>3, <1>4

\* The invariant holds in every behaviour: what is recorded, sent, counted and merged agrees.
THEOREM InvHolds == Spec => []Inv
<1>1. QED
  BY InitInv, NextInv, PTL DEF Spec

\* StreamIsComplete for any calls: no walk of the DSP runs out of data, meets a structure
\* it does not know or leaves data behind.
THEOREM StreamIsCompleteHolds == Spec => []StreamIsComplete
<1>1. Inv => StreamIsComplete
  <2> SUFFICES ASSUME Inv PROVE StreamIsComplete
    OBVIOUS
  <2>1. PICK off, w, d : Layout(off, w, d) /\ Progress(off, w) /\ Collects(d)
    BY DEF Inv
  <2>2. Recorded
    BY DEF Inv
  <2>3. PICK c : c = asked[at.entry + 1]
    OBVIOUS
  <2>4. ASSUME phase \in {"count", "collect", "execute"}, MoreToRead
        PROVE  /\ Readable
               /\ Cmd.t \in {"dispatch", "barrier", "copy", "fill"}
               /\ \A i \in DOMAIN References : "slot" \in DOMAIN References[i]
    <3>1. phase \in Walking
      BY <2>4 DEF Walking
    <3>2. /\ c \in Accepted /\ Readable /\ Cmd.t = c.kind /\ References = RefList(c)
          /\ DOMAIN References = 1..Len(RefsOf(c))
      BY <2>1, <2>2, <2>3, <2>4, <3>1, ReadsCommand
    <3>3. Cmd.t \in {"dispatch", "barrier", "copy", "fill"}
      BY <3>2, AcceptedKind
    <3>4. \A i \in DOMAIN References : "slot" \in DOMAIN References[i]
      BY <3>2 DEF RefList, NormalizedRef
    <3>5. QED
      BY <3>2, <3>3, <3>4
  <2>5. ASSUME phase \in {"collect", "execute"}, ~ MoreToRead PROVE at.left = 0
    <3>1. phase \in Walking
      BY <2>5 DEF Walking
    <3>2. ~ (at.entry < Len(asked))
      BY <2>1, <2>2, <2>3, <2>5, <3>1, ReadsCommand
    <3>3. asked \in Seq(Accepted) /\ at.entry \in Nat /\ at.entry <= Len(asked)
      BY <2>1, <2>2 DEF Recorded, Progress, Position
    <3>4. Len(asked) \in Nat
      BY <3>3
    <3>5. at.entry = Len(asked) /\ Len(asked) \in 0..Len(asked)
      BY <3>2, <3>3, <3>4
    <3>6. at.left = w[Len(asked)] - w[Len(asked)]
      BY <2>1, <3>1, <3>5 DEF Progress
    <3>7. w[Len(asked)] \in Nat
      BY <2>1, <3>5, LayoutType
    <3>8. QED
      BY <3>6, <3>7
  <2>6. QED
    BY <2>4, <2>5 DEF StreamIsComplete
<1>2. QED
  BY <1>1, InvHolds, PTL

\* The array that the first walk sized has room for every range of the second.
LEMMA RangesFit ==
  ASSUME NEW off, NEW w, NEW d, Layout(off, w, d), Recorded, Progress(off, w), Collects(d), phase = "collect"
  PROVE  Len(bufs) + InHand <= maxBufs
<1> DEFINE n == Len(asked)
           e == at.entry
<1>1. asked \in Seq(Accepted) /\ e \in Nat /\ e <= n /\ maxBufs = d[n]
  BY DEF Recorded, Progress, Position, Collects, CountMatches
<1>2. n \in Nat
  BY <1>1
<1>3. Len(bufs) \in Nat /\ InHand \in Nat
  <2>1. bufs \in Seq(Ranges)
    BY DEF Collects, Ranged
  <2>2. QED
    BY <2>1 DEF InHand
<1>4. CASE e = n
  BY <1>4, <1>1 DEF Collects, CollectMatches
<1>5. CASE e < n
  <2>1. PICK c : c = asked[e + 1]
    OBVIOUS
  <2>2. c \in Accepted /\ e + 1 \in 1..n /\ e + 1 \in 0..n /\ n \in 0..n /\ e \in 0..n /\ (e + 1) - 1 = e
    BY <2>1, <1>1, <1>2, <1>5
  <2>3. seen \in Nat /\ Len(bufs) + InHand <= d[e] + Cardinality(SeenOf(c, seen))
    BY <1>5, <2>1 DEF Collects, CollectMatches
  <2>4. Cardinality(SeenOf(c, seen)) \in Nat /\ Cardinality(SeenOf(c, seen)) <= Cardinality(Direct(c))
    BY <2>2, <2>3, SeenCount
  <2>5. Cardinality(Direct(c)) \in Nat
    BY <2>2, DirectCount
  <2>6. d[e + 1] = d[e] + Cardinality(Direct(c)) /\ d[e + 1] <= d[n]
    <3>1. PICK k : k = e + 1
      OBVIOUS
    <3>2. d[k] = d[k - 1] + Cardinality(Direct(asked[k])) /\ d[k] <= d[n]
      <4>1. k \in 1..n /\ k \in 0..n /\ k <= n
        BY <3>1, <2>2, <1>2
      <4>2. QED
        BY <4>1, <2>2 DEF Layout
    <3>3. QED
      BY <3>1, <3>2, <2>1, <2>2
  <2>7. d[e] \in Nat /\ d[e + 1] \in Nat /\ d[n] \in Nat
    BY <2>2, LayoutType
  <2> HIDE DEF n, e
  <2>8. QED
    BY <2>3, <2>4, <2>5, <2>6, <2>7, <1>1, <1>3
<1>6. QED
  BY <1>1, <1>2, <1>4, <1>5

\* All the bytes of the direct references, and the bytes of the ranges.
NamedBytes == UNION {UNION {Range(DirectBytes(r)) : r \in {x \in Range(RefsOf(c)) : IsDirect(x)}} : c \in Range(asked)}
RangeBytes == UNION {{<<bufs[i].fd, k>> : k \in bufs[i].begin..(bufs[i].end - 1)} : i \in DOMAIN bufs}

\* What the second walk named is what the caller named.
LEMMA NamedExactly ==
  ASSUME Recorded, NEW y
  PROVE  y \in NamedBytes <=> \E f, x : x \in Int /\ y = <<f, x>> /\ Named(Len(asked), 0, f, x)
<1>1. asked \in Seq(Accepted)
  BY DEF Recorded
<1>2. Len(asked) \in Nat /\ DOMAIN asked = 1..Len(asked) /\ \A k \in 1..Len(asked) : asked[k] \in Accepted
  BY <1>1
<1>3. ASSUME y \in NamedBytes
      PROVE  \E f, x : x \in Int /\ y = <<f, x>> /\ Named(Len(asked), 0, f, x)
  <2>1. PICK c \in Range(asked) : y \in UNION {Range(DirectBytes(r)) : r \in {x \in Range(RefsOf(c)) : IsDirect(x)}}
    BY <1>3 DEF NamedBytes
  <2>2. PICK k \in 1..Len(asked) : c = asked[k]
    BY <2>1, <1>2 DEF Range
  <2>3. PICK r \in Range(RefsOf(c)) : IsDirect(r) /\ y \in Range(DirectBytes(r))
    BY <2>1
  <2>4. c \in Accepted
    BY <2>2, <1>2
  <2>5. RefsOf(c) \in Seq(Reference)
    BY <2>4, AcceptedKind
  <2>6. PICK i \in 1..Len(RefsOf(c)) : r = RefsOf(c)[i]
    <3>1. DOMAIN RefsOf(c) = 1..Len(RefsOf(c))
      BY <2>5
    <3>2. QED
      BY <2>3, <3>1 DEF Range
  <2>7. i \in Direct(c)
    BY <2>3, <2>4, <2>6, DirectRef
  <2>8. PICK x \in Int : y = <<RefList(c)[i].fd, x>>
    BY <2>3, <2>4, <2>6, <2>7, DirectRef
  <2>9. RefCovers(RefList(c)[i], RefList(c)[i].fd, x)
    BY <2>3, <2>4, <2>6, <2>7, <2>8, DirectRef
  <2>10. Named(Len(asked), 0, RefList(c)[i].fd, x)
    BY <2>2, <2>7, <2>9, <1>2 DEF Named
  <2>11. QED
    BY <2>8, <2>10
<1>4. ASSUME NEW f, NEW x \in Int, y = <<f, x>>, Named(Len(asked), 0, f, x)
      PROVE  y \in NamedBytes
  <2>1. PICK k \in 1..Len(asked) : \E i \in Direct(asked[k]) :
           (k <= Len(asked) \/ (k = Len(asked) + 1 /\ i <= 0)) /\ RefCovers(RefList(asked[k])[i], f, x)
    BY <1>4 DEF Named
  <2>2. PICK i \in Direct(asked[k]) : RefCovers(RefList(asked[k])[i], f, x)
    BY <2>1
  <2>3. PICK c : c = asked[k]
    OBVIOUS
  <2>4. c \in Accepted /\ c \in Range(asked)
    BY <2>3, <1>2 DEF Range
  <2>5. i \in 1..Len(RefsOf(c)) /\ RefsOf(c) \in Seq(Reference)
    BY <2>2, <2>3, <2>4, DirectCount, AcceptedKind
  <2>6. IsDirect(RefsOf(c)[i]) /\ y \in Range(DirectBytes(RefsOf(c)[i]))
    BY <2>2, <2>3, <2>4, <2>5, <1>4, DirectRef
  <2>7. RefsOf(c)[i] \in Range(RefsOf(c))
    <3>1. DOMAIN RefsOf(c) = 1..Len(RefsOf(c))
      BY <2>5
    <3>2. QED
      BY <3>1, <2>5 DEF Range
  <2>8. QED
    BY <2>4, <2>6, <2>7 DEF NamedBytes
<1>5. QED
  BY <1>3, <1>4

\* The ranges cover what they say.
LEMMA CoveredExactly ==
  ASSUME Ranged, merge = None, NEW y
  PROVE  y \in RangeBytes <=> \E f, x : x \in Int /\ y = <<f, x>> /\ Covered(f, x)
<1>1. bufs \in Seq(Ranges)
  BY DEF Ranged
<1>2. DOMAIN bufs = 1..Len(bufs) /\ \A i \in 1..Len(bufs) : bufs[i].begin \in Nat /\ bufs[i].end \in Nat
  <2>1. DOMAIN bufs = 1..Len(bufs) /\ \A i \in 1..Len(bufs) : bufs[i] \in Ranges
    BY <1>1
  <2>2. QED
    BY <2>1 DEF Ranges
<1>3. \A i \in 1..Len(bufs) : \A x \in Int : x \in bufs[i].begin..(bufs[i].end - 1) <=> bufs[i].begin <= x /\ x < bufs[i].end
  BY <1>2
<1>4. \A i \in 1..Len(bufs) : bufs[i].begin..(bufs[i].end - 1) \subseteq Int
  BY <1>2
<1>5. ASSUME y \in RangeBytes PROVE \E f, x : x \in Int /\ y = <<f, x>> /\ Covered(f, x)
  <2>1. PICK i \in 1..Len(bufs) : y \in {<<bufs[i].fd, k>> : k \in bufs[i].begin..(bufs[i].end - 1)}
    BY <1>5, <1>2 DEF RangeBytes
  <2>2. PICK k \in bufs[i].begin..(bufs[i].end - 1) : y = <<bufs[i].fd, k>>
    BY <2>1
  <2>3. k \in Int /\ Covers(bufs[i], bufs[i].fd, k)
    BY <2>1, <2>2, <1>3, <1>4 DEF Covers
  <2>4. QED
    BY <2>1, <2>2, <2>3 DEF Covered
<1>6. ASSUME NEW f, NEW x \in Int, y = <<f, x>>, Covered(f, x) PROVE y \in RangeBytes
  <2>1. PICK i \in 1..Len(bufs) : Covers(bufs[i], f, x)
    BY <1>6 DEF Covered
  <2>2. f = bufs[i].fd /\ x \in bufs[i].begin..(bufs[i].end - 1)
    BY <2>1, <1>3 DEF Covers
  <2>3. QED
    BY <2>1, <2>2, <1>2, <1>6 DEF RangeBytes
<1>7. QED
  BY <1>5, <1>6

\* DirectRangesExact for any calls: the ranges for cache maintenance are the bytes of the
\* direct references, no two of an allocation touch, and the array never overflows.
THEOREM DirectRangesExactHolds == Spec => []DirectRangesExact
<1>1. Inv => DirectRangesExact
  <2> SUFFICES ASSUME Inv PROVE DirectRangesExact
    OBVIOUS
  <2>1. PICK off, w, d : Layout(off, w, d) /\ Progress(off, w) /\ Collects(d)
    BY DEF Inv
  <2>2. Recorded
    BY DEF Inv
  <2>3. phase = "collect" => Len(bufs) + InHand <= maxBufs
    BY <2>1, <2>2, RangesFit
  <2>4. ASSUME phase \in {"execute", "done"}
        PROVE  /\ RangeBytes = NamedBytes
               /\ \A i, j \in DOMAIN bufs :
                    i # j /\ bufs[i].fd = bufs[j].fd =>
                      bufs[i].end < bufs[j].begin \/ bufs[j].end < bufs[i].begin
    <3>1. Ranged /\ merge = None /\ AllCovered(Len(asked), 0)
      BY <2>1, <2>4 DEF Collects
    <3>2. \A y : y \in RangeBytes <=> y \in NamedBytes
      <4> SUFFICES ASSUME NEW y PROVE y \in RangeBytes <=> y \in NamedBytes
        OBVIOUS
      <4>1. \A f, x : x \in Int => (Covered(f, x) <=> Named(Len(asked), 0, f, x))
        BY <3>1 DEF AllCovered
      <4>2. QED
        BY <4>1, <3>1, <2>2, NamedExactly, CoveredExactly
    <3>3. RangeBytes = NamedBytes
      BY <3>2, Zenon DEF RangeBytes, NamedBytes
    <3>4. DOMAIN bufs = 1..Len(bufs)
      <4>1. bufs \in Seq(Ranges)
        BY <3>1 DEF Ranged
      <4>2. QED
        BY <4>1
    <3>5. QED
      BY <3>1, <3>3, <3>4 DEF Ranged, AreApart
  <2>5. QED
    BY <2>3, <2>4 DEF DirectRangesExact, RangeBytes, NamedBytes, InHand
<1>2. QED
  BY <1>1, InvHolds, PTL
------------------------------------------------------------------------------
(* What the commands mean. The recursive definitions of MemoryAfter and     *)
(* Dispatched are met by exactly one function each.                         *)

MeansMemory(f) ==
  f = [n \in 0..Len(asked) |-> IF n = 0 THEN ZeroMemory ELSE Effect(f[n - 1], asked[n])]
MeansCalls(g) ==
  g = [n \in 0..Len(asked) |-> IF n = 0 THEN <<>>
                               ELSE IF asked[n].kind = "dispatch" THEN Append(g[n - 1], asked[n])
                               ELSE g[n - 1]]

\* A set of natural numbers has a least element.
LEMMA LeastExists ==
  ASSUME NEW T \in SUBSET Nat, T # {}
  PROVE  \E x \in T : \A y \in T : x <= y
<1>1. PICK x \in T : \A y \in T : ~ (<<y, x>> \in OpToRel(<, Nat))
  BY NatLessThanWellFounded, WFMin
<1>2. \A y \in T : ~ (y < x)
  BY <1>1 DEF OpToRel
<1>3. QED
  BY <1>2

StepsAgree(f, h, N) == f[0] = h[0] /\ \A n \in 1..N : f[n - 1] = h[n - 1] => f[n] = h[n]

\* Two functions that agree at 0, and at each number if they agree one below, are the same.
LEMMA AgreeBelow ==
  ASSUME NEW N \in Nat, NEW f, NEW h, StepsAgree(f, h, N)
  PROVE  \A n \in 0..N : f[n] = h[n]
<1> DEFINE T == {n \in 0..N : f[n] # h[n]}
<1> SUFFICES ASSUME T # {} PROVE FALSE
  OBVIOUS
<1>1. T \in SUBSET Nat
  OBVIOUS
<1>2. PICK x \in T : \A y \in T : x <= y
  BY <1>1, LeastExists
<1>3. x \in 1..N /\ x - 1 \in 0..N /\ ~ (x <= x - 1)
  <2>1. x \in 0..N /\ x # 0
    BY <1>2 DEF StepsAgree
  <2>2. QED
    BY <2>1
<1>4. x - 1 \notin T
  BY <1>2, <1>3
<1>5. f[x - 1] = h[x - 1]
  BY <1>3, <1>4
<1>6. QED
  BY <1>2, <1>3, <1>5 DEF StepsAgree

\* MemoryAfter meets its definition, and whatever does is MemoryAfter.
LEMMA MemoryAfterIs ==
  ASSUME Len(asked) \in Nat, NEW f, MeansMemory(f)
  PROVE  \A n \in 0..Len(asked) : MemoryAfter[n] = f[n]
<1> DEFINE P(g) == g = [n \in 0..Len(asked) |-> IF n = 0 THEN ZeroMemory ELSE Effect(g[n - 1], asked[n])]
<1>1. P(f)
  BY DEF MeansMemory
<1>2. MemoryAfter = CHOOSE g : P(g)
  BY DEF MemoryAfter
<1>3. P(CHOOSE g : P(g))
  <2> HIDE DEF P
  <2> QED BY <1>1
<1>4. P(MemoryAfter)
  <2> HIDE DEF P
  <2> QED BY <1>2, <1>3
<1>5. ASSUME NEW g, P(g)
      PROVE  g[0] = ZeroMemory /\ \A n \in 1..Len(asked) : g[n] = Effect(g[n - 1], asked[n])
  <2>1. 0 \in 0..Len(asked) /\ \A n \in 1..Len(asked) : n \in 0..Len(asked) /\ n # 0
    OBVIOUS
  <2>2. QED
    BY <2>1, <1>5
<1> HIDE DEF P
<1>6. f[0] = ZeroMemory /\ \A n \in 1..Len(asked) : f[n] = Effect(f[n - 1], asked[n])
  BY <1>1, <1>5
<1>7. MemoryAfter[0] = ZeroMemory /\ \A n \in 1..Len(asked) : MemoryAfter[n] = Effect(MemoryAfter[n - 1], asked[n])
  BY <1>4, <1>5
<1>8. PICK h : h = MemoryAfter
  OBVIOUS
<1>9. h[0] = f[0] /\ \A n \in 1..Len(asked) : h[n - 1] = f[n - 1] => h[n] = f[n]
  <2>1. /\ h[0] = f[0]
        /\ \A n \in 1..Len(asked) : h[n] = Effect(h[n - 1], asked[n]) /\ f[n] = Effect(f[n - 1], asked[n])
    BY <1>6, <1>7, <1>8
  <2>2. QED
    BY <2>1
<1>10. \A n \in 0..Len(asked) : h[n] = f[n]
  <2>1. PICK N \in Nat : N = Len(asked)
    OBVIOUS
  <2>2. StepsAgree(h, f, N)
    BY <2>1, <1>9 DEF StepsAgree
  <2>3. \A n \in 0..N : h[n] = f[n]
    BY <2>1, <2>2, AgreeBelow
  <2>4. QED
    BY <2>1, <2>3
<1>11. QED
  BY <1>8, <1>10

\* Dispatched meets its definition, and whatever does is Dispatched.
LEMMA DispatchedIs ==
  ASSUME Len(asked) \in Nat, NEW f, MeansCalls(f)
  PROVE  \A n \in 0..Len(asked) : Dispatched[n] = f[n]
<1> DEFINE Then(s, n) == IF asked[n].kind = "dispatch" THEN Append(s, asked[n]) ELSE s
           P(g) == g = [n \in 0..Len(asked) |-> IF n = 0 THEN <<>>
                               ELSE IF asked[n].kind = "dispatch" THEN Append(g[n - 1], asked[n])
                               ELSE g[n - 1]]
<1>1. P(f)
  BY DEF MeansCalls
<1>2. Dispatched = CHOOSE g : P(g)
  BY DEF Dispatched
<1>3. P(CHOOSE g : P(g))
  <2> HIDE DEF P
  <2> QED BY <1>1
<1>4. P(Dispatched)
  <2> HIDE DEF P
  <2> QED BY <1>2, <1>3
<1>5. ASSUME NEW g, P(g)
      PROVE  g[0] = <<>> /\ \A n \in 1..Len(asked) : g[n] = Then(g[n - 1], n)
  <2>1. 0 \in 0..Len(asked) /\ \A n \in 1..Len(asked) : n \in 0..Len(asked) /\ n # 0
    OBVIOUS
  <2>2. QED
    BY <2>1, <1>5
<1> HIDE DEF P, Then
<1>6. f[0] = <<>> /\ \A n \in 1..Len(asked) : f[n] = Then(f[n - 1], n)
  BY <1>1, <1>5
<1>7. Dispatched[0] = <<>> /\ \A n \in 1..Len(asked) : Dispatched[n] = Then(Dispatched[n - 1], n)
  BY <1>4, <1>5
<1>8. PICK h : h = Dispatched
  OBVIOUS
<1>9. h[0] = f[0] /\ \A n \in 1..Len(asked) : h[n - 1] = f[n - 1] => h[n] = f[n]
  <2>1. /\ h[0] = f[0]
        /\ \A n \in 1..Len(asked) : h[n] = Then(h[n - 1], n) /\ f[n] = Then(f[n - 1], n)
    BY <1>6, <1>7, <1>8
  <2>2. QED
    BY <2>1
<1>10. \A n \in 0..Len(asked) : h[n] = f[n]
  <2>1. PICK N \in Nat : N = Len(asked)
    OBVIOUS
  <2>2. StepsAgree(h, f, N)
    BY <2>1, <1>9 DEF StepsAgree
  <2>3. \A n \in 0..N : h[n] = f[n]
    BY <2>1, <2>2, AgreeBelow
  <2>4. QED
    BY <2>1, <2>3
<1>11. QED
  BY <1>8, <1>10

\* What a command means does not change while the binding table stays.
LEMMA MeaningStays ==
  ASSUME table' = table
  PROVE  /\ \A ref : Bytes(ref)' = Bytes(ref)
         /\ \A m, c : Effect(m, c)' = Effect(m, c)
         /\ \A call, c : CalledAs(call, c)' <=> CalledAs(call, c)
<1>1. \A ref : Bytes(ref)' = Bytes(ref)
  BY DEF Bytes
<1>2. \A m, c : Effect(m, c)' = Effect(m, c)
  BY DEF Effect, Bytes
<1>3. \A c : Call(c)' = Call(c)
  BY DEF Call, Bytes
<1>4. \A call, c : CalledAs(call, c)' <=> CalledAs(call, c)
  BY <1>3 DEF CalledAs
<1>5. QED
  BY <1>1, <1>2, <1>4

\* A recorded command extends both meanings.
LEMMA RecordMeans ==
  ASSUME NEW f, MeansMemory(f), NEW g, MeansCalls(g), g \in [0..Len(asked) -> Seq(Accepted)],
         Recorded, NEW c \in Palette, Record(c)
  PROVE  \E f2, g2 : (MeansMemory(f2) /\ MeansCalls(g2) /\ g2 \in [0..Len(asked) -> Seq(Accepted)])'
<1> DEFINE n == Len(asked)
           nf == Effect(f[n], c)
           ng == IF c.kind = "dispatch" THEN Append(g[n], c) ELSE g[n]
           f2 == [k \in 0..(n + 1) |-> IF k <= n THEN f[k] ELSE nf]
           g2 == [k \in 0..(n + 1) |-> IF k <= n THEN g[k] ELSE ng]
<1>1. c \in Accepted /\ table' = table
  BY DEF Record, Accepted
<1>2. asked \in Seq(Accepted) /\ n \in Nat
  <2>1. asked \in Seq(Accepted)
    BY DEF Recorded
  <2>2. QED
    BY <2>1
<1>3. /\ Len(asked') = n + 1 /\ asked'[n + 1] = c /\ \A k \in 1..n : asked'[k] = asked[k]
  <2>1. asked' = Append(asked, c)
    BY DEF Record
  <2>2. QED
    BY <2>1, <1>1, <1>2
<1>4. \A m, x : Effect(m, x)' = Effect(m, x)
  BY <1>1, MeaningStays
<1>5. n \in 0..n /\ g[n] \in Seq(Accepted)
  BY <1>2
<1>6. ng \in Seq(Accepted)
  <2> HIDE DEF n
  <2> QED BY <1>5, <1>1
<1>7. /\ f = [k \in 0..n |-> IF k = 0 THEN ZeroMemory ELSE Effect(f[k - 1], asked[k])]
      /\ g = [k \in 0..n |-> IF k = 0 THEN <<>>
                               ELSE IF asked[k].kind = "dispatch" THEN Append(g[k - 1], asked[k])
                               ELSE g[k - 1]]
  BY DEF MeansMemory, MeansCalls
<1>8. \A k \in 0..(n + 1) : k = n + 1 \/ (k \in 0..n /\ k <= n /\ (k # 0 => k \in 1..n /\ k - 1 \in 0..n /\ k - 1 <= n))
  BY <1>2
<1>9. n + 1 # 0 /\ ~ (n + 1 <= n) /\ (n + 1) - 1 = n /\ n + 1 \in 0..(n + 1) /\ \A k \in 0..n : k \in 0..(n + 1) /\ k <= n
  BY <1>2
<1> HIDE DEF n, nf, ng
<1>10. /\ \A k \in 0..n : f2[k] = f[k] /\ g2[k] = g[k]
       /\ f2[n + 1] = nf /\ g2[n + 1] = ng
       /\ DOMAIN f2 = 0..(n + 1) /\ DOMAIN g2 = 0..(n + 1)
  BY <1>9
<1>11. g2 \in [0..(n + 1) -> Seq(Accepted)]
  <2>1. \A k \in 0..(n + 1) : (IF k <= n THEN g[k] ELSE ng) \in Seq(Accepted)
    <3>1. \A k \in 0..n : g[k] \in Seq(Accepted)
      BY DEF n
    <3>2. QED
      BY <3>1, <1>6, <1>8, <1>9
  <2>2. QED
    BY <2>1
<1>12. ASSUME NEW k \in 0..(n + 1)
       PROVE  f2[k] = IF k = 0 THEN ZeroMemory ELSE Effect(f2[k - 1], asked'[k])
  <2>1. CASE k = n + 1
    <3>1. f2[k - 1] = f[n] /\ asked'[k] = c /\ k # 0
      BY <2>1, <1>3, <1>5, <1>9, <1>10
    <3>2. f2[k] = nf
      BY <2>1, <1>10
    <3> HIDE DEF f2
    <3>3. QED
      BY <3>1, <3>2 DEF nf
  <2>2. CASE k # n + 1
    <3>1. f2[k] = f[k] /\ f[k] = IF k = 0 THEN ZeroMemory ELSE Effect(f[k - 1], asked[k])
      BY <2>2, <1>7, <1>8, <1>10
    <3>2. k # 0 => f2[k - 1] = f[k - 1] /\ asked'[k] = asked[k]
      BY <2>2, <1>3, <1>8, <1>10
    <3> HIDE DEF f2
    <3>3. QED
      BY <3>1, <3>2
  <2>3. QED
    BY <2>1, <2>2
<1>13. ASSUME NEW k \in 0..(n + 1)
       PROVE  g2[k] = IF k = 0 THEN <<>>
                      ELSE IF asked'[k].kind = "dispatch" THEN Append(g2[k - 1], asked'[k])
                      ELSE g2[k - 1]
  <2>1. CASE k = n + 1
    <3>1. g2[k - 1] = g[n] /\ asked'[k] = c /\ k # 0
      BY <2>1, <1>3, <1>5, <1>9, <1>10
    <3>2. g2[k] = ng
      BY <2>1, <1>10
    <3> HIDE DEF g2
    <3>3. QED
      BY <3>1, <3>2 DEF ng
  <2>2. CASE k # n + 1
    <3>1. g2[k] = g[k] /\ g[k] = IF k = 0 THEN <<>>
                               ELSE IF asked[k].kind = "dispatch" THEN Append(g[k - 1], asked[k])
                               ELSE g[k - 1]
      BY <2>2, <1>7, <1>8, <1>10
    <3>2. k # 0 => g2[k - 1] = g[k - 1] /\ asked'[k] = asked[k]
      BY <2>2, <1>3, <1>8, <1>10
    <3> HIDE DEF g2
    <3>3. QED
      BY <3>1, <3>2
  <2>3. QED
    BY <2>1, <2>2
<1>14. /\ f2 = [k \in 0..(n + 1) |-> f2[k]]
       /\ g2 = [k \in 0..(n + 1) |-> g2[k]]
  OBVIOUS
<1>15. PICK a, b : a = f2 /\ b = g2
  OBVIOUS
<1> HIDE DEF f2, g2
<1>16. a = [k \in 0..(n + 1) |-> IF k = 0 THEN ZeroMemory ELSE Effect(a[k - 1], asked'[k])]
  BY <1>12, <1>14, <1>15
<1>17. b = [k \in 0..(n + 1) |-> IF k = 0 THEN <<>>
                                 ELSE IF asked'[k].kind = "dispatch" THEN Append(b[k - 1], asked'[k])
                                 ELSE b[k - 1]]
  BY <1>13, <1>14, <1>15
<1>18. MeansMemory(a)'
  <2>1. a = [k \in 0..(n + 1) |-> IF k = 0 THEN ZeroMemory ELSE Effect(a[k - 1], asked[k])']
    <3>1. \A k \in 0..(n + 1) : Effect(a[k - 1], asked[k])' = Effect(a[k - 1], asked'[k])
      <4> SUFFICES ASSUME NEW k \in 0..(n + 1) PROVE Effect(a[k - 1], asked[k])' = Effect(a[k - 1], asked'[k])
        OBVIOUS
      <4>1. PICK x : x = asked'[k]
        OBVIOUS
      <4>2. PICK m : m = a[k - 1]
        OBVIOUS
      <4>3. Effect(m, x)' = Effect(m, x)
        BY <1>4
      <4>4. Effect(a[k - 1], asked[k])' = Effect(m, x)'
        BY <4>1, <4>2 DEF Effect
      <4>5. QED
        BY <4>1, <4>2, <4>3, <4>4
    <3>2. QED
      BY <3>1, <1>16
  <2>2. QED
    BY <2>1, <1>3 DEF MeansMemory
<1>19. MeansCalls(b)'
  BY <1>17, <1>3 DEF MeansCalls
<1>20. b \in [0..Len(asked) -> Seq(Accepted)]'
  BY <1>11, <1>15, <1>3
<1>21. QED
  BY <1>18, <1>19, <1>20
------------------------------------------------------------------------------
(* Executing one command.                                                   *)

IsMemory(m) == m = [fd \in DOMAIN AllocSize |-> [i \in 0..(AllocSize[fd] - 1) |-> m[fd][i]]]

\* What the DSP resolves a reference to is what the caller means by it.
LEMMA ResolvedWindow ==
  ASSUME table \in Tables, NEW ref \in Reference, RefIsValid(ref), Resolves(NormalizedRef(ref)),
         NEW z, z = Resolved(NormalizedRef(ref))
  PROVE  /\ z.fd \in DOMAIN AllocSize /\ z.off \in Nat /\ z.len \in Nat
         /\ z.off + z.len <= AllocSize[z.fd]
         /\ Bytes(ref) = Window(z.fd, z.off, z.len)
         /\ IsDirect(ref) \/ ref.len # Whole => z.len = NormalizedRef(ref).len
<1> DEFINE r == NormalizedRef(ref)
<1>1. CASE IsDirect(ref)
  <2>1. /\ r.fd \in DOMAIN AllocSize /\ r.fd # -1 /\ r.off \in Nat /\ r.len \in Nat
        /\ r.off + r.len <= AllocSize[r.fd]
        /\ DirectBytes(ref) = Window(r.fd, r.off, r.len)
    BY <1>1, DirectWindow
  <2> HIDE DEF r
  <2>2. z = [fd |-> r.fd, off |-> r.off, len |-> r.len]
    BY <2>1 DEF Resolved, r
  <2>3. Bytes(ref) = DirectBytes(ref)
    BY <1>1 DEF Bytes
  <2>4. QED
    BY <2>1, <2>2, <2>3 DEF r
<1>2. CASE ~ IsDirect(ref)
  <2>1. r.fd = -1 /\ r.slot = ref.slot /\ r.off = ref.off /\ r.len = ref.len
    BY <1>2 DEF NormalizedRef
  <2>2. ref.slot \in Nat /\ ref.off \in Nat /\ ref.len \in Nat
    BY DEF Reference
  <2>3. table \in Seq(Reference) /\ \A i \in DOMAIN table : IsDirect(table[i]) /\ RefIsValid(table[i])
    BY TablesAssumption
  <2>4. Len(table) \in Nat /\ DOMAIN table = 1..Len(table) /\ \A i \in 1..Len(table) : table[i] \in Reference
    BY <2>3
  <2>5. Len(BindingTable) = Len(table)
    <3>1. BindingTable = [i \in 1..Len(table) |-> NormalizedRef(table[i])]
      BY <2>4 DEF BindingTable
    <3>2. QED
      BY <3>1, <2>4
  <2>6. PICK t : t = table[ref.slot + 1]
    OBVIOUS
  <2> DEFINE b == NormalizedRef(t)
  <2>7. ref.slot < Len(table) /\ ref.slot + 1 \in DOMAIN table
    <3>1. ref.slot < Len(BindingTable)
      BY <2>1 DEF Resolves
    <3>2. QED
      BY <3>1, <2>2, <2>4, <2>5
  <2>8. t \in Reference /\ IsDirect(t) /\ RefIsValid(t) /\ BindingTable[ref.slot + 1] = b
    BY <2>3, <2>4, <2>6, <2>7 DEF BindingTable
  <2>9. /\ b.fd \in DOMAIN AllocSize /\ b.off \in Nat /\ b.len \in Nat
        /\ b.off + b.len <= AllocSize[b.fd] /\ DirectBytes(t) = Window(b.fd, b.off, b.len)
    BY <2>8, DirectWindow
  <2> HIDE DEF r, b
  <2>10. InRange(ref.off, ref.len, b.len)
    BY <2>1, <2>8 DEF Resolves, r
  <2> DEFINE rest == RestIfWhole(ref.off, ref.len, b.len)
  <2>11. /\ rest \in Nat /\ ref.off + rest <= b.len
         /\ Part(Window(b.fd, b.off, b.len), ref.off, ref.len) = Window(b.fd, b.off + ref.off, rest)
    BY <2>2, <2>9, <2>10, PartOfWindow
  <2>12. z = [fd |-> b.fd, off |-> b.off + ref.off, len |-> rest]
    BY <2>1, <2>8 DEF Resolved, r
  <2>13. Bytes(ref) = Window(b.fd, b.off + ref.off, rest)
    BY <1>2, <2>6, <2>9, <2>11 DEF Bytes
  <2>14. ref.len # Whole => rest = ref.len
    BY DEF RestIfWhole
  <2>15. AllocSize[b.fd] \in Nat
    BY <2>9, SizesAssumption
  <2> HIDE DEF rest
  <2>16. (b.off + ref.off) + rest <= AllocSize[b.fd] /\ b.off + ref.off \in Nat
    BY <2>2, <2>9, <2>11, <2>15
  <2>17. QED
    BY <1>2, <2>1, <2>9, <2>11, <2>12, <2>13, <2>14, <2>16 DEF r
<1>3. QED
  BY <1>1, <1>2

\* Assigning to a window of an allocation changes that part of it.
LEMMA AssignWindow ==
  ASSUME NEW m, IsMemory(m), NEW fd \in DOMAIN AllocSize, NEW first \in Nat, NEW len \in Nat,
         first + len <= AllocSize[fd], NEW value, NEW v,
         \A i \in 0..(len - 1) : v[i] = value[i + 1]
  PROVE  /\ Assign(m, Window(fd, first, len), value) =
              [m EXCEPT ![fd] = [i \in DOMAIN @ |-> IF i >= first /\ i < first + len THEN v[i - first] ELSE @[i]]]
         /\ IsMemory(Assign(m, Window(fd, first, len), value))
<1> DEFINE W == Window(fd, first, len)
           K(f, i) == {n \in DOMAIN W : W[n] = <<f, i>>}
           A == Assign(m, W, value)
           new == [i \in DOMAIN m[fd] |-> IF i >= first /\ i < first + len THEN v[i - first] ELSE m[fd][i]]
<1>1. DOMAIN m = DOMAIN AllocSize /\ \A f \in DOMAIN AllocSize : DOMAIN m[f] = 0..(AllocSize[f] - 1)
  BY DEF IsMemory
<1>2. DOMAIN W = 1..len /\ \A n \in 1..len : W[n] = <<fd, first + n - 1>>
  BY DEF Window
<1>3. A = [f \in DOMAIN m |-> [i \in DOMAIN m[f] |-> IF K(f, i) = {} THEN m[f][i] ELSE value[CHOOSE n \in K(f, i) : TRUE]]]
  BY DEF Assign
<1> HIDE DEF W, A
<1>4. ASSUME NEW f, NEW i \in Int
      PROVE  /\ f = fd /\ i >= first /\ i < first + len => K(f, i) = {i - first + 1}
             /\ ~ (f = fd /\ i >= first /\ i < first + len) => K(f, i) = {}
  <2>1. \A n \in 1..len : W[n] = <<f, i>> <=> f = fd /\ i = first + n - 1
    <3>1. \A y : <<fd, y>> = <<f, i>> <=> f = fd /\ i = y
      OBVIOUS
    <3>2. QED
      BY <3>1, <1>2
  <2>2. \A n \in 1..len : i = first + n - 1 <=> n = i - first + 1
    OBVIOUS
  <2>3. i >= first /\ i < first + len <=> i - first + 1 \in 1..len
    OBVIOUS
  <2>4. QED
    BY <2>1, <2>2, <2>3, <1>2
<1>5. \A x : (CHOOSE n \in {x} : TRUE) = x
  OBVIOUS
<1>6. ASSUME NEW f \in DOMAIN m, NEW i \in DOMAIN m[f]
      PROVE  A[f][i] = IF f = fd THEN new[i] ELSE m[f][i]
  <2>1. A[f][i] = IF K(f, i) = {} THEN m[f][i] ELSE value[CHOOSE n \in K(f, i) : TRUE]
    BY <1>3, <1>6
  <2>2. i \in Int
    <3>1. i \in 0..(AllocSize[f] - 1) /\ AllocSize[f] \in Nat
      BY <1>1, <1>6, SizesAssumption
    <3>2. QED
      BY <3>1
  <2>3. CASE f = fd /\ i >= first /\ i < first + len
    <3>1. K(f, i) = {i - first + 1}
      BY <2>2, <2>3, <1>4
    <3>2. A[f][i] = value[i - first + 1]
      <4>1. K(f, i) # {} /\ (CHOOSE n \in K(f, i) : TRUE) = i - first + 1
        <5> HIDE DEF K
        <5> QED BY <3>1, <1>5
      <4>2. QED
        BY <4>1, <2>1
    <3>3. i - first \in 0..(len - 1)
      BY <2>2, <2>3
    <3>4. v[i - first] = value[i - first + 1]
      BY <3>3
    <3>5. new[i] = v[i - first]
      BY <2>3
    <3>6. QED
      BY <3>2, <3>4, <3>5, <2>3
  <2>4. CASE ~ (f = fd /\ i >= first /\ i < first + len)
    <3>1. K(f, i) = {}
      BY <2>2, <2>4, <1>4
    <3>2. A[f][i] = m[f][i]
      BY <2>1, <3>1
    <3>3. f = fd => new[i] = m[f][i]
      BY <2>4
    <3>4. QED
      BY <3>2, <3>3
  <2>5. QED
    BY <2>3, <2>4
<1>7. /\ A = [f \in DOMAIN m |-> A[f]]
      /\ \A f \in DOMAIN m : A[f] = [i \in DOMAIN m[f] |-> A[f][i]]
  BY <1>3
<1>8. \A f \in DOMAIN m : m[f] = [i \in DOMAIN m[f] |-> m[f][i]]
  BY <1>1 DEF IsMemory
<1>9. ASSUME NEW f \in DOMAIN m PROVE A[f] = IF f = fd THEN new ELSE m[f]
  <2>1. CASE f = fd
    <3>1. \A i \in DOMAIN m[f] : A[f][i] = new[i]
      BY <2>1, <1>6
    <3>2. new = [i \in DOMAIN m[f] |-> new[i]]
      BY <2>1
    <3> HIDE DEF new
    <3>3. A[f] = [i \in DOMAIN m[f] |-> A[f][i]]
      BY <1>7
    <3>4. QED
      BY <3>1, <3>2, <3>3, <2>1
  <2>2. CASE f # fd
    <3>1. \A i \in DOMAIN m[f] : A[f][i] = m[f][i]
      BY <2>2, <1>6
    <3>2. A[f] = [i \in DOMAIN m[f] |-> A[f][i]]
      BY <1>7
    <3>3. m[f] = [i \in DOMAIN m[f] |-> m[f][i]]
      BY <1>8
    <3>4. QED
      BY <3>1, <3>2, <3>3, <2>2
  <2>3. QED
    BY <2>1, <2>2
<1>10. [m EXCEPT ![fd] = new] = [f \in DOMAIN m |-> IF f = fd THEN new ELSE m[f]]
  <2> HIDE DEF new
  <2> QED OBVIOUS
<1>11. A = [m EXCEPT ![fd] = new]
  <2> HIDE DEF new
  <2> QED BY <1>7, <1>9, <1>10
<1>12. IsMemory(A)
  <2>1. \A f \in DOMAIN AllocSize : A[f] = [i \in 0..(AllocSize[f] - 1) |-> A[f][i]]
    BY <1>1, <1>7
  <2>2. QED
    BY <2>1, <1>1, <1>7 DEF IsMemory
<1>13. QED
  BY <1>11, <1>12 DEF A, W

\* The command a walk executes, and its references.
LEMMA ExecutesCommand ==
  ASSUME NEW off, NEW w, NEW d, Layout(off, w, d), Recorded, Progress(off, w),
         NEW kind, CanExecute(kind), NEW c, c = asked[at.entry + 1]
  PROVE  /\ c \in Accepted /\ c.kind = kind /\ at.entry < Len(asked)
         /\ Cmd = HeadOf(c) /\ References = RefList(c) /\ DOMAIN References = 1..Len(RefsOf(c))
         /\ kind = "dispatch" => Constants = [i \in 1..Words(c) |-> i]
         /\ \A i \in 1..Len(RefsOf(c)) :
              /\ RefsOf(c)[i] \in Reference /\ RefIsValid(RefsOf(c)[i])
              /\ RefList(c)[i] = NormalizedRef(RefsOf(c)[i]) /\ Resolves(NormalizedRef(RefsOf(c)[i]))
<1>1. phase = "execute" /\ MoreToRead /\ Cmd.t = kind /\ \A i \in DOMAIN References : Resolves(References[i])
  BY DEF CanExecute
<1>2. /\ at.entry < Len(asked) /\ c \in Accepted /\ Cmd = HeadOf(c) /\ Cmd.t = c.kind
      /\ References = RefList(c) /\ DOMAIN References = 1..Len(RefsOf(c))
      /\ c.kind = "dispatch" => Constants = [i \in 1..Words(c) |-> i]
  BY <1>1, ReadsCommand DEF Walking
<1>3. RefsOf(c) \in Seq(Reference) /\ \A i \in DOMAIN RefsOf(c) : RefIsValid(RefsOf(c)[i])
  BY <1>2, AcceptedKind
<1>4. DOMAIN RefsOf(c) = 1..Len(RefsOf(c)) /\ \A i \in 1..Len(RefsOf(c)) : RefsOf(c)[i] \in Reference
  BY <1>3
<1>5. \A i \in 1..Len(RefsOf(c)) : RefList(c)[i] = NormalizedRef(RefsOf(c)[i])
  BY DEF RefList
<1>6. \A i \in 1..Len(RefsOf(c)) : Resolves(RefList(c)[i])
  BY <1>1, <1>2
<1>7. QED
  BY <1>1, <1>2, <1>3, <1>4, <1>5, <1>6

\* A copy moves the bytes the caller named.
LEMMA CopyDoes ==
  ASSUME NEW off, NEW w, NEW d, Layout(off, w, d), Recorded, Progress(off, w),
         table \in Tables, IsMemory(mem), ExecCopy, NEW c, c = asked[at.entry + 1]
  PROVE  c.kind = "copy" /\ mem' = Effect(mem, c) /\ IsMemory(Effect(mem, c))
<1>1. CanExecute("copy")
  BY DEF ExecCopy
<1>2. /\ c \in Accepted /\ c.kind = "copy" /\ Cmd = HeadOf(c)
      /\ \A i \in 1..Len(RefsOf(c)) :
           /\ RefsOf(c)[i] \in Reference /\ RefIsValid(RefsOf(c)[i])
           /\ RefList(c)[i] = NormalizedRef(RefsOf(c)[i]) /\ Resolves(NormalizedRef(RefsOf(c)[i]))
  BY <1>1, ExecutesCommand
<1>3. RefsOf(c) = <<c.src, c.trgt>> /\ Len(RefsOf(c)) = 2 /\ RefsOf(c)[1] = c.src /\ RefsOf(c)[2] = c.trgt
  BY <1>2 DEF RefsOf
<1>4. /\ c.src \in Reference /\ RefIsValid(c.src) /\ RefList(c)[1] = NormalizedRef(c.src) /\ Resolves(NormalizedRef(c.src))
      /\ c.trgt \in Reference /\ RefIsValid(c.trgt) /\ RefList(c)[2] = NormalizedRef(c.trgt) /\ Resolves(NormalizedRef(c.trgt))
  <2>1. 1 \in 1..Len(RefsOf(c)) /\ 2 \in 1..Len(RefsOf(c))
    BY <1>3
  <2>2. QED
    BY <2>1, <1>2, <1>3
<1>5. Cmd.v = RefList(c)
  <2>1. HeadOf(c) = Item("copy", RefList(c))
    BY <1>2, SerializedShape
  <2>2. QED
    BY <2>1, <1>2 DEF Item
<1>6. PICK s : s = Resolved(NormalizedRef(c.src))
  OBVIOUS
<1>7. PICK t : t = Resolved(NormalizedRef(c.trgt))
  OBVIOUS
<1>8. /\ s.fd \in DOMAIN AllocSize /\ s.off \in Nat /\ s.len \in Nat
      /\ s.off + s.len <= AllocSize[s.fd] /\ Bytes(c.src) = Window(s.fd, s.off, s.len)
  BY <1>4, <1>6, ResolvedWindow
<1>9. /\ t.fd \in DOMAIN AllocSize /\ t.off \in Nat /\ t.len \in Nat
      /\ t.off + t.len <= AllocSize[t.fd] /\ Bytes(c.trgt) = Window(t.fd, t.off, t.len)
  BY <1>4, <1>7, ResolvedWindow
<1>10. PICK n : n = IF t.len < s.len THEN t.len ELSE s.len
  OBVIOUS
<1>11. n \in Nat /\ n <= t.len /\ n <= s.len /\ t.off + n <= AllocSize[t.fd] /\ n # Whole
  <2>1. n \in Nat /\ n <= t.len /\ n <= s.len
    BY <1>8, <1>9, <1>10
  <2>2. AllocSize[t.fd] \in Nat /\ AllocSize[t.fd] < Whole /\ Whole \in Nat
    BY <1>9, SizesAssumption
  <2>3. QED
    BY <2>1, <2>2, <1>9
<1> DEFINE v == [i \in 0..(n - 1) |-> mem[s.fd][s.off + i]]
           W == Window(t.fd, t.off, n)
           from == Window(s.fd, s.off, s.len)
           value == [k \in 1..n |-> mem[from[k][1]][from[k][2]]]
<1>12. mem' = [mem EXCEPT ![t.fd] =
                 [i \in DOMAIN @ |-> IF i >= t.off /\ i < t.off + n THEN v[i - t.off] ELSE @[i]]]
  <2>1. Cmd.v[1] = NormalizedRef(c.src) /\ Cmd.v[2] = NormalizedRef(c.trgt)
    BY <1>4, <1>5
  <2>2. Resolved(Cmd.v[1]) = s /\ Resolved(Cmd.v[2]) = t
    BY <2>1, <1>6, <1>7
  <2>3. QED
    BY <2>2, <1>10 DEF ExecCopy, Stored
<1>13. Len(Bytes(c.src)) = s.len /\ Len(Bytes(c.trgt)) = t.len
  BY <1>8, <1>9 DEF Window
<1>14. SubSeq(Bytes(c.trgt), 1, n) = W
  <2>1. InRange(0, n, t.len)
    BY <1>9, <1>11 DEF InRange
  <2>2. RestIfWhole(0, n, t.len) = n /\ Part(Window(t.fd, t.off, t.len), 0, n) = SubSeq(Window(t.fd, t.off, t.len), 0 + 1, 0 + n)
    BY <1>11 DEF RestIfWhole, Part
  <2>3. Part(Window(t.fd, t.off, t.len), 0, n) = Window(t.fd, t.off + 0, n)
    <3>1. PICK z \in Nat : z = 0
      OBVIOUS
    <3>2. InRange(z, n, t.len)
      BY <2>1, <3>1
    <3>3. Part(Window(t.fd, t.off, t.len), z, n) = Window(t.fd, t.off + z, RestIfWhole(z, n, t.len))
      BY <3>2, <1>9, <1>11, PartOfWindow
    <3>4. QED
      BY <3>1, <3>3, <2>2
  <2>4. 0 + 1 = 1 /\ 0 + n = n /\ t.off + 0 = t.off
    BY <1>9, <1>11
  <2>5. QED
    BY <2>2, <2>3, <2>4, <1>9
<1>15. Effect(mem, c) = Assign(mem, W, value)
  <2>1. n = IF Len(Bytes(c.src)) < Len(Bytes(c.trgt)) THEN Len(Bytes(c.src)) ELSE Len(Bytes(c.trgt))
    BY <1>8, <1>9, <1>10, <1>13
  <2> HIDE DEF W, v
  <2>2. Effect(mem, c) = Assign(mem, SubSeq(Bytes(c.trgt), 1, n), [k \in 1..n |-> mem[Bytes(c.src)[k][1]][Bytes(c.src)[k][2]]])
    BY <2>1, <1>2 DEF Effect
  <2>3. QED
    BY <2>2, <1>14, <1>8
<1>16. \A i \in 0..(n - 1) : v[i] = value[i + 1]
  <2> SUFFICES ASSUME NEW i \in 0..(n - 1) PROVE v[i] = value[i + 1]
    OBVIOUS
  <2>1. i + 1 \in 1..n /\ i + 1 \in 1..s.len /\ s.off + (i + 1) - 1 = s.off + i
    BY <1>8, <1>11
  <2>2. from[i + 1] = <<s.fd, s.off + i>>
    BY <2>1 DEF Window
  <2> HIDE DEF from
  <2>3. value[i + 1] = mem[from[i + 1][1]][from[i + 1][2]]
    BY <2>1
  <2>4. from[i + 1][1] = s.fd /\ from[i + 1][2] = s.off + i
    BY <2>2
  <2>5. v[i] = mem[s.fd][s.off + i]
    OBVIOUS
  <2>6. QED
    BY <2>3, <2>4, <2>5
<1> HIDE DEF v, value, from
<1>17. PICK val, u, m : val = value /\ u = v /\ m = mem
  OBVIOUS
<1>18. /\ Assign(m, Window(t.fd, t.off, n), val) =
            [m EXCEPT ![t.fd] = [i \in DOMAIN @ |-> IF i >= t.off /\ i < t.off + n THEN u[i - t.off] ELSE @[i]]]
       /\ IsMemory(Assign(m, Window(t.fd, t.off, n), val))
  BY <1>9, <1>11, <1>16, <1>17, AssignWindow, SMTT(30)
<1>19. QED
  BY <1>2, <1>12, <1>15, <1>17, <1>18

\* A fill writes the pattern to the bytes the caller named, if it knows how many they are.
LEMMA FillDoes ==
  ASSUME NEW off, NEW w, NEW d, Layout(off, w, d), Recorded, Progress(off, w),
         table \in Tables, IsMemory(mem), ExecFill, NEW c, c = asked[at.entry + 1],
         IsDirect(c.trgt) \/ c.trgt.len # Whole
  PROVE  c.kind = "fill" /\ mem' = Effect(mem, c) /\ IsMemory(Effect(mem, c))
<1>1. CanExecute("fill")
  BY DEF ExecFill
<1>2. /\ c \in Accepted /\ c.kind = "fill" /\ Cmd = HeadOf(c)
      /\ \A i \in 1..Len(RefsOf(c)) :
           /\ RefsOf(c)[i] \in Reference /\ RefIsValid(RefsOf(c)[i])
           /\ RefList(c)[i] = NormalizedRef(RefsOf(c)[i]) /\ Resolves(NormalizedRef(RefsOf(c)[i]))
  BY <1>1, ExecutesCommand
<1>3. RefsOf(c) = <<c.trgt>> /\ Len(RefsOf(c)) = 1 /\ RefsOf(c)[1] = c.trgt
  BY <1>2 DEF RefsOf
<1>4. c.trgt \in Reference /\ RefIsValid(c.trgt) /\ RefList(c)[1] = NormalizedRef(c.trgt) /\ Resolves(NormalizedRef(c.trgt))
  <2>1. 1 \in 1..Len(RefsOf(c))
    BY <1>3
  <2>2. QED
    BY <2>1, <1>2, <1>3
<1>5. Cmd.v = [n |-> Len(c.pattern), pattern |-> Padded(c.pattern), trgt |-> NormalizedRef(c.trgt)]
  <2>1. HeadOf(c) = Item("fill", [n |-> Len(c.pattern), pattern |-> Padded(c.pattern), trgt |-> RefList(c)[1]])
    BY <1>2, SerializedShape
  <2>2. QED
    BY <2>1, <1>2, <1>4 DEF Item
<1>6. Cmd.v.n = Len(c.pattern) /\ Cmd.v.pattern = Padded(c.pattern) /\ Cmd.v.trgt = NormalizedRef(c.trgt)
  BY <1>5
<1>7. PICK t : t = Resolved(NormalizedRef(c.trgt))
  OBVIOUS
<1>8. /\ t.fd \in DOMAIN AllocSize /\ t.off \in Nat /\ t.len \in Nat
      /\ t.off + t.len <= AllocSize[t.fd] /\ Bytes(c.trgt) = Window(t.fd, t.off, t.len)
      /\ t.len = NormalizedRef(c.trgt).len
  BY <1>4, <1>7, ResolvedWindow
<1>9. c.pattern \in Seq(Nat) /\ Len(c.pattern) \in 1..4
  BY <1>2, AcceptedKind
<1> DEFINE n == t.len
           p == Len(c.pattern)
           v == [i \in 0..(n - 1) |-> Padded(c.pattern)[(i % p) + 1]]
           W == Window(t.fd, t.off, n)
           value == [k \in 1..n |-> c.pattern[((k - 1) % p) + 1]]
<1>10. mem' = [mem EXCEPT ![t.fd] =
                 [i \in DOMAIN @ |-> IF i >= t.off /\ i < t.off + n THEN v[i - t.off] ELSE @[i]]]
  <2>1. Resolved(Cmd.v.trgt) = t /\ Cmd.v.trgt.len = n
    BY <1>6, <1>7, <1>8
  <2>2. Stored(Resolved(Cmd.v.trgt).fd, Resolved(Cmd.v.trgt).off, Cmd.v.trgt.len,
               [i \in 0..(Cmd.v.trgt.len - 1) |-> Cmd.v.pattern[(i % Cmd.v.n) + 1]])
    BY DEF ExecFill
  <2>3. [i \in 0..(Cmd.v.trgt.len - 1) |-> Cmd.v.pattern[(i % Cmd.v.n) + 1]] = v
    BY <2>1, <1>6
  <2> HIDE DEF v
  <2>4. Stored(t.fd, t.off, n, v)
    BY <2>1, <2>2, <2>3
  <2>5. QED
    BY <2>4 DEF Stored
<1>11. DOMAIN Bytes(c.trgt) = 1..n
  BY <1>8 DEF Window
<1>12. Effect(mem, c) = Assign(mem, W, value)
  <2>1. Effect(mem, c) = Assign(mem, Bytes(c.trgt), [k \in DOMAIN Bytes(c.trgt) |-> c.pattern[((k - 1) % p) + 1]])
    BY <1>2 DEF Effect
  <2>2. QED
    BY <2>1, <1>8, <1>11
<1>13. \A i \in 0..(n - 1) : v[i] = value[i + 1]
  <2> SUFFICES ASSUME NEW i \in 0..(n - 1) PROVE v[i] = value[i + 1]
    OBVIOUS
  <2>1. i \in Nat /\ i + 1 \in 1..n /\ (i + 1) - 1 = i /\ p \in 1..4
    BY <1>8, <1>9
  <2>2. (i % p) + 1 \in 1..4 /\ (i % p) + 1 <= p
    <3> HIDE DEF p
    <3>1. i % p \in 0..(p - 1)
      BY <2>1
    <3>2. QED
      BY <2>1, <3>1
  <2>3. Padded(c.pattern)[(i % p) + 1] = c.pattern[(i % p) + 1]
    BY <2>2 DEF Padded
  <2>4. value[i + 1] = c.pattern[(i % p) + 1]
    BY <2>1
  <2>5. QED
    BY <2>3, <2>4
<1> HIDE DEF v, value
<1>14. PICK val, u, m : val = value /\ u = v /\ m = mem
  OBVIOUS
<1>15. /\ Assign(m, Window(t.fd, t.off, n), val) =
            [m EXCEPT ![t.fd] = [i \in DOMAIN @ |-> IF i >= t.off /\ i < t.off + n THEN u[i - t.off] ELSE @[i]]]
       /\ IsMemory(Assign(m, Window(t.fd, t.off, n), val))
  BY <1>8, <1>13, <1>14, AssignWindow
<1>16. QED
  BY <1>2, <1>10, <1>12, <1>14, <1>15

\* A dispatch calls its kernel with what the caller named.
LEMMA DispatchDoes ==
  ASSUME NEW off, NEW w, NEW d, Layout(off, w, d), Recorded, Progress(off, w),
         table \in Tables, ExecDispatch, NEW c, c = asked[at.entry + 1]
  PROVE  c.kind = "dispatch" /\ \E call : calls' = Append(calls, call) /\ CalledAs(call, c)
<1>1. CanExecute("dispatch")
  BY DEF ExecDispatch
<1>2. /\ c \in Accepted /\ c.kind = "dispatch" /\ Cmd = HeadOf(c)
      /\ References = RefList(c) /\ DOMAIN References = 1..Len(RefsOf(c))
      /\ Constants = [i \in 1..Words(c) |-> i]
      /\ \A i \in 1..Len(RefsOf(c)) :
           /\ RefsOf(c)[i] \in Reference /\ RefIsValid(RefsOf(c)[i])
           /\ RefList(c)[i] = NormalizedRef(RefsOf(c)[i]) /\ Resolves(NormalizedRef(RefsOf(c)[i]))
  BY <1>1, ExecutesCommand
<1>3. /\ c.wgSize \in [1..3 -> Nat] /\ c.wgCount \in [1..3 -> Nat] /\ c.wgSize[3] <= U16Max
      /\ RefsOf(c) \in Seq(Reference)
  BY <1>2, AcceptedKind
<1>4. RefsOf(c) = c.bindings /\ DOMAIN c.bindings = 1..Len(RefsOf(c))
  BY <1>2, <1>3 DEF RefsOf
<1> DEFINE bound == [i \in 1..Len(RefsOf(c)) |-> Resolved(NormalizedRef(RefsOf(c)[i]))]
           call == [fn |-> c.fn, size |-> WorkgroupSize(c.wgSize), count |-> WorkgroupCount(c.wgCount),
                    cons |-> [i \in 1..Words(c) |-> i], bindings |-> bound]
<1>5. calls' = Append(calls, call)
  <2>1. Cmd.v.fn = c.fn /\ Cmd.v.size = WorkgroupSize(c.wgSize) /\ Cmd.v.count = WorkgroupCount(c.wgCount)
    <3>1. HeadOf(c) = Item("dispatch", [fn |-> c.fn, size |-> WorkgroupSize(c.wgSize),
                             count |-> WorkgroupCount(c.wgCount),
                             cons |-> Words(c), refs |-> Len(RefsOf(c))])
      BY <1>2, SerializedShape
    <3>2. QED
      BY <3>1, <1>2 DEF Item
  <2>2. [i \in DOMAIN References |-> Resolved(References[i])] = bound
    BY <1>2
  <2>3. calls' = Append(calls, [fn |-> Cmd.v.fn, size |-> Cmd.v.size, count |-> Cmd.v.count, cons |-> Constants,
                                bindings |-> [i \in DOMAIN References |-> Resolved(References[i])]])
    BY DEF ExecDispatch
  <2> HIDE DEF bound
  <2>4. QED
    BY <1>2, <2>1, <2>2, <2>3
<1>6. c.wgCount[3] <= U16Max => WorkgroupCount(c.wgCount) = c.wgCount
  <2> SUFFICES ASSUME c.wgCount[3] <= U16Max PROVE WorkgroupCount(c.wgCount) = c.wgCount
    OBVIOUS
  <2>1. c.wgCount[3] \in Nat /\ U16Max \in Nat
    BY <1>3, SizesAssumption
  <2>2. Narrow(c.wgCount[3]) = c.wgCount[3]
    BY <2>1 DEF Narrow
  <2>3. WorkgroupCount(c.wgCount) = <<c.wgCount[1], c.wgCount[2], c.wgCount[3]>>
    BY <2>2 DEF WorkgroupCount
  <2>4. <<c.wgCount[1], c.wgCount[2], c.wgCount[3]>> = c.wgCount
    BY <1>3
  <2>5. QED
    BY <2>3, <2>4
<1>7. WorkgroupSize(c.wgSize) = [i \in 1..3 |-> IF c.wgSize[i] = 0 THEN 1 ELSE c.wgSize[i]]
  <2>1. c.wgSize[3] \in Nat /\ U16Max \in Nat /\ U16Max # 0
    BY <1>3, SizesAssumption
  <2>2. Narrow(AtLeastOne(c.wgSize[3])) = AtLeastOne(c.wgSize[3])
    <3>1. AtLeastOne(c.wgSize[3]) \in Nat /\ AtLeastOne(c.wgSize[3]) <= U16Max
      BY <2>1, <1>3 DEF AtLeastOne
    <3>2. QED
      BY <3>1, <2>1 DEF Narrow
  <2>3. WorkgroupSize(c.wgSize) = <<AtLeastOne(c.wgSize[1]), AtLeastOne(c.wgSize[2]), AtLeastOne(c.wgSize[3])>>
    BY <2>2 DEF WorkgroupSize
  <2>4. QED
    BY <2>3 DEF AtLeastOne
<1>8. ASSUME NEW i \in 1..Len(RefsOf(c))
      PROVE  BytesOf([fd |-> bound[i].fd, base |-> bound[i].off, len |-> bound[i].len]) = Bytes(RefsOf(c)[i])
  <2>1. PICK z : z = bound[i]
    OBVIOUS
  <2>2. z = Resolved(NormalizedRef(RefsOf(c)[i]))
    BY <2>1
  <2>3. PICK r : r = RefsOf(c)[i]
    OBVIOUS
  <2>4. r \in Reference /\ RefIsValid(r) /\ Resolves(NormalizedRef(r)) /\ z = Resolved(NormalizedRef(r))
    BY <1>2, <2>2, <2>3
  <2>5. Bytes(r) = Window(z.fd, z.off, z.len)
    BY <2>4, ResolvedWindow
  <2>6. BytesOf([fd |-> z.fd, base |-> z.off, len |-> z.len]) = Window(z.fd, z.off, z.len)
    BY DEF BytesOf, Window
  <2> HIDE DEF bound
  <2>7. QED
    BY <2>1, <2>3, <2>5, <2>6
<1>9. [i \in DOMAIN bound |-> BytesOf([fd |-> bound[i].fd, base |-> bound[i].off, len |-> bound[i].len])]
        = [i \in DOMAIN c.bindings |-> Bytes(c.bindings[i])]
  <2>1. DOMAIN bound = 1..Len(RefsOf(c))
    OBVIOUS
  <2> HIDE DEF bound
  <2>2. QED
    BY <1>4, <1>8, <2>1
<1>10. Words(c) = c.conBytes \div 4
  BY DEF Words
<1>11. CalledAs(call, c)
  <2> HIDE DEF bound
  <2>1. /\ call.fn = c.fn /\ call.size = WorkgroupSize(c.wgSize) /\ call.count = WorkgroupCount(c.wgCount)
        /\ call.cons = [i \in 1..Words(c) |-> i] /\ call.bindings = bound
    OBVIOUS
  <2> HIDE DEF call
  <2>2. QED
    BY <2>1, <1>6, <1>7, <1>9, <1>10 DEF CalledAs, Call
<1>12. QED
  BY <1>2, <1>5, <1>11
------------------------------------------------------------------------------
(* Execution, command by command.                                           *)

Executed(f, g) ==
  /\ IsMemory(mem)
  /\ \E S : calls \in Seq(S)
  /\ phase \in {"record", "size", "copy", "count", "collect"} => mem = ZeroMemory /\ calls = <<>>
  /\ phase \in {"execute", "done"} =>
       /\ mem = f[at.entry] /\ Len(calls) = Len(g[at.entry])
       /\ \A k \in 1..Len(calls) : CalledAs(calls[k], g[at.entry][k])

ExecInv ==
  /\ table \in Tables
  /\ \E f, g : /\ MeansMemory(f) /\ MeansCalls(g) /\ g \in [0..Len(asked) -> Seq(Accepted)]
               /\ Executed(f, g)

\* No fill names the whole rest of a binding (MCRecordingFills shows what becomes of one).
SizedFills == \A c \in Palette : c.kind = "fill" => IsDirect(c.trgt) \/ c.trgt.len # Whole

\* The meaning of the first command, and of one more.
LEMMA MeaningSteps ==
  ASSUME NEW f, MeansMemory(f), NEW g, MeansCalls(g), Len(asked) \in Nat
  PROVE  /\ f[0] = ZeroMemory /\ g[0] = <<>>
         /\ \A n \in 0..(Len(asked) - 1) :
              /\ f[n + 1] = Effect(f[n], asked[n + 1])
              /\ g[n + 1] = IF asked[n + 1].kind = "dispatch" THEN Append(g[n], asked[n + 1]) ELSE g[n]
<1>1. 0 \in 0..Len(asked)
  OBVIOUS
<1>2. f[0] = ZeroMemory /\ g[0] = <<>>
  BY <1>1 DEF MeansMemory, MeansCalls
<1>3. ASSUME NEW n \in 0..(Len(asked) - 1)
      PROVE  /\ f[n + 1] = Effect(f[n], asked[n + 1])
             /\ g[n + 1] = IF asked[n + 1].kind = "dispatch" THEN Append(g[n], asked[n + 1]) ELSE g[n]
  <2>1. PICK k : k = n + 1
    OBVIOUS
  <2>2. k \in 0..Len(asked) /\ k # 0 /\ k - 1 = n
    BY <2>1
  <2>3. f[k] = Effect(f[k - 1], asked[k])
    BY <2>2 DEF MeansMemory
  <2>4. g[k] = IF asked[k].kind = "dispatch" THEN Append(g[k - 1], asked[k]) ELSE g[k - 1]
    BY <2>2 DEF MeansCalls
  <2>5. QED
    BY <2>1, <2>2, <2>3, <2>4
<1>4. QED
  BY <1>2, <1>3

\* A command that is executed does what it means, and the commands before it still did.
LEMMA ExecStep ==
  ASSUME SizedFills, NEW off, NEW w, NEW d, Layout(off, w, d), Recorded, Progress(off, w), table \in Tables,
         NEW f, MeansMemory(f), NEW g, MeansCalls(g), g \in [0..Len(asked) -> Seq(Accepted)], Executed(f, g),
         ExecBarrier \/ ExecCopy \/ ExecFill \/ ExecDispatch
  PROVE  Executed(f, g)'
<1>1. PICK e : e = at.entry
  OBVIOUS
<1>2. PICK c : c = asked[at.entry + 1]
  OBVIOUS
<1>3. /\ phase = "execute" /\ phase' = "execute" /\ UNCHANGED <<asked, table>>
      /\ at' = AfterCmd /\ \E kind : CanExecute(kind)
  BY DEF ExecBarrier, ExecCopy, ExecFill, ExecDispatch, CanExecute, hostVars
<1>4. c \in Accepted /\ e < Len(asked)
  BY <1>1, <1>2, <1>3, ExecutesCommand
<1>5. at'.entry = e + 1
  BY <1>1, <1>3 DEF AfterCmd
<1>6. Len(asked) \in Nat /\ e \in Nat /\ e \in 0..(Len(asked) - 1) /\ e \in 0..Len(asked)
  <2>1. asked \in Seq(Accepted) /\ e \in Nat
    BY <1>1 DEF Recorded, Progress, Position
  <2>2. Len(asked) \in Nat
    BY <2>1
  <2>3. QED
    BY <2>1, <2>2, <1>4
<1>7. /\ f[e + 1] = Effect(f[e], c)
      /\ g[e + 1] = IF c.kind = "dispatch" THEN Append(g[e], c) ELSE g[e]
  BY <1>1, <1>2, <1>6, MeaningSteps
<1>8. /\ IsMemory(mem) /\ mem = f[e] /\ Len(calls) = Len(g[e])
      /\ \A k \in 1..Len(calls) : CalledAs(calls[k], g[e][k])
  BY <1>1, <1>3 DEF Executed
<1>9. PICK S : calls \in Seq(S)
  BY DEF Executed
<1>10. g[e] \in Seq(Accepted)
  BY <1>6
<1>11. mem' = Effect(mem, c) /\ IsMemory(Effect(mem, c))
  <2>1. CASE ExecCopy
    BY <2>1, <1>2, <1>8, CopyDoes
  <2>2. CASE ExecFill
    <3>1. CanExecute("fill")
      BY <2>2 DEF ExecFill
    <3>2. c.kind = "fill" /\ c \in Palette
      BY <3>1, <1>2, <1>4, ExecutesCommand DEF Accepted
    <3>3. IsDirect(c.trgt) \/ c.trgt.len # Whole
      BY <3>2 DEF SizedFills
    <3>4. QED
      BY <2>2, <3>3, <1>2, <1>8, FillDoes
  <2>3. CASE ExecBarrier \/ ExecDispatch
    <3>1. CanExecute("barrier") \/ CanExecute("dispatch")
      BY <2>3 DEF ExecBarrier, ExecDispatch
    <3>2. c.kind \in {"barrier", "dispatch"}
      BY <3>1, <1>2, ExecutesCommand
    <3>3. Effect(mem, c) = mem
      BY <3>2 DEF Effect
    <3>4. mem' = mem
      BY <2>3 DEF ExecBarrier, ExecDispatch
    <3>5. QED
      BY <3>3, <3>4, <1>8
  <2>4. QED
    BY <2>1, <2>2, <2>3
<1>12. mem' = f[e + 1]
  BY <1>7, <1>8, <1>11
<1>13. \A call, x : CalledAs(call, x)' <=> CalledAs(call, x)
  BY <1>3, MeaningStays
<1>14. /\ \E T : calls' \in Seq(T)
       /\ Len(calls') = Len(g[e + 1])
       /\ \A k \in 1..Len(calls') : CalledAs(calls'[k], g[e + 1][k])
  <2>1. CASE ExecDispatch
    <3>1. c.kind = "dispatch" /\ \E call : calls' = Append(calls, call) /\ CalledAs(call, c)
      BY <2>1, <1>2, DispatchDoes
    <3>2. PICK call : calls' = Append(calls, call) /\ CalledAs(call, c)
      BY <3>1
    <3>3. g[e + 1] = Append(g[e], c)
      BY <3>1, <1>7
    <3>4. PICK n \in Nat : n = Len(calls)
      BY <1>9
    <3>5. calls' \in Seq(S \cup {call}) /\ Len(calls') = n + 1 /\ calls'[n + 1] = call
          /\ \A k \in 1..n : calls'[k] = calls[k]
      <4>1. calls \in Seq(S \cup {call}) /\ call \in S \cup {call}
        BY <1>9
      <4>2. QED
        BY <3>2, <3>4, <4>1
    <3>6. Len(g[e + 1]) = n + 1 /\ g[e + 1][n + 1] = c /\ \A k \in 1..n : g[e + 1][k] = g[e][k]
      <4>1. Len(g[e]) = n
        BY <3>4, <1>8
      <4>2. PICK s \in Seq(Accepted) : s = g[e]
        BY <1>10
      <4>3. Len(Append(s, c)) = n + 1 /\ Append(s, c)[n + 1] = c /\ \A k \in 1..n : Append(s, c)[k] = s[k]
        BY <4>1, <4>2, <1>4
      <4>4. QED
        BY <4>2, <4>3, <3>3
    <3>7. \A k \in 1..(n + 1) : CalledAs(calls'[k], g[e + 1][k])
      <4> SUFFICES ASSUME NEW k \in 1..(n + 1) PROVE CalledAs(calls'[k], g[e + 1][k])
        OBVIOUS
      <4>1. CASE k = n + 1
        BY <4>1, <3>2, <3>5, <3>6
      <4>2. CASE k \in 1..n
        BY <4>2, <3>4, <3>5, <3>6, <1>8
      <4>3. QED
        BY <4>1, <4>2
    <3>8. QED
      BY <3>5, <3>6, <3>7
  <2>2. CASE ExecBarrier \/ ExecCopy \/ ExecFill
    <3>1. CanExecute("barrier") \/ CanExecute("copy") \/ CanExecute("fill")
      BY <2>2 DEF ExecBarrier, ExecCopy, ExecFill
    <3>2. c.kind # "dispatch"
      <4>1. c.kind \in {"barrier", "copy", "fill"}
        BY <3>1, <1>2, ExecutesCommand
      <4>2. QED
        BY <4>1
    <3>3. calls' = calls
      BY <2>2 DEF ExecBarrier, ExecCopy, ExecFill
    <3>4. QED
      BY <3>2, <3>3, <1>7, <1>8, <1>9
  <2>3. QED
    BY <2>1, <2>2
<1>15. \A k \in 1..Len(calls') : CalledAs(calls[k], g[at.entry][k])'
  <2> SUFFICES ASSUME NEW k \in 1..Len(calls') PROVE CalledAs(calls[k], g[at.entry][k])'
    OBVIOUS
  <2>1. PICK x, y : x = calls'[k] /\ y = g[e + 1][k]
    OBVIOUS
  <2>2. CalledAs(x, y)'
    BY <2>1, <1>13, <1>14
  <2>3. calls'[k] = x /\ g[at'.entry][k] = y
    BY <2>1, <1>5
  <2>4. QED
    BY <2>2, <2>3 DEF CalledAs, Call
<1>16. IsMemory(mem)'
  BY <1>11 DEF IsMemory
<1>17. QED
  BY <1>3, <1>5, <1>12, <1>14, <1>15, <1>16 DEF Executed

\* All other steps leave memory and calls alone.
LEMMA NoExecStep ==
  ASSUME NEW f, MeansMemory(f), NEW g, MeansCalls(g), Len(asked) \in Nat, Executed(f, g),
         UNCHANGED <<table, mem, calls>>,
         \/ phase \in {"record", "size", "copy", "count", "collect"}
            /\ phase' \in {"record", "size", "copy", "count", "collect"}
         \/ phase' = "error"
         \/ phase \in {"count", "collect"} /\ phase' = "execute" /\ at'.entry = 0
         \/ at' = at /\ (phase' = phase \/ (phase = "execute" /\ phase' = "done"))
  PROVE  Executed(f, g)'
<1>1. IsMemory(mem)' /\ \E S : calls' \in Seq(S)
  BY DEF Executed, IsMemory
<1>2. phase' \in {"record", "size", "copy", "count", "collect"} => mem' = ZeroMemory /\ calls' = <<>>
  BY DEF Executed
<1>3. ASSUME phase' \in {"execute", "done"}
      PROVE  /\ mem' = f[at'.entry] /\ Len(calls') = Len(g[at'.entry])
             /\ \A k \in 1..Len(calls') : CalledAs(calls[k], g[at.entry][k])'
  <2>1. CASE phase \in {"count", "collect"} /\ at'.entry = 0
    <3>1. f[0] = ZeroMemory /\ g[0] = <<>>
      BY MeaningSteps
    <3>2. mem' = ZeroMemory /\ calls' = <<>>
      BY <2>1 DEF Executed
    <3>3. QED
      BY <3>1, <3>2, <2>1
  <2>2. CASE at' = at /\ phase \in {"execute", "done"}
    <3>1. /\ mem = f[at.entry] /\ Len(calls) = Len(g[at.entry])
          /\ \A k \in 1..Len(calls) : CalledAs(calls[k], g[at.entry][k])
      BY <2>2 DEF Executed
    <3>2. \A k \in 1..Len(calls') : CalledAs(calls[k], g[at.entry][k])'
      <4> SUFFICES ASSUME NEW k \in 1..Len(calls') PROVE CalledAs(calls[k], g[at.entry][k])'
        OBVIOUS
      <4>1. PICK x, y : x = calls[k] /\ y = g[at.entry][k]
        OBVIOUS
      <4>2. CalledAs(x, y)'
        BY <4>1, <3>1, MeaningStays
      <4>3. QED
        BY <4>1, <4>2, <2>2 DEF CalledAs, Call
    <3>3. QED
      BY <3>1, <3>2, <2>2
  <2>3. QED
    BY <2>1, <2>2, <1>3
<1>4. QED
  BY <1>1, <1>2, <1>3 DEF Executed

\* An empty recording means nothing and has done nothing.
LEMMA InitExec == Init => ExecInv
<1> SUFFICES ASSUME Init PROVE ExecInv
  OBVIOUS
<1>1. /\ asked = <<>> /\ Len(asked) = 0 /\ table \in Tables /\ phase = "record" /\ mem = ZeroMemory /\ calls = <<>>
  BY DEF Init
<1> DEFINE f == [n \in 0..0 |-> ZeroMemory]
           g == [n \in 0..0 |-> <<>>]
<1>2. MeansMemory(f)
  <2>1. \A n \in 0..0 : n = 0
    OBVIOUS
  <2>2. QED
    BY <1>1, <2>1 DEF MeansMemory
<1>3. MeansCalls(g) /\ g \in [0..Len(asked) -> Seq(Accepted)]
  <2>1. \A n \in 0..0 : n = 0
    OBVIOUS
  <2>2. QED
    BY <1>1, <2>1 DEF MeansCalls
<1>4. IsMemory(mem)
  BY <1>1 DEF IsMemory, ZeroMemory
<1>5. Executed(f, g)
  <2>1. calls \in Seq({})
    BY <1>1
  <2>2. QED
    BY <1>1, <1>4, <2>1 DEF Executed
<1>6. QED
  BY <1>1, <1>2, <1>3, <1>5 DEF ExecInv

\* Every step preserves it.
LEMMA NextExec ==
  ASSUME SizedFills
  PROVE  Inv /\ ExecInv /\ [Next]_vars => ExecInv'
<1> SUFFICES ASSUME Inv, ExecInv, [Next]_vars PROVE ExecInv'
  OBVIOUS
<1>1. PICK off, w, d : Layout(off, w, d) /\ Progress(off, w) /\ Collects(d)
  BY DEF Inv
<1>2. PICK f, g : /\ MeansMemory(f) /\ MeansCalls(g) /\ g \in [0..Len(asked) -> Seq(Accepted)]
                  /\ Executed(f, g)
  BY DEF ExecInv
<1>3. Recorded /\ table \in Tables /\ Len(asked) \in Nat
  <2>1. Recorded /\ asked \in Seq(Accepted) /\ table \in Tables
    BY DEF Inv, ExecInv, Recorded
  <2>2. QED
    BY <2>1
<1>4. CASE \E c \in Palette : Record(c)
  <2>1. PICK c \in Palette : Record(c)
    BY <1>4
  <2>2. PICK f2, g2 : (MeansMemory(f2) /\ MeansCalls(g2) /\ g2 \in [0..Len(asked) -> Seq(Accepted)])'
    BY <2>1, <1>2, <1>3, RecordMeans
  <2>3. phase = "record" /\ UNCHANGED <<table, phase, mem, calls>>
    BY <2>1 DEF Record
  <2>4. IsMemory(mem)' /\ (\E S : calls' \in Seq(S)) /\ mem' = ZeroMemory /\ calls' = <<>>
    BY <2>3, <1>2 DEF Executed, IsMemory
  <2>5. Executed(f2, g2)'
    BY <2>3, <2>4 DEF Executed
  <2>6. QED
    BY <2>2, <2>3, <2>5, <1>3 DEF ExecInv
<1>5. CASE ~ \E c \in Palette : Record(c)
  <2>1. UNCHANGED <<asked, table>>
    <3>1. UNCHANGED hostVars
      BY <1>1, <1>3, <1>5, StepInv DEF Next
    <3>2. QED
      BY <3>1 DEF hostVars
  <2>2. (MeansMemory(f) /\ MeansCalls(g) /\ g \in [0..Len(asked) -> Seq(Accepted)])'
    <3>1. \A m, x : Effect(m, x)' = Effect(m, x)
      BY <2>1, MeaningStays
    <3>2. MeansMemory(f)'
      <4>1. \A n \in 0..Len(asked) : Effect(f[n - 1], asked[n])' = Effect(f[n - 1], asked[n])
        <5> SUFFICES ASSUME NEW n \in 0..Len(asked) PROVE Effect(f[n - 1], asked[n])' = Effect(f[n - 1], asked[n])
          OBVIOUS
        <5>1. PICK m, x : m = f[n - 1] /\ x = asked[n]
          OBVIOUS
        <5>2. Effect(m, x)' = Effect(m, x)
          BY <3>1
        <5>3. Effect(f[n - 1], asked[n])' = Effect(m, x)'
          BY <5>1, <2>1 DEF Effect
        <5>4. QED
          BY <5>1, <5>2, <5>3
      <4>2. QED
        BY <4>1, <2>1, <1>2 DEF MeansMemory
    <3>3. MeansCalls(g)'
      BY <2>1, <1>2 DEF MeansCalls
    <3>4. QED
      BY <2>1, <1>2, <3>2, <3>3
  <2>3. Executed(f, g)'
    <3>1. CASE ExecBarrier \/ ExecCopy \/ ExecFill \/ ExecDispatch
      BY <3>1, <1>1, <1>2, <1>3, ExecStep
    <3>2. CASE End \/ AddSize \/ Sized \/ CopyEntry \/ Sent \/ EndFails
      <4>1. UNCHANGED <<mem, calls>>
        BY <3>2 DEF End, AddSize, Sized, CopyEntry, Sent, EndFails
      <4>2. \/ phase \in {"record", "size", "copy", "count", "collect"}
               /\ phase' \in {"record", "size", "copy", "count", "collect"}
            \/ phase' = "error"
        BY <3>2 DEF End, AddSize, Sized, CopyEntry, Sent, EndFails
      <4>3. QED
        BY <4>1, <4>2, <2>1, <1>2, <1>3, NoExecStep
    <3>3. CASE CountCmd \/ Counted \/ CollectCmd \/ AddDirectBuf \/ Collected
      <4>1. UNCHANGED <<mem, calls>>
        BY <3>3 DEF CountCmd, Counted, CollectCmd, AddDirectBuf, Collected
      <4>2. \/ phase \in {"record", "size", "copy", "count", "collect"}
               /\ phase' \in {"record", "size", "copy", "count", "collect"}
            \/ phase \in {"count", "collect"} /\ phase' = "execute" /\ at'.entry = 0
        BY <3>3 DEF CountCmd, Counted, CollectCmd, AddDirectBuf, Collected, StartOfStream
      <4>3. QED
        BY <4>1, <4>2, <2>1, <1>2, <1>3, NoExecStep
    <3>4. CASE MergeStep \/ MergeDone \/ ExecRefuses \/ ExecDone \/ UNCHANGED vars
      <4>1. UNCHANGED <<mem, calls>>
        BY <3>4 DEF MergeStep, MergeDone, ExecRefuses, ExecDone, vars
      <4>2. \/ phase' = "error"
            \/ at' = at /\ (phase' = phase \/ (phase = "execute" /\ phase' = "done"))
        BY <3>4 DEF MergeStep, MergeDone, ExecRefuses, ExecDone, vars
      <4>3. QED
        BY <4>1, <4>2, <2>1, <1>2, <1>3, NoExecStep
    <3>5. QED
      BY <3>1, <3>2, <3>3, <3>4, <1>5 DEF Next
  <2>4. QED
    BY <2>1, <2>2, <2>3, <1>3 DEF ExecInv
<1>6. QED
  BY <1>4, <1>5

\* ExecutesAsRecorded for any calls, buffers and binding tables, as long as no fill names
\* the whole rest of a binding: memory and kernel calls are what the caller meant.
THEOREM ExecutesAsRecordedHolds ==
  ASSUME SizedFills
  PROVE  Spec => []ExecutesAsRecorded
<1>1. Inv /\ ExecInv => ExecutesAsRecorded
  <2> SUFFICES ASSUME Inv, ExecInv, phase \in {"execute", "done"}
               PROVE  /\ mem = MemoryAfter[at.entry]
                      /\ Len(calls) = Len(Dispatched[at.entry])
                      /\ \A k \in DOMAIN Dispatched[at.entry] : CalledAs(calls[k], Dispatched[at.entry][k])
    BY DEF ExecutesAsRecorded
  <2>1. PICK f, g : /\ MeansMemory(f) /\ MeansCalls(g) /\ g \in [0..Len(asked) -> Seq(Accepted)]
                    /\ Executed(f, g)
    BY DEF ExecInv
  <2>2. asked \in Seq(Accepted) /\ at.entry \in Nat /\ at.entry <= Len(asked)
    BY DEF Inv, Recorded, Progress, Position
  <2>3. Len(asked) \in Nat /\ at.entry \in 0..Len(asked)
    <3>1. Len(asked) \in Nat
      BY <2>2
    <3>2. QED
      BY <2>2, <3>1
  <2>4. MemoryAfter[at.entry] = f[at.entry] /\ Dispatched[at.entry] = g[at.entry]
    BY <2>1, <2>3, MemoryAfterIs, DispatchedIs
  <2>5. /\ mem = f[at.entry] /\ Len(calls) = Len(g[at.entry])
        /\ \A k \in 1..Len(calls) : CalledAs(calls[k], g[at.entry][k])
    BY <2>1 DEF Executed
  <2>6. DOMAIN g[at.entry] = 1..Len(g[at.entry])
    <3>1. PICK s : s = g[at.entry] /\ s \in Seq(Accepted)
      BY <2>1, <2>3
    <3>2. QED
      BY <3>1
  <2>7. QED
    BY <2>4, <2>5, <2>6
<1>2. Inv /\ ExecInv /\ [Next]_vars => ExecInv'
  BY NextExec
<1>3. QED
  BY <1>1, <1>2, InitExec, InvHolds, PTL DEF Spec
============================================================================

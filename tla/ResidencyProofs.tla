-------------------------- MODULE ResidencyProofs --------------------------
(***************************************************************************)
(* The residency cache keeps its books (Inv), for any allocations, holders *)
(* and budget, and implements the pins of PinBudget.tla.                   *)
(***************************************************************************)
EXTENDS Residency, WeightedSumProofs

USE FdAssumption, AllocSizeAssumption, HolderAssumption, BudgetsAssumption,
    CapacityAssumption

\* Bytes is a sum over allocations: a natural number, additive and monotone.
LEMMA BytesFacts ==
  ASSUME NEW S \in SUBSET Fd
  PROVE  /\ IsFiniteSet(S)
         /\ Bytes(S) \in Nat
         /\ \A fd \in Fd \ S : Bytes(S \cup {fd}) = Bytes(S) + AllocSize[fd]
         /\ \A fd \in S : /\ Bytes(S) = Bytes(S \ {fd}) + AllocSize[fd]
                          /\ Bytes(S \ {fd}) \in Nat
         /\ \A R \in SUBSET S : Bytes(R) <= Bytes(S)
         /\ Bytes(S) = 0 <=> \A fd \in S : AllocSize[fd] = 0
<1>1. IsFiniteSet(S)
  BY FS_Subset
<1>2. \A fd \in S : AllocSize[fd] \in Nat
  OBVIOUS
<1>3. Bytes(S) \in Nat
  BY <1>1, <1>2, SumType DEF Bytes
<1>4. ASSUME NEW fd \in Fd \ S
      PROVE  Bytes(S \cup {fd}) = Bytes(S) + AllocSize[fd]
  <2>1. \A x \in S \cup {fd} : AllocSize[x] \in Nat
    OBVIOUS
  <2>2. QED
    BY <1>1, <2>1, SumAdd DEF Bytes
<1>5. ASSUME NEW fd \in S
      PROVE  /\ Bytes(S) = Bytes(S \ {fd}) + AllocSize[fd]
             /\ Bytes(S \ {fd}) \in Nat
  BY <1>1, <1>2, SumRemove DEF Bytes
<1>6. ASSUME NEW R \in SUBSET S
      PROVE  Bytes(R) <= Bytes(S)
  BY <1>1, <1>2, SumMonotone DEF Bytes
<1>7. Bytes(S) = 0 <=> \A fd \in S : AllocSize[fd] = 0
  BY <1>1, <1>2, SumZero DEF Bytes
<1>8. QED
  BY <1>1, <1>3, <1>4, <1>5, <1>6, <1>7

\* The references handed out for fd, as a function of the holder.
HeldOf(fd) == [h \in Holder |-> held[h][fd]]

\* What the invariant says of one fd's references: they count holders' acquires.
LEMMA RefsOfOne ==
  ASSUME TypeOK, RefsAreHeld, NEW fd \in Fd
  PROVE  /\ fd \in mapped => refCount[fd] = SumOver(HeldOf(fd), Holder)
         /\ fd \notin mapped => \A h \in Holder : held[h][fd] = 0
         /\ SumOver(HeldOf(fd), Holder) \in Nat
         /\ SumOver(HeldOf(fd), Holder) = 0 <=> \A h \in Holder : held[h][fd] = 0
<1>1. \A h \in Holder : HeldOf(fd)[h] \in Nat /\ HeldOf(fd)[h] = held[h][fd]
  BY DEF TypeOK, HeldOf
<1>2. SumOver(HeldOf(fd), Holder) \in Nat
  BY <1>1, SumType
<1>3. SumOver(HeldOf(fd), Holder) = 0 <=> \A h \in Holder : HeldOf(fd)[h] = 0
  BY <1>1, SumZero
<1>4. QED
  BY <1>1, <1>2, <1>3 DEF RefsAreHeld, HeldOf

\* One holder's acquire or release moves the sum for that fd by one and leaves
\* the sums of the other fds alone.
LEMMA HeldMoves ==
  ASSUME held \in [Holder -> [Fd -> Nat]], held' \in [Holder -> [Fd -> Nat]],
         NEW h \in Holder, NEW fd \in Fd,
         \A k \in Holder, g \in Fd : (k # h \/ g # fd) => held'[k][g] = held[k][g]
  PROVE  /\ SumOver(HeldOf(fd)', Holder) + held[h][fd]
              = SumOver(HeldOf(fd), Holder) + held'[h][fd]
         /\ SumOver(HeldOf(fd)', Holder) \in Nat
         /\ \A g \in Fd \ {fd} : SumOver(HeldOf(g)', Holder) = SumOver(HeldOf(g), Holder)
<1>1. /\ \A k \in Holder : HeldOf(fd)[k] \in Nat /\ HeldOf(fd)'[k] \in Nat
      /\ \A k \in Holder \ {h} : HeldOf(fd)[k] = HeldOf(fd)'[k]
      /\ HeldOf(fd)[h] = held[h][fd] /\ HeldOf(fd)'[h] = held'[h][fd]
  BY DEF HeldOf
<1>2. SumOver(HeldOf(fd)', Holder) + HeldOf(fd)[h] = SumOver(HeldOf(fd), Holder) + HeldOf(fd)'[h]
  BY <1>1, SumUpdate
<1>3. SumOver(HeldOf(fd)', Holder) \in Nat
  BY <1>1, SumType
<1>4. ASSUME NEW g \in Fd \ {fd}
      PROVE  SumOver(HeldOf(g)', Holder) = SumOver(HeldOf(g), Holder)
  <2>1. HeldOf(g)' = HeldOf(g)
    BY DEF HeldOf
  <2>2. QED
    BY <2>1
<1>5. QED
  BY <1>1, <1>2, <1>3, <1>4

----------------------------------------------------------------------------
(* The inductive invariant *)

LEMMA InitInv == Init => Inv
<1> SUFFICES ASSUME Init PROVE Inv
  OBVIOUS
<1>1. TypeOK /\ WithinBudget /\ CallConsistent
  BY DEF Init, TypeOK, WithinBudget, CallConsistent
<1>2. Accounting
  <2>1. mapped = {} /\ InUse = {}
    BY DEF Init, InUse
  <2>2. Bytes({}) = 0
    BY SumEmpty DEF Bytes
  <2>3. QED
    BY <2>1, <2>2 DEF Init, Accounting
<1>3. RefsAreHeld
  BY DEF Init, RefsAreHeld
<1>4. QED
  BY <1>1, <1>2, <1>3 DEF Inv

\* Unmapping an idle entry leaves the books right.
LEMMA UnmapKeepsInv ==
  ASSUME Inv, NEW fd \in Idle, UnmapEntry(fd),
         UNCHANGED <<alive, reliable, budget, inUseBytes, useCounter, refCount, lastUse,
                     capacity, call, held>>
  PROVE  Inv'
<1> USE DEF Inv
<1>1. fd \in Fd /\ fd \in mapped /\ refCount[fd] = 0 /\ mapped \in SUBSET Fd
  BY DEF Idle, TypeOK
<1>2. /\ mappedBytes = Bytes(mapped \ {fd}) + AllocSize[fd]
      /\ Bytes(mapped \ {fd}) \in Nat
  BY <1>1, BytesFacts DEF Accounting
<1>3. mappedBytes' = Bytes(mapped')
  BY <1>1, <1>2 DEF UnmapEntry
<1>4. mappedBytes' \in Nat /\ mappedBytes' <= mappedBytes
  BY <1>1, <1>2 DEF UnmapEntry
<1>5. InUse' = InUse
  BY <1>1 DEF InUse, UnmapEntry
<1>6. TypeOK'
  BY <1>1, <1>4 DEF TypeOK, UnmapEntry
<1>7. Accounting'
  BY <1>3, <1>5 DEF Accounting, Bytes
<1>8. RefsAreHeld'
  <2>1. \A h \in Holder : held[h][fd] = 0
    BY <1>1, RefsOfOne
  <2>2. QED
    BY <1>1, <2>1 DEF RefsAreHeld, UnmapEntry
<1>9. WithinBudget'
  BY <1>4 DEF WithinBudget, TypeOK
<1>10. CallConsistent'
  BY <1>1, <1>4 DEF CallConsistent, UnmapEntry, TypeOK, Calls
<1>11. QED
  BY <1>6, <1>7, <1>8, <1>9, <1>10

\* Steps that touch neither the entries nor the references keep the books.
LEMMA QuietKeepsBooks ==
  ASSUME Inv, UNCHANGED <<mappedBytes, inUseBytes, mapped, refCount, held>>
  PROVE  Accounting' /\ RefsAreHeld'
<1>1. InUse' = InUse
  BY DEF InUse
<1>2. QED
  BY <1>1 DEF Inv, Accounting, RefsAreHeld, Bytes

LEMMA SetBudgetInv == Inv /\ (\E b \in Budgets : SetBudget(b)) => Inv'
<1> SUFFICES ASSUME Inv, NEW b \in Budgets, SetBudget(b) PROVE Inv'
  OBVIOUS
<1>1. Accounting' /\ RefsAreHeld'
  BY QuietKeepsBooks DEF SetBudget, cacheVars
<1>2. TypeOK'
  BY DEF Inv, TypeOK, SetBudget, cacheVars
<1>3. WithinBudget'
  BY DEF Inv, WithinBudget, TypeOK, SetBudget, cacheVars
<1>4. CallConsistent'
  BY DEF Inv, CallConsistent, SetBudget, cacheVars
<1>5. QED
  BY <1>1, <1>2, <1>3, <1>4 DEF Inv

LEMMA AcquireHitInv ==
  ASSUME Inv, NEW h \in Holder, NEW fd \in Fd, AcquireHit(h, fd)
  PROVE  Inv'
<1> USE DEF Inv
<1>1. /\ held \in [Holder -> [Fd -> Nat]]
      /\ held' \in [Holder -> [Fd -> Nat]]
      /\ held'[h][fd] = held[h][fd] + 1
      /\ \A k \in Holder, g \in Fd : (k # h \/ g # fd) => held'[k][g] = held[k][g]
  BY DEF AcquireHit, Touch, TypeOK
<1>2. /\ SumOver(HeldOf(fd)', Holder) + held[h][fd]
           = SumOver(HeldOf(fd), Holder) + held'[h][fd]
      /\ SumOver(HeldOf(fd)', Holder) \in Nat
      /\ \A g \in Fd \ {fd} : SumOver(HeldOf(g)', Holder) = SumOver(HeldOf(g), Holder)
  BY <1>1, HeldMoves
<1>3. TypeOK'
  BY <1>1 DEF TypeOK, AcquireHit, Touch
<1>4. RefsAreHeld'
  <2>1. refCount'[fd] = SumOver(HeldOf(fd)', Holder)
    <3>1. SumOver(HeldOf(fd), Holder) \in Nat
      BY RefsOfOne
    <3>2. refCount[fd] = SumOver(HeldOf(fd), Holder)
      BY RefsOfOne DEF AcquireHit
    <3>3. refCount'[fd] = refCount[fd] + 1
      BY DEF AcquireHit, TypeOK
    <3>4. QED
      BY <1>1, <1>2, <3>1, <3>2, <3>3
  <2>2. ASSUME NEW g \in mapped, g # fd
        PROVE  refCount'[g] = SumOver(HeldOf(g)', Holder)
    <3>1. g \in Fd \ {fd}
      BY <2>2 DEF TypeOK
    <3>2. refCount[g] = SumOver(HeldOf(g), Holder)
      BY <3>1, RefsOfOne
    <3>3. refCount'[g] = refCount[g]
      BY <3>1 DEF AcquireHit, TypeOK
    <3>4. QED
      BY <1>2, <3>1, <3>2, <3>3
  <2>3. ASSUME NEW g \in Fd, g \notin mapped
        PROVE  \A k \in Holder : held'[k][g] = 0
    BY <1>1, <2>3, RefsOfOne DEF AcquireHit
  <2>4. mapped' = mapped
    BY DEF AcquireHit
  <2>5. QED
    BY <2>1, <2>2, <2>3, <2>4 DEF RefsAreHeld, HeldOf
<1>5. Accounting'
  <2>1. mapped' = mapped /\ mappedBytes' = mappedBytes /\ fd \in mapped
    BY DEF AcquireHit
  <2>2. InUse' = InUse \cup {fd}
    BY <2>1 DEF InUse, AcquireHit, TypeOK
  <2>3. InUse \in SUBSET Fd
    BY DEF InUse, TypeOK
  <2>4. CASE refCount[fd] = 0
    <3>1. fd \in Fd \ InUse
      BY <2>4 DEF InUse
    <3>2. Bytes(InUse \cup {fd}) = Bytes(InUse) + AllocSize[fd]
      BY <2>3, <3>1, BytesFacts
    <3>3. QED
      BY <2>1, <2>2, <2>4, <3>2 DEF Accounting, AcquireHit, Bytes
  <2>5. CASE refCount[fd] # 0
    <3>1. InUse' = InUse
      BY <2>1, <2>2, <2>5 DEF InUse, TypeOK
    <3>2. QED
      BY <2>1, <2>5, <3>1 DEF Accounting, AcquireHit, Bytes
  <2>6. QED
    BY <2>4, <2>5
<1>6. WithinBudget' /\ CallConsistent'
  BY DEF WithinBudget, CallConsistent, AcquireHit
<1>7. QED
  BY <1>3, <1>4, <1>5, <1>6

LEMMA MapInv == Inv /\ Map => Inv'
<1> SUFFICES ASSUME Inv, Map PROVE Inv'
  OBVIOUS
<1> USE DEF Inv
<1>0. PICK fd \in Fd, h \in Holder : fd = call.fd /\ h = call.holder
  BY DEF Map, Acquiring, TypeOK, Calls
<1>1. fd \notin mapped /\ AllocSize[fd] > 0
  BY <1>0 DEF Map, Acquiring, CallConsistent
<1>2. mappedBytes + AllocSize[fd] <= budget
  BY <1>0 DEF Map, Acquiring, CallConsistent
<1>3. /\ mapped' = mapped \cup {fd}
      /\ refCount' = [refCount EXCEPT ![fd] = 1]
      /\ mappedBytes' = mappedBytes + AllocSize[fd]
      /\ inUseBytes' = inUseBytes + AllocSize[fd]
      /\ useCounter' = useCounter + 1
      /\ lastUse' = [lastUse EXCEPT ![fd] = useCounter + 1]
      /\ held' = [held EXCEPT ![h][fd] = @ + 1]
      /\ call' = NoCall
      /\ UNCHANGED <<alive, reliable, budget, capacity>>
  BY <1>0 DEF Map, Touch
<1>4. /\ held \in [Holder -> [Fd -> Nat]]
      /\ held' \in [Holder -> [Fd -> Nat]]
      /\ held'[h][fd] = held[h][fd] + 1
      /\ \A k \in Holder, g \in Fd : (k # h \/ g # fd) => held'[k][g] = held[k][g]
  BY <1>1, <1>3 DEF TypeOK
<1>5. /\ SumOver(HeldOf(fd)', Holder) + held[h][fd]
           = SumOver(HeldOf(fd), Holder) + held'[h][fd]
      /\ SumOver(HeldOf(fd)', Holder) \in Nat
      /\ \A g \in Fd \ {fd} : SumOver(HeldOf(g)', Holder) = SumOver(HeldOf(g), Holder)
  BY <1>1, <1>4, HeldMoves
<1>6. TypeOK'
  BY <1>1, <1>3, <1>4 DEF TypeOK
<1>7. RefsAreHeld'
  <2>1. refCount'[fd] = SumOver(HeldOf(fd)', Holder)
    <3>1. SumOver(HeldOf(fd), Holder) = 0 /\ held[h][fd] = 0
      BY <1>1, RefsOfOne
    <3>2. refCount'[fd] = 1
      BY <1>1, <1>3 DEF TypeOK
    <3>3. QED
      BY <1>4, <1>5, <3>1, <3>2
  <2>2. ASSUME NEW g \in mapped
        PROVE  refCount'[g] = SumOver(HeldOf(g)', Holder)
    <3>1. g \in Fd \ {fd}
      BY <1>1 DEF TypeOK
    <3>2. refCount[g] = SumOver(HeldOf(g), Holder)
      BY <3>1, RefsOfOne
    <3>3. refCount'[g] = refCount[g]
      BY <1>3, <3>1 DEF TypeOK
    <3>4. QED
      BY <1>5, <3>1, <3>2, <3>3
  <2>3. ASSUME NEW g \in Fd, g \notin mapped'
        PROVE  \A k \in Holder : held'[k][g] = 0
    <3>1. g # fd /\ g \notin mapped
      BY <1>3, <2>3
    <3>2. QED
      BY <1>4, <3>1, RefsOfOne
  <2>4. QED
    BY <1>3, <2>1, <2>2, <2>3 DEF RefsAreHeld, HeldOf
<1>8. Accounting'
  <2>1. mapped \in SUBSET Fd /\ InUse \in SUBSET Fd /\ fd \in Fd \ mapped /\ fd \in Fd \ InUse
    BY <1>1 DEF TypeOK, InUse
  <2>2. InUse' = InUse \cup {fd}
    BY <1>1, <1>3 DEF InUse, TypeOK
  <2>3. Bytes(mapped \cup {fd}) = Bytes(mapped) + AllocSize[fd]
    BY <2>1, BytesFacts
  <2>4. Bytes(InUse \cup {fd}) = Bytes(InUse) + AllocSize[fd]
    BY <2>1, BytesFacts
  <2>5. QED
    BY <1>3, <2>2, <2>3, <2>4 DEF Accounting, Bytes
<1>9. WithinBudget'
  BY <1>2, <1>3 DEF WithinBudget
<1>10. CallConsistent'
  BY <1>1, <1>3 DEF CallConsistent
<1>11. QED
  BY <1>6, <1>7, <1>8, <1>9, <1>10

LEMMA ReleaseInv ==
  ASSUME Inv, NEW h \in Holder, NEW fd \in Fd, Release(h, fd)
  PROVE  Inv'
<1> USE DEF Inv
<1>1. fd \in mapped /\ refCount[fd] > 0 /\ refCount[fd] \in Nat
  BY RefsOfOne DEF Release, TypeOK
<1>2. /\ held \in [Holder -> [Fd -> Nat]]
      /\ held' \in [Holder -> [Fd -> Nat]]
      /\ held'[h][fd] = held[h][fd] - 1 /\ held[h][fd] \in Nat
      /\ \A k \in Holder, g \in Fd : (k # h \/ g # fd) => held'[k][g] = held[k][g]
  BY DEF Release, TypeOK
<1>3. /\ SumOver(HeldOf(fd)', Holder) + held[h][fd]
           = SumOver(HeldOf(fd), Holder) + held'[h][fd]
      /\ SumOver(HeldOf(fd)', Holder) \in Nat
      /\ \A g \in Fd \ {fd} : SumOver(HeldOf(g)', Holder) = SumOver(HeldOf(g), Holder)
  BY <1>2, HeldMoves
<1>4. /\ refCount' = [refCount EXCEPT ![fd] = @ - 1]
      /\ inUseBytes' = IF refCount[fd] = 1 THEN inUseBytes - AllocSize[fd] ELSE inUseBytes
      /\ UNCHANGED <<alive, reliable, budget, mappedBytes, useCounter, mapped, lastUse,
                     capacity, call>>
  BY <1>1 DEF Release
<1>5. RefsAreHeld'
  <2>1. refCount'[fd] = SumOver(HeldOf(fd)', Holder)
    <3>1. SumOver(HeldOf(fd), Holder) \in Nat /\ refCount[fd] = SumOver(HeldOf(fd), Holder)
      BY <1>1, RefsOfOne
    <3>2. refCount'[fd] = refCount[fd] - 1
      BY <1>4 DEF TypeOK
    <3>3. \A a, b, c \in Nat : b + c = a + (c - 1) => b = a - 1
      OBVIOUS
    <3>4. SumOver(HeldOf(fd)', Holder) = SumOver(HeldOf(fd), Holder) - 1
      <4>1. SumOver(HeldOf(fd)', Holder) + held[h][fd]
              = SumOver(HeldOf(fd), Holder) + (held[h][fd] - 1)
        BY <1>2, <1>3
      <4>2. held[h][fd] \in Nat /\ SumOver(HeldOf(fd)', Holder) \in Nat
        BY <1>2, <1>3
      <4>3. QED
        BY <3>1, <3>3, <4>1, <4>2
    <3>5. QED
      BY <3>1, <3>2, <3>4
  <2>2. ASSUME NEW g \in mapped, g # fd
        PROVE  refCount'[g] = SumOver(HeldOf(g)', Holder)
    <3>1. g \in Fd \ {fd}
      BY <2>2 DEF TypeOK
    <3>2. refCount[g] = SumOver(HeldOf(g), Holder)
      BY <3>1, RefsOfOne
    <3>3. refCount'[g] = refCount[g]
      BY <1>4, <3>1 DEF TypeOK
    <3>4. QED
      BY <1>3, <3>1, <3>2, <3>3
  <2>3. ASSUME NEW g \in Fd, g \notin mapped
        PROVE  \A k \in Holder : held'[k][g] = 0
    BY <1>1, <1>2, <2>3, RefsOfOne
  <2>4. QED
    BY <1>4, <2>1, <2>2, <2>3 DEF RefsAreHeld, HeldOf
<1>6. Accounting' /\ inUseBytes' \in Nat
  <2>1. InUse \in SUBSET Fd /\ fd \in InUse
    BY <1>1 DEF InUse, TypeOK
  <2>2. CASE refCount[fd] = 1
    <3>1. InUse' = InUse \ {fd}
      BY <1>1, <1>4, <2>2 DEF InUse, TypeOK
    <3>2. /\ Bytes(InUse) = Bytes(InUse \ {fd}) + AllocSize[fd]
          /\ Bytes(InUse \ {fd}) \in Nat
      BY <2>1, BytesFacts
    <3>3. inUseBytes' = Bytes(InUse \ {fd})
      BY <1>4, <2>2, <3>2 DEF Accounting
    <3>4. QED
      BY <1>4, <3>1, <3>2, <3>3 DEF Accounting, Bytes
  <2>3. CASE refCount[fd] # 1
    <3>1. InUse' = InUse
      BY <1>1, <1>4, <2>3 DEF InUse, TypeOK
    <3>2. QED
      BY <1>4, <2>3, <3>1 DEF Accounting, Bytes, TypeOK
  <2>4. QED
    BY <2>2, <2>3
<1>7. TypeOK'
  BY <1>1, <1>2, <1>4, <1>6 DEF TypeOK
<1>8. WithinBudget' /\ CallConsistent'
  BY <1>4 DEF WithinBudget, CallConsistent
<1>9. QED
  BY <1>5, <1>6, <1>7, <1>8

LEMMA ForgetInv == Inv /\ (\E fd \in Fd : Forget(fd)) => Inv'
<1> SUFFICES ASSUME Inv, NEW fd \in Fd, Forget(fd) PROVE Inv'
  OBVIOUS
<1>1. CASE fd \in Idle
  BY <1>1, UnmapKeepsInv DEF Forget
<1>2. CASE fd \notin Idle
  <2>1. UNCHANGED <<alive, reliable, budget, mappedBytes, inUseBytes, useCounter, mapped,
                    refCount, lastUse, capacity, call, held>>
    BY <1>2 DEF Forget
  <2>2. Accounting' /\ RefsAreHeld'
    BY <2>1, QuietKeepsBooks
  <2>3. QED
    BY <2>1, <2>2 DEF Inv, TypeOK, WithinBudget, CallConsistent
<1>3. QED
  BY <1>1, <1>2

\* An eviction, whichever call makes it.
LEMMA EvictInv ==
  ASSUME Inv, EvictOne, UNCHANGED <<alive, reliable, budget, capacity, call, held>>
  PROVE  Inv'
BY UnmapKeepsInv DEF EvictOne

\* A refused acquire only ends the call.
LEMMA RefuseInv ==
  ASSUME Inv, NEW code, Refuse(code)
  PROVE  Inv'
<1>1. Accounting' /\ RefsAreHeld'
  BY QuietKeepsBooks DEF Refuse, cacheVars
<1>2. QED
  BY <1>1 DEF Inv, TypeOK, WithinBudget, CallConsistent, Refuse, cacheVars

LEMMA AcquireStepInv == Inv /\ AcquireStep => Inv'
<1> SUFFICES ASSUME Inv, AcquireStep PROVE Inv'
  OBVIOUS
<1>1. CASE EvictForRoom
  BY <1>1, EvictInv DEF EvictForRoom
<1>2. CASE RoomFails
  BY <1>2, RefuseInv DEF RoomFails
<1>3. CASE RoomFound
  <2>1. Accounting' /\ RefsAreHeld'
    BY <1>3, QuietKeepsBooks DEF RoomFound, cacheVars
  <2>2. call' \in Calls /\ call'.op = "acquire" /\ call'.fd = call.fd /\ call.fd \in Fd
    BY <1>3 DEF Inv, TypeOK, Calls, RoomFound, Acquiring
  <2>3. mappedBytes + AllocSize[call.fd] <= budget
    BY <1>3, <2>2 DEF Inv, TypeOK, RoomFound, OverBudget
  <2>4. CallConsistent'
    BY <1>3, <2>2, <2>3 DEF Inv, CallConsistent, RoomFound, Acquiring, cacheVars
  <2>5. QED
    BY <1>3, <2>1, <2>2, <2>4 DEF Inv, TypeOK, WithinBudget, RoomFound, cacheVars
<1>4. CASE GrowTable
  <2>1. Accounting' /\ RefsAreHeld'
    BY <1>4, QuietKeepsBooks DEF GrowTable, cacheVars
  <2>2. call' \in Calls /\ call'.op = "acquire" /\ call'.fd = call.fd
    BY <1>4 DEF Inv, TypeOK, Calls, GrowTable, Acquiring
  <2>3. capacity' \in Nat
    BY <1>4 DEF Inv, TypeOK, GrowTable
  <2>4. CallConsistent'
    BY <1>4, <2>2 DEF Inv, CallConsistent, GrowTable, Acquiring, cacheVars
  <2>5. QED
    BY <1>4, <2>1, <2>2, <2>3, <2>4 DEF Inv, TypeOK, WithinBudget, GrowTable, cacheVars
<1>5. CASE GrowFails
  BY <1>5, RefuseInv DEF GrowFails
<1>6. CASE Map
  BY <1>6, MapInv
<1>7. CASE EvictForMap
  BY <1>7, EvictInv DEF EvictForMap
<1>8. CASE MapFails
  BY <1>8, RefuseInv DEF MapFails
<1>9. QED
  BY <1>1, <1>2, <1>3, <1>4, <1>5, <1>6, <1>7, <1>8 DEF AcquireStep

LEMMA StartInv ==
  ASSUME Inv, NEW h \in Holder, NEW fd \in Fd, AcquireBadParm(h, fd) \/ AcquireMiss(h, fd)
  PROVE  Inv'
<1>1. Accounting' /\ RefsAreHeld'
  BY QuietKeepsBooks DEF AcquireBadParm, AcquireMiss, cacheVars
<1>2. CASE AcquireBadParm(h, fd)
  BY <1>1, <1>2 DEF Inv, TypeOK, WithinBudget, CallConsistent, AcquireBadParm, cacheVars
<1>3. CASE AcquireMiss(h, fd)
  <2>1. call' \in Calls
    BY <1>3 DEF AcquireMiss, Calls
  <2>2. CallConsistent'
    BY <1>3 DEF Inv, CallConsistent, AcquireMiss, cacheVars
  <2>3. QED
    BY <1>1, <1>3, <2>1, <2>2 DEF Inv, TypeOK, WithinBudget, AcquireMiss, cacheVars
<1>4. QED
  BY <1>2, <1>3

LEMMA DestroyInv == Inv /\ (BeginDestroy \/ EvictForDestroy \/ EndDestroy) => Inv'
<1> SUFFICES ASSUME Inv, BeginDestroy \/ EvictForDestroy \/ EndDestroy PROVE Inv'
  OBVIOUS
<1>1. CASE BeginDestroy
  <2>1. Accounting' /\ RefsAreHeld'
    BY <1>1, QuietKeepsBooks DEF BeginDestroy, cacheVars
  <2>2. call' \in Calls /\ call'.op = "destroy"
    BY <1>1 DEF BeginDestroy, Calls
  <2>3. QED
    BY <1>1, <2>1, <2>2 DEF Inv, TypeOK, WithinBudget, CallConsistent, BeginDestroy,
       cacheVars
<1>2. CASE EvictForDestroy
  BY <1>2, EvictInv DEF EvictForDestroy
<1>3. CASE EndDestroy
  <2>1. Accounting' /\ RefsAreHeld'
    BY <1>3, QuietKeepsBooks DEF EndDestroy, cacheVars
  <2>2. QED
    BY <1>3, <2>1 DEF Inv, TypeOK, WithinBudget, CallConsistent, EndDestroy, cacheVars
<1>4. QED
  BY <1>1, <1>2, <1>3

LEMMA NextInv == Inv /\ [Next]_vars => Inv'
<1> SUFFICES ASSUME Inv, [Next]_vars PROVE Inv'
  OBVIOUS
<1>1. CASE \E b \in Budgets : SetBudget(b)
  BY <1>1, SetBudgetInv
<1>2. ASSUME NEW h \in Holder, NEW fd \in Fd,
             AcquireHit(h, fd) \/ AcquireBadParm(h, fd) \/ AcquireMiss(h, fd)
      PROVE  Inv'
  BY <1>2, AcquireHitInv, StartInv
<1>3. CASE AcquireStep
  BY <1>3, AcquireStepInv
<1>4. ASSUME NEW h \in Holder, NEW fd \in Fd, Release(h, fd)
      PROVE  Inv'
  BY <1>4, ReleaseInv
<1>5. CASE \E fd \in Fd : Forget(fd)
  BY <1>5, ForgetInv
<1>6. CASE BeginDestroy \/ EvictForDestroy \/ EndDestroy
  BY <1>6, DestroyInv
<1>7. CASE UNCHANGED vars
  <2>1. Accounting' /\ RefsAreHeld'
    BY <1>7, QuietKeepsBooks DEF vars
  <2>2. QED
    BY <1>7, <2>1 DEF Inv, TypeOK, WithinBudget, CallConsistent, vars
<1>8. QED
  BY <1>1, <1>2, <1>3, <1>4, <1>5, <1>6, <1>7 DEF Next

\* The counters, the reference counts and the budget are right in every
\* reachable state of residency.c, whatever allocations and holders there are.
THEOREM InvHolds == Spec => []Inv
<1>1. QED
  BY InitInv, NextInv, PTL DEF Spec

\* The byte counters are the sums their comments promise.
THEOREM AccountingHolds == Spec => []Accounting
<1>1. Inv => Accounting
  BY DEF Inv
<1>2. QED
  BY <1>1, InvHolds, PTL

\* Reference counts are the holders' outstanding acquires.
THEOREM RefsAreHeldHolds == Spec => []RefsAreHeld
<1>1. Inv => RefsAreHeld
  BY DEF Inv
<1>2. QED
  BY <1>1, InvHolds, PTL

\* The mapped bytes stay within the budget.
THEOREM WithinBudgetHolds == Spec => []WithinBudget
<1>1. Inv => WithinBudget
  BY DEF Inv
<1>2. QED
  BY <1>1, InvHolds, PTL

----------------------------------------------------------------------------
(* The cache implements the pins *)

\* The pinned allocations are the entries in use, and nothing else.
LEMMA PinnedIsInUse ==
  ASSUME Inv
  PROVE  /\ Pins!Pinned = InUse
         /\ InUse \in SUBSET Fd
         /\ mapped \in SUBSET Fd
<1>1. ASSUME NEW fd \in Fd
      PROVE  (\E h \in Holder : held[h][fd] > 0) <=> fd \in InUse
  <2>1. \A h \in Holder : held[h][fd] \in Nat
    BY DEF Inv, TypeOK
  <2>2. CASE fd \in mapped
    BY <2>1, <2>2, RefsOfOne DEF Inv, InUse, TypeOK
  <2>3. CASE fd \notin mapped
    BY <2>1, <2>3, RefsOfOne DEF Inv, InUse
  <2>4. QED
    BY <2>2, <2>3
<1>2. InUse \in SUBSET Fd /\ mapped \in SUBSET Fd
  BY DEF Inv, TypeOK, InUse
<1>3. Pins!Pinned = InUse
  BY <1>1, <1>2 DEF Pins!Pinned
<1>4. QED
  BY <1>2, <1>3

\* A granted acquire is a granted pin.
LEMMA GrantStep ==
  ASSUME Inv, alive, NEW h \in Holder, NEW fd \in Fd, AllocSize[fd] > 0,
         fd \in mapped \/ mappedBytes + AllocSize[fd] <= budget,
         Touch(h, fd), UNCHANGED <<alive, reliable, budget>>
  PROVE  Pins!PinGrant(h, fd)
<1>1. Bytes(InUse \cup {fd}) <= budget
  <2>1. mapped \in SUBSET Fd /\ mapped \cup {fd} \in SUBSET Fd
        /\ InUse \cup {fd} \in SUBSET (mapped \cup {fd})
    BY PinnedIsInUse DEF InUse
  <2>2. Bytes(InUse \cup {fd}) <= Bytes(mapped \cup {fd})
    BY <2>1, BytesFacts
  <2>3. Bytes(mapped \cup {fd}) <= budget
    <3>1. CASE fd \in mapped
      <4>1. mapped \cup {fd} = mapped
        BY <3>1
      <4>2. QED
        BY <4>1 DEF Inv, Accounting, WithinBudget
    <3>2. CASE fd \notin mapped
      <4>1. Bytes(mapped \cup {fd}) = Bytes(mapped) + AllocSize[fd]
        BY <2>1, <3>2, BytesFacts
      <4>2. QED
        BY <3>2, <4>1 DEF Inv, Accounting
    <3>3. QED
      BY <3>1, <3>2
  <2>4. InUse \cup {fd} \in SUBSET Fd
    BY <2>1
  <2>5. Bytes(InUse \cup {fd}) \in Nat /\ Bytes(mapped \cup {fd}) \in Nat /\ budget \in Nat
    BY <2>1, <2>4, BytesFacts DEF Inv, TypeOK
  <2>6. QED
    BY <2>2, <2>3, <2>5
<1>2. QED
  BY <1>1, PinnedIsInUse DEF Pins!PinGrant, Touch, Pins!Answer, Answer

\* When nothing is left to evict, the answer says whether waiting can help.
LEMMA FullStep ==
  ASSUME Inv, call # NoCall, call.op = "acquire", Idle = {}, Refuse(FullCode),
         reliable => mappedBytes + AllocSize[call.fd] > budget
  PROVE  \E h \in Holder, fd \in Fd : Pins!PinWouldBlock(h, fd) \/ Pins!PinNoMemory(h, fd)
<1>0. PICK fd \in Fd, h \in Holder : fd = call.fd /\ h = call.holder
  BY DEF Inv, TypeOK, Calls
<1>1. fd \notin mapped /\ alive /\ AllocSize[fd] \in Nat /\ budget \in Nat
  BY <1>0 DEF Inv, CallConsistent, TypeOK
<1>2. mapped = InUse
  BY DEF Idle, InUse, Inv, TypeOK
<1>3. Bytes(InUse \cup {fd}) = mappedBytes + AllocSize[fd]
  BY <1>1, <1>2, PinnedIsInUse, BytesFacts DEF Inv, Accounting
<1>4. inUseBytes = 0 <=> InUse = {}
  <2>1. InUse \in SUBSET Fd /\ \A g \in InUse : AllocSize[g] # 0
    BY PinnedIsInUse DEF Inv, CallConsistent, InUse
  <2>2. Bytes(InUse) = 0 <=> \A g \in InUse : AllocSize[g] = 0
    BY <2>1, BytesFacts
  <2>3. QED
    BY <2>1, <2>2 DEF Inv, Accounting
<1>5. CASE inUseBytes > 0
  <2>1. FullCode = "EWOULDBLOCK"
    BY <1>5 DEF FullCode
  <2>2. Pins!Pinned # {} /\ fd \notin Pins!Pinned
    BY <1>1, <1>2, <1>4, <1>5, PinnedIsInUse
  <2>3. Pins!PinWouldBlock(h, fd)
    BY <1>0, <1>1, <1>3, <2>1, <2>2, PinnedIsInUse
    DEF Pins!PinWouldBlock, Refuse, Pins!Answer, Answer
  <2>4. QED
    BY <2>3
<1>6. CASE ~ (inUseBytes > 0)
  <2>1. FullCode = "ENOMEMORY"
    BY <1>6 DEF FullCode
  <2>2. inUseBytes = 0
    BY <1>6 DEF Inv, TypeOK
  <2>3. Pins!Pinned = {} /\ mapped = {}
    BY <1>2, <1>4, <2>2, PinnedIsInUse
  <2>4. mappedBytes = 0
    BY <1>2, <2>2 DEF Inv, Accounting
  <2>5. Pins!PinNoMemory(h, fd)
    BY <1>0, <1>1, <2>1, <2>3, <2>4 DEF Pins!PinNoMemory, Refuse, Pins!Answer, Answer
  <2>6. QED
    BY <2>5
<1>7. QED
  BY <1>5, <1>6

LEMMA AcquireStepPins == Inv /\ AcquireStep => [Pins!PinNext]_(Pins!pinVars)
<1> SUFFICES ASSUME Inv, AcquireStep PROVE Pins!PinNext \/ UNCHANGED Pins!pinVars
  OBVIOUS
<1>1. CASE EvictForRoom \/ RoomFound \/ GrowTable \/ EvictForMap
  BY <1>1 DEF EvictForRoom, RoomFound, GrowTable, EvictForMap, Pins!pinVars
<1>2. CASE RoomFails
  BY <1>2, FullStep DEF RoomFails, Acquiring, OverBudget, Pins!PinNext
<1>3. CASE MapFails
  BY <1>3, FullStep DEF MapFails, Acquiring, Pins!PinNext
<1>4. CASE GrowFails
  <2>0. PICK fd \in Fd, h \in Holder : fd = call.fd /\ h = call.holder
    BY <1>4 DEF GrowFails, Acquiring, Inv, TypeOK, Calls
  <2>1. fd \notin InUse /\ alive
    BY <1>4, <2>0 DEF GrowFails, Acquiring, Inv, CallConsistent, InUse
  <2>2. Pins!PinNoMemory(h, fd)
    BY <1>4, <2>0, <2>1, PinnedIsInUse
    DEF GrowFails, Pins!PinNoMemory, Refuse, Pins!Answer, Answer
  <2>3. QED
    BY <2>2 DEF Pins!PinNext
<1>5. CASE Map
  <2>0. PICK fd \in Fd, h \in Holder : fd = call.fd /\ h = call.holder
    BY <1>5 DEF Map, Acquiring, Inv, TypeOK, Calls
  <2>1. AllocSize[fd] > 0 /\ mappedBytes + AllocSize[fd] <= budget /\ alive
    BY <1>5, <2>0 DEF Map, Acquiring, Inv, CallConsistent
  <2>2. Touch(h, fd) /\ UNCHANGED <<alive, reliable, budget>>
    BY <1>5, <2>0 DEF Map
  <2>3. Pins!PinGrant(h, fd)
    BY <2>1, <2>2, GrantStep
  <2>4. QED
    BY <2>3 DEF Pins!PinNext
<1>6. QED
  BY <1>1, <1>2, <1>3, <1>4, <1>5 DEF AcquireStep

LEMMA NextPins == Inv /\ [Next]_vars => [Pins!PinNext]_(Pins!pinVars)
<1> SUFFICES ASSUME Inv, [Next]_vars PROVE Pins!PinNext \/ UNCHANGED Pins!pinVars
  OBVIOUS
<1>1. ASSUME NEW b \in Budgets, SetBudget(b)
      PROVE  Pins!PinNext
  <2>1. Pins!PinSetBudget(b)
    BY <1>1 DEF SetBudget, Pins!PinSetBudget
  <2>2. QED
    BY <2>1 DEF Pins!PinNext
<1>2. ASSUME NEW h \in Holder, NEW fd \in Fd, AcquireHit(h, fd)
      PROVE  Pins!PinNext
  <2>1. AllocSize[fd] > 0
    BY <1>2 DEF AcquireHit, Inv, CallConsistent
  <2>2. Pins!PinGrant(h, fd)
    BY <1>2, <2>1, GrantStep DEF AcquireHit
  <2>3. QED
    BY <2>2 DEF Pins!PinNext
<1>3. ASSUME NEW h \in Holder, NEW fd \in Fd, AcquireBadParm(h, fd)
      PROVE  Pins!PinNext
  <2>1. Pins!PinBadParm(h, fd)
    BY <1>3 DEF AcquireBadParm, Pins!PinBadParm, Pins!Answer, Answer
  <2>2. QED
    BY <2>1 DEF Pins!PinNext
<1>4. ASSUME NEW h \in Holder, NEW fd \in Fd, AcquireMiss(h, fd)
      PROVE  UNCHANGED Pins!pinVars
  BY <1>4 DEF AcquireMiss, Pins!pinVars
<1>5. CASE AcquireStep
  BY <1>5, AcquireStepPins
<1>6. ASSUME NEW h \in Holder, NEW fd \in Fd, Release(h, fd)
      PROVE  Pins!PinNext
  <2>1. Pins!PinRelease(h, fd)
    BY <1>6 DEF Release, Pins!PinRelease, Pins!Answer, Answer
  <2>2. QED
    BY <2>1 DEF Pins!PinNext
<1>7. ASSUME NEW fd \in Fd, Forget(fd)
      PROVE  Pins!PinNext
  <2>1. Pins!PinForget(fd)
    BY <1>7, PinnedIsInUse DEF Forget, Pins!PinForget, Pins!Answer, Answer
  <2>2. QED
    BY <2>1 DEF Pins!PinNext
<1>8. CASE BeginDestroy \/ EvictForDestroy
  BY <1>8 DEF BeginDestroy, EvictForDestroy, Pins!pinVars
<1>9. CASE EndDestroy
  <2>1. Pins!PinDestroy
    BY <1>9 DEF EndDestroy, Destroying, Pins!PinDestroy, Inv, CallConsistent
  <2>2. QED
    BY <2>1 DEF Pins!PinNext
<1>10. CASE UNCHANGED vars
  BY <1>10 DEF vars, Pins!pinVars
<1>11. QED
  BY <1>1, <1>2, <1>3, <1>4, <1>5, <1>6, <1>7, <1>8, <1>9, <1>10 DEF Next

\* Acquire and release of residency.c are pins against the budget: which idle
\* allocations are mapped, and in which order they are evicted, never shows.
THEOREM ImplementsPins == Spec => PinsImplemented
<1>1. Init => Pins!PinInit
  BY DEF Init, Pins!PinInit
<1>2. QED
  BY <1>1, InvHolds, NextPins, PTL DEF Spec, PinsImplemented, Pins!PinSpec
============================================================================

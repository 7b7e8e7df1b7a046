--------------------------- MODULE VtcmPartition ---------------------------
(***************************************************************************)
(* The VTCM partition of a dispatch, from both sides of the agreement that *)
(* sizes it.  The compiler adds up what each allocation may take           *)
(* (HexagonAnnotateDispatchResources) after it has widened the allocations *)
(* of thread bodies (HexagonPrivatizeThreadAllocations); the runtime hands *)
(* the partition out from both ends (vtcm_partition.cpp) and aborts when   *)
(* it runs out.                                                            *)
(***************************************************************************)
EXTENDS Integers, FiniteSets, FiniteSetsExt

(***************************************************************************)
(* vtcm_allocation.h: the granularities of the two ends.  Allocations of   *)
(* at least the large alignment come from the front, others from the back. *)
(***************************************************************************)
LargeAlignment == 2048
MinAllocation == 128

AlignUp(value, alignment) ==
    ((value + alignment - 1) \div alignment) * alignment

AlignDown(value, alignment) == (value \div alignment) * alignment

(***************************************************************************)
(* llvm::PowerOf2Ceil, for the alignments memory operations ask for.       *)
(* MaxAlignment bounds them; the code has no bound.                        *)
(***************************************************************************)
MaxAlignment == 65536
PowersOf2 == {1, 2, 4, 8, 16, 32, 64, 128, 256, 512, 1024, 2048, 4096, 8192,
              16384, 32768, 65536}
PowerOf2Ceil(n) == IF n = 0 THEN 0 ELSE Min({p \in PowersOf2 : p >= n})

-----------------------------------------------------------------------------
(***************************************************************************)
(* What the compiler counts for an allocation: its size rounded up to the  *)
(* granularity of its end, and the most padding its alignment can cost on  *)
(* top of that.                                                            *)
(***************************************************************************)
\* A mistake the runs must catch: the alignment is taken to cost nothing.
UnpaddedAllocBytes(bytes, alignment) ==
    AlignUp(bytes, IF PowerOf2Ceil(alignment) >= LargeAlignment
                   THEN LargeAlignment ELSE MinAllocation)

PartitionAllocBytes(bytes, alignment) ==
    LET effective == Max({PowerOf2Ceil(alignment), MinAllocation})
        granularity == IF effective >= LargeAlignment
                       THEN LargeAlignment ELSE MinAllocation
    IN  AlignUp(bytes, granularity) + effective - granularity

(***************************************************************************)
(* An allocation of the dispatch function: static or not, inside a loop or *)
(* hoisted out of it, of a thread body or not.  A thread body's allocation *)
(* becomes one slice per chunk of a wide allocation, each slice padded to  *)
(* the alignment so that every chunk's slice keeps it.                     *)
(***************************************************************************)
Allocations ==
    [bytes : Nat, align : 0..MaxAlignment, element : Nat \ {0}, slice : Nat,
     dynamic : BOOLEAN, inLoop : BOOLEAN, inThreads : BOOLEAN]

PaddedSlice(a) == IF a.align = 0 THEN a.bytes ELSE AlignUp(a.bytes, a.align)

Privatizable(a) ==
    /\ ~a.dynamic
    /\ PaddedSlice(a) # a.bytes => PaddedSlice(a) % a.element = 0

Privatized(a, chunks) ==
    [a EXCEPT !.bytes = chunks * PaddedSlice(a), !.inThreads = FALSE,
              !.slice = PaddedSlice(a)]

-----------------------------------------------------------------------------
(***************************************************************************)
(* The partition at run time: where it starts, how long it is, and how     *)
(* much of each end is handed out.  The pool keeps bases 2 KiB aligned.    *)
(***************************************************************************)
Acquired(base, nbytes) ==
    [base |-> base, size |-> AlignUp(nbytes, LargeAlignment),
     front |-> 0, back |-> 0]

Reset(part) == [part EXCEPT !.front = 0, !.back = 0]

(***************************************************************************)
(* hexagon_rt_vtcm_partition_alloc: what became of the request ("placed",  *)
(* or the abort it ended in), the offset handed out and the partition      *)
(* after it.  A request for nothing gets nothing (NULL), offset 0 here.    *)
(***************************************************************************)
Taken(fits, begin, after) ==
    [code |-> IF fits THEN "placed" ELSE "overflow", begin |-> begin,
     part |-> after]

FromFront(part, nbytes, alignment) ==
    LET begin == AlignUp(part.base + part.front, alignment) - part.base
        size == AlignUp(nbytes, LargeAlignment)
    IN  Taken(begin + size <= part.size - part.back, begin,
              [part EXCEPT !.front = begin + size])

FromBack(part, nbytes, alignment) ==
    LET size == AlignUp(nbytes, MinAllocation)
        begin == AlignDown(part.size - part.back - size, alignment)
    IN  Taken(size <= part.size - part.back /\ begin >= part.front, begin,
              [part EXCEPT !.back = part.size - begin])

AllocAligned(part, nbytes, alignment) ==
    IF nbytes = 0 THEN Taken(TRUE, 0, part)
    ELSE IF alignment \notin PowersOf2
         THEN [code |-> "aborted", begin |-> 0, part |-> part]
    ELSE IF alignment > part.size THEN Taken(FALSE, 0, part)
    ELSE IF alignment >= LargeAlignment
         THEN FromFront(part, nbytes, alignment)
         ELSE FromBack(part, nbytes, alignment)

PartitionAlloc(part, nbytes, requested) ==
    AllocAligned(part, nbytes, Max({requested, MinAllocation}))
=============================================================================

----------------------------- MODULE Recording -----------------------------
(***************************************************************************)
(* How recorded commands reach the DSP: the host checks and serializes     *)
(* each command (command_buffer.c, serialize/), ends the recording by      *)
(* sending one stream of packed structures (arm_dsp/cmd_buf.h), and the    *)
(* DSP walks that stream three times (dsp/command_buffer.c): to count the  *)
(* direct buffer references, to merge them into ranges, and to execute the *)
(* commands against a binding table.                                       *)
(*                                                                         *)
(* The stream is a sequence of typed items with the sizes of the packed    *)
(* structures. Memory is a function from allocation and byte to a value.   *)
(* What a kernel computes is left out; what it is called with is kept.     *)
(***************************************************************************)
EXTENDS Integers, Sequences, FiniteSets, SequencesExt

CONSTANTS
  Palette,     \* the calls the recorder may make, see Refused for their fields
  MaxCmds,     \* bound on the commands of one command buffer
  Tables,      \* the binding tables to choose from: sequences of direct references
  Buffers,     \* [buffer -> [fd, base, len]]: buffers are windows on allocations
  AllocSize,   \* [fd -> bytes of the allocation]
  U16Max,      \* UINT16_MAX, scaled down
  Whole        \* IREE_HAL_WHOLE_BUFFER = UINT64_MAX, more than any allocation has

\* A buffer is a window on an allocation that was registered with the DSP: its descriptor
\* is not -1, which marks a reference to a binding.
ASSUME SizesAssumption ==
  /\ U16Max \in Nat \ {0}
  /\ Whole \in Nat
  /\ -1 \notin DOMAIN AllocSize
  /\ \A fd \in DOMAIN AllocSize : AllocSize[fd] \in Nat /\ AllocSize[fd] < Whole
ASSUME BuffersAssumption ==
  \A b \in DOMAIN Buffers :
    /\ b # 0
    /\ Buffers[b].fd \in DOMAIN AllocSize
    /\ Buffers[b].base \in Nat /\ Buffers[b].len \in Nat
    /\ Buffers[b].base + Buffers[b].len <= AllocSize[Buffers[b].fd]

VARIABLES
  asked,    \* the calls that were accepted
  entries,  \* the host's list of serialized commands: [size, items]
  table,    \* the binding table of this execution
  phase,    \* "record", "size", "copy", "count", "collect", "execute", "done" or "error"
  stream,   \* [size, items] as sent to the DSP
  at,       \* the walk over the stream: [left: bytes, pos: items read, entry: commands read]
  maxBufs,  \* result of the counting walk
  bufs,     \* merged ranges of direct references: [fd, begin, end]
  seen,     \* references of the current command added so far
  merge,    \* the range being merged, [fd, begin, end, idx], or None
  mem,      \* [fd -> [byte -> value]]
  wrote,    \* bytes the last command wrote: [fd, first, len]
  calls     \* what kernels were called with

hostVars == <<asked, entries, table>>
walkVars == <<stream, maxBufs, bufs, seen, merge>>
vars == <<hostVars, phase, walkVars, at, mem, wrote, calls>>

None == [none |-> TRUE]
ItemSize(t) ==
  [header |-> 4, dispatch |-> 35, con |-> 4, ref |-> 32, barrier |-> 1, copy |-> 65, fill |-> 38][t]
Item(t, v) == [t |-> t, v |-> v]
SizeOf(items) == FoldLeft(LAMBDA sum, i : sum + ItemSize(i.t), 0, items)

------------------------------------------------------------------------------
(* The host: checks, normalization and serialization.                       *)

IsDirect(ref) == ref.buf # 0
InRange(off, len, size) == off <= size /\ (len = Whole \/ len <= size - off)
RestIfWhole(off, len, size) == IF len = Whole THEN size - off ELSE len

\* A direct reference becomes a window on its allocation; an indirect one stays as it is.
RefIsValid(ref) == IsDirect(ref) => InRange(ref.off, ref.len, Buffers[ref.buf].len)
NormalizedRef(ref) ==
  IF IsDirect(ref)
    THEN LET b == Buffers[ref.buf]
         IN  [slot |-> ref.slot, fd |-> b.fd, off |-> b.base + ref.off,
              len |-> RestIfWhole(ref.off, ref.len, b.len), alloc |-> AllocSize[b.fd]]
    ELSE [slot |-> ref.slot, fd |-> -1, off |-> ref.off, len |-> ref.len, alloc |-> 0]

RefsOf(c) ==
  CASE c.kind = "dispatch" -> c.bindings
    [] c.kind = "copy" -> <<c.src, c.trgt>>
    [] c.kind = "fill" -> <<c.trgt>>
    [] c.kind \in {"barrier", "unsupported"} -> <<>>

\* What the types of the calls leave open: lengths, offsets and slots of any size.
Reference == [buf : {0} \cup DOMAIN Buffers, slot : Nat, off : Nat, len : Nat]
ASSUME PaletteAssumption ==
  \A c \in Palette :
    /\ c.kind \in {"dispatch", "barrier", "copy", "fill", "unsupported"}
    /\ RefsOf(c) \in Seq(Reference)
    /\ c.kind = "fill" => c.pattern \in Seq(Nat)
    /\ c.kind = "dispatch" => c.conBytes \in Nat /\ c.wgSize \in [1..3 -> Nat] /\ c.wgCount \in [1..3 -> Nat]
\* The host checks a binding table as it checks the references of a command.
ASSUME TablesAssumption ==
  \A t \in Tables :
    /\ t \in Seq(Reference)
    /\ \A i \in DOMAIN t : IsDirect(t[i]) /\ RefIsValid(t[i])

RefsRefused(c) == \E i \in DOMAIN RefsOf(c) : ~ RefIsValid(RefsOf(c)[i])
BarrierRefused(c) == c.kind = "barrier" /\ c.bufferBarriers # 0
FillRefused(c) == c.kind = "fill" /\ Len(c.pattern) \notin 1..4
\* Events, advice, updates and collectives.
Unsupported(c) == c.kind = "unsupported"
DispatchRefused(c) ==
  /\ c.kind = "dispatch"
  /\ \/ c.indirectParams
     \/ c.conBytes % 4 # 0
     \/ c.conBytes \div 4 > U16Max
     \/ c.wgSize[3] > U16Max
Refused(c) ==
  \/ RefsRefused(c) \/ BarrierRefused(c) \/ FillRefused(c) \/ Unsupported(c) \/ DispatchRefused(c)

\* Size 0 stands for 1; the z size and the z count are 16 bit on the wire.
AtLeastOne(n) == IF n = 0 THEN 1 ELSE n
Narrow(n) == n % (U16Max + 1)
WorkgroupSize(s) == <<AtLeastOne(s[1]), AtLeastOne(s[2]), Narrow(AtLeastOne(s[3]))>>
WorkgroupCount(n) == <<n[1], n[2], Narrow(n[3])>>

Padded(pattern) == [i \in 1..4 |-> IF i <= Len(pattern) THEN pattern[i] ELSE 0]

\* A mistake the runs must catch: constants are counted in bytes, not in words.
SerializedSizeLoose(c) ==
  IF c.kind = "dispatch"
    THEN ItemSize("dispatch") + c.conBytes * ItemSize("con") + Len(c.bindings) * ItemSize("ref")
    ELSE ItemSize(c.kind)
SerializedSize(c) ==
  IF c.kind = "dispatch"
    THEN ItemSize("dispatch") + (c.conBytes \div 4) * ItemSize("con")
           + Len(c.bindings) * ItemSize("ref")
    ELSE ItemSize(c.kind)

Serialized(c) ==
  CASE c.kind = "dispatch" ->
         <<Item("dispatch", [fn |-> c.fn, size |-> WorkgroupSize(c.wgSize),
                             count |-> WorkgroupCount(c.wgCount),
                             cons |-> c.conBytes \div 4, refs |-> Len(c.bindings)])>>
           \o [i \in 1..(c.conBytes \div 4) |-> Item("con", i)]
           \o [i \in DOMAIN c.bindings |-> Item("ref", NormalizedRef(c.bindings[i]))]
    [] c.kind = "barrier" -> <<Item("barrier", 0)>>
    [] c.kind = "copy" -> <<Item("copy", <<NormalizedRef(c.src), NormalizedRef(c.trgt)>>)>>
    [] c.kind = "fill" -> <<Item("fill", [n |-> Len(c.pattern), pattern |-> Padded(c.pattern),
                                           trgt |-> NormalizedRef(c.trgt)])>>

ZeroMemory == [fd \in DOMAIN AllocSize |-> [i \in 0..(AllocSize[fd] - 1) |-> 0]]

Init ==
  /\ asked = <<>>
  /\ entries = <<>>
  /\ table \in Tables
  /\ phase = "record"
  /\ stream = [size |-> 0, items |-> <<>>]
  /\ at = [left |-> 0, pos |-> 0, entry |-> 0]
  /\ maxBufs = 0
  /\ bufs = <<>>
  /\ seen = 0
  /\ merge = None
  /\ mem = ZeroMemory
  /\ wrote = None
  /\ calls = <<>>

\* A refused call, and one for which there is no memory, leaves the recording as it was.
Record(c) ==
  /\ phase = "record"
  /\ Len(asked) < MaxCmds
  /\ ~ Refused(c)
  /\ SizeOf(Serialized(c)) <= SerializedSize(c)
  /\ asked' = Append(asked, c)
  /\ entries' = Append(entries, [size |-> SerializedSize(c), items |-> Serialized(c)])
  /\ UNCHANGED <<table, phase, walkVars, at, mem, wrote, calls>>

StartOfStream(s) == [left |-> s.size - ItemSize("header"), pos |-> 1, entry |-> 0]

\* Ending the recording reads the list twice: to sum the sizes, and to copy the commands
\* behind a header that counts them.
End ==
  /\ phase = "record"
  /\ phase' = "size"
  /\ stream' = [size |-> ItemSize("header"), items |-> <<>>]
  /\ UNCHANGED <<hostVars, maxBufs, bufs, seen, merge, at, mem, wrote, calls>>

AddSize ==
  /\ phase = "size" /\ at.entry < Len(entries)
  /\ stream' = [stream EXCEPT !.size = @ + entries[at.entry + 1].size]
  /\ at' = [at EXCEPT !.entry = @ + 1]
  /\ UNCHANGED <<hostVars, phase, maxBufs, bufs, seen, merge, mem, wrote, calls>>

Sized ==
  /\ phase = "size" /\ at.entry = Len(entries)
  /\ phase' = "copy"
  /\ stream' = [stream EXCEPT !.items = <<Item("header", Len(entries))>>]
  /\ at' = StartOfStream(stream)
  /\ UNCHANGED <<hostVars, maxBufs, bufs, seen, merge, mem, wrote, calls>>

CopyEntry ==
  /\ phase = "copy" /\ at.entry < Len(entries)
  /\ LET e == entries[at.entry + 1]
     IN  /\ e.size <= at.left
         /\ stream' = [stream EXCEPT !.items = @ \o e.items]
         /\ at' = [left |-> at.left - e.size, pos |-> at.pos + Len(e.items), entry |-> at.entry + 1]
  /\ UNCHANGED <<hostVars, phase, maxBufs, bufs, seen, merge, mem, wrote, calls>>

Sent ==
  /\ phase = "copy" /\ at.entry = Len(entries)
  /\ phase' = "count"
  /\ at' = StartOfStream(stream)
  /\ UNCHANGED <<hostVars, walkVars, mem, wrote, calls>>

\* A failed allocation on either side: everything the DSP had is freed, the host keeps its list.
EndFails ==
  /\ phase \in {"size", "copy", "count", "collect"}
  /\ phase' = "error"
  /\ stream' = [size |-> 0, items |-> <<>>]
  /\ bufs' = <<>>
  /\ seen' = 0
  /\ merge' = None
  /\ UNCHANGED <<hostVars, maxBufs, at, mem, wrote, calls>>
------------------------------------------------------------------------------
(* The DSP reads one command: its head, then the constants and references   *)
(* that the head announces. What does not fit into the rest of the data is  *)
(* an incomplete item.                                                      *)

Entries == stream.items[1].v
Cmd == stream.items[at.pos + 1]
Trailing == IF Cmd.t = "dispatch" THEN Cmd.v.cons + Cmd.v.refs ELSE 0
CmdSize ==
  ItemSize(Cmd.t) + (IF Cmd.t = "dispatch"
                        THEN Cmd.v.cons * ItemSize("con") + Cmd.v.refs * ItemSize("ref")
                        ELSE 0)
Readable == at.pos < Len(stream.items) /\ CmdSize <= at.left
MoreToRead == at.entry < Entries
AfterCmd == [left |-> at.left - CmdSize, pos |-> at.pos + 1 + Trailing, entry |-> at.entry + 1]

Constants == [i \in 1..Cmd.v.cons |-> stream.items[at.pos + 1 + i].v]
References ==
  CASE Cmd.t = "dispatch" -> [i \in 1..Cmd.v.refs |-> stream.items[at.pos + 1 + Cmd.v.cons + i].v]
    [] Cmd.t = "copy" -> Cmd.v
    [] Cmd.t = "fill" -> <<Cmd.v.trgt>>
    [] Cmd.t = "barrier" -> <<>>
DirectRefs == {i \in DOMAIN References : References[i].fd # -1}

\* A walk that runs out of data returns AEE_EINCOMPLETEITEM. There is no step for it:
\* StreamIsComplete says that it does not happen.

\* First walk: count every direct reference.
CountCmd ==
  /\ phase = "count" /\ MoreToRead /\ Readable
  /\ maxBufs' = maxBufs + Cardinality(DirectRefs)
  /\ at' = AfterCmd
  /\ UNCHANGED <<hostVars, phase, stream, bufs, seen, merge, mem, wrote, calls>>

\* Without direct references there is nothing to allocate and to collect.
Counted ==
  /\ phase = "count" /\ ~ MoreToRead
  /\ phase' = IF maxBufs > 0 THEN "collect" ELSE "execute"
  /\ at' = StartOfStream(stream)
  /\ UNCHANGED <<hostVars, walkVars, mem, wrote, calls>>

\* Second walk: hexa_cmd_buf_add_direct_buf for each reference, which skips the indirect ones.
AddDirectBuf ==
  /\ phase = "collect" /\ merge = None /\ MoreToRead /\ Readable
  /\ seen < Len(References)
  /\ seen' = seen + 1
  /\ LET ref == References[seen + 1]
     IN  merge' = IF seen + 1 \in DirectRefs
                     THEN [fd |-> ref.fd, begin |-> ref.off, end |-> ref.off + ref.len, idx |-> 1]
                     ELSE None
  /\ UNCHANGED <<hostVars, phase, stream, maxBufs, bufs, at, mem, wrote, calls>>

CollectCmd ==
  /\ phase = "collect" /\ merge = None /\ MoreToRead /\ Readable
  /\ seen = Len(References)
  /\ seen' = 0
  /\ at' = AfterCmd
  /\ UNCHANGED <<hostVars, phase, stream, maxBufs, bufs, merge, mem, wrote, calls>>

Apart(b) == b.fd # merge.fd \/ b.begin > merge.end \/ merge.begin > b.end
\* The last range takes the place of the absorbed one and is looked at next.
WithoutMerged(i) == SubSeq([bufs EXCEPT ![i] = bufs[Len(bufs)]], 1, Len(bufs) - 1)
\* A mistake the runs must catch: the range moved into the gap is skipped.
LookPast(i) == i + 1
LookAtNext(i) == i

MergeStep ==
  /\ merge # None
  /\ merge.idx <= Len(bufs)
  /\ LET b == bufs[merge.idx]
     IN  IF Apart(b)
           THEN merge' = [merge EXCEPT !.idx = @ + 1] /\ UNCHANGED bufs
           ELSE /\ merge' = [merge EXCEPT !.begin = IF b.begin < @ THEN b.begin ELSE @,
                                          !.end = IF b.end > @ THEN b.end ELSE @,
                                          !.idx = LookAtNext(@)]
                /\ bufs' = WithoutMerged(merge.idx)
  /\ UNCHANGED <<hostVars, phase, stream, maxBufs, seen, at, mem, wrote, calls>>

MergeDone ==
  /\ merge # None
  /\ merge.idx > Len(bufs)
  /\ bufs' = Append(bufs, [fd |-> merge.fd, begin |-> merge.begin, end |-> merge.end])
  /\ merge' = None
  /\ UNCHANGED <<hostVars, phase, stream, maxBufs, seen, at, mem, wrote, calls>>

Collected ==
  /\ phase = "collect" /\ merge = None /\ ~ MoreToRead
  /\ phase' = "execute"
  /\ at' = StartOfStream(stream)
  /\ UNCHANGED <<hostVars, walkVars, mem, wrote, calls>>
------------------------------------------------------------------------------
(* Third walk: execution.                                                   *)

BindingTable == [i \in DOMAIN table |-> NormalizedRef(table[i])]

Resolves(ref) ==
  \/ ref.fd # -1
  \/ /\ ref.slot < Len(BindingTable)
     /\ InRange(ref.off, ref.len, BindingTable[ref.slot + 1].len)
\* A mistake the runs must catch: the offset of the binding is left out.
ResolvedFromStart(ref) ==
  IF ref.fd # -1
    THEN [fd |-> ref.fd, off |-> ref.off, len |-> ref.len]
    ELSE LET b == BindingTable[ref.slot + 1]
         IN  [fd |-> b.fd, off |-> ref.off, len |-> RestIfWhole(ref.off, ref.len, b.len)]
Resolved(ref) ==
  IF ref.fd # -1
    THEN [fd |-> ref.fd, off |-> ref.off, len |-> ref.len]
    ELSE LET b == BindingTable[ref.slot + 1]
         IN  [fd |-> b.fd, off |-> b.off + ref.off, len |-> RestIfWhole(ref.off, ref.len, b.len)]

\* Writes outside of an allocation are recorded in wrote; mem has no place for them.
Stored(fd, off, len, value) ==
  /\ wrote' = [fd |-> fd, first |-> off, len |-> len]
  /\ mem' = [mem EXCEPT ![fd] = [i \in DOMAIN @ |-> IF i >= off /\ i < off + len THEN value[i - off] ELSE @[i]]]

CanExecute(kind) ==
  /\ phase = "execute" /\ MoreToRead /\ Readable
  /\ Cmd.t = kind
  /\ \A i \in DOMAIN References : Resolves(References[i])

ExecBarrier ==
  /\ CanExecute("barrier")
  /\ at' = AfterCmd
  /\ UNCHANGED <<hostVars, phase, walkVars, mem, wrote, calls>>

ExecCopy ==
  /\ CanExecute("copy")
  /\ LET src == Resolved(Cmd.v[1])
         dest == Resolved(Cmd.v[2])
         len == IF dest.len < src.len THEN dest.len ELSE src.len
     IN  Stored(dest.fd, dest.off, len, [i \in 0..(len - 1) |-> mem[src.fd][src.off + i]])
  /\ at' = AfterCmd
  /\ UNCHANGED <<hostVars, phase, walkVars, calls>>

\* The loop counts to the length of the reference, which for an indirect reference to
\* the whole buffer is not the length it resolved to.
ExecFill ==
  /\ CanExecute("fill")
  /\ LET dest == Resolved(Cmd.v.trgt)
         len == Cmd.v.trgt.len
     IN  Stored(dest.fd, dest.off, len, [i \in 0..(len - 1) |-> Cmd.v.pattern[(i % Cmd.v.n) + 1]])
  /\ at' = AfterCmd
  /\ UNCHANGED <<hostVars, phase, walkVars, calls>>

ExecDispatch ==
  /\ CanExecute("dispatch")
  /\ calls' = Append(calls, [fn |-> Cmd.v.fn, size |-> Cmd.v.size, count |-> Cmd.v.count,
                             cons |-> Constants,
                             bindings |-> [i \in DOMAIN References |-> Resolved(References[i])]])
  /\ at' = AfterCmd
  /\ UNCHANGED <<hostVars, phase, walkVars, mem, wrote>>

\* A reference that cannot be resolved ends the execution.
ExecRefuses ==
  /\ phase = "execute" /\ MoreToRead /\ Readable
  /\ \E i \in DOMAIN References : ~ Resolves(References[i])
  /\ phase' = "error"
  /\ UNCHANGED <<hostVars, walkVars, at, mem, wrote, calls>>

ExecDone ==
  /\ phase = "execute" /\ ~ MoreToRead
  /\ phase' = "done"
  /\ UNCHANGED <<hostVars, walkVars, at, mem, wrote, calls>>

Next ==
  \/ \E c \in Palette : Record(c)
  \/ End \/ AddSize \/ Sized \/ CopyEntry \/ Sent \/ EndFails
  \/ CountCmd \/ Counted
  \/ CollectCmd \/ AddDirectBuf \/ MergeStep \/ MergeDone \/ Collected
  \/ ExecBarrier \/ ExecCopy \/ ExecFill \/ ExecDispatch \/ ExecRefuses \/ ExecDone

Spec == Init /\ [][Next]_vars
------------------------------------------------------------------------------
(* The addresses a caller means, byte by byte, without offset arithmetic.   *)

BytesOf(b) == [i \in 1..b.len |-> <<b.fd, b.base + i - 1>>]
Part(bytes, off, len) == SubSeq(bytes, off + 1, IF len = Whole THEN Len(bytes) ELSE off + len)
DirectBytes(ref) == Part(BytesOf(Buffers[ref.buf]), ref.off, ref.len)
Bytes(ref) ==
  IF IsDirect(ref) THEN DirectBytes(ref)
                   ELSE Part(DirectBytes(table[ref.slot + 1]), ref.off, ref.len)

\* Memory m with the n-th value at the n-th of the addresses to.
Assign(m, to, value) ==
  [fd \in DOMAIN m |-> [i \in DOMAIN m[fd] |->
     LET k == {n \in DOMAIN to : to[n] = <<fd, i>>}
     IN  IF k = {} THEN m[fd][i] ELSE value[CHOOSE n \in k : TRUE]]]
Effect(m, c) ==
  CASE c.kind = "fill" ->
         LET to == Bytes(c.trgt)
         IN  Assign(m, to, [n \in DOMAIN to |-> c.pattern[((n - 1) % Len(c.pattern)) + 1]])
    [] c.kind = "copy" ->
         LET from == Bytes(c.src)
             to == Bytes(c.trgt)
             n == IF Len(from) < Len(to) THEN Len(from) ELSE Len(to)
         IN  Assign(m, SubSeq(to, 1, n), [k \in 1..n |-> m[from[k][1]][from[k][2]]])
    [] OTHER -> m
Call(c) ==
  [fn |-> c.fn, size |-> [i \in 1..3 |-> IF c.wgSize[i] = 0 THEN 1 ELSE c.wgSize[i]],
   cons |-> [i \in 1..(c.conBytes \div 4) |-> i],
   bindings |-> [i \in DOMAIN c.bindings |-> Bytes(c.bindings[i])]]

\* The DSP never runs out of data or meets a structure it did not expect: the sizes that
\* the host computes before it serializes are the sizes it writes and the DSP reads.
StreamIsComplete ==
  /\ phase \in {"count", "collect", "execute"} /\ MoreToRead =>
       /\ Readable
       /\ Cmd.t \in {"dispatch", "barrier", "copy", "fill"}
       /\ \A i \in DOMAIN References : "slot" \in DOMAIN References[i]
  /\ phase \in {"collect", "execute"} /\ ~ MoreToRead => at.left = 0

\* What the first n commands mean: memory after them, and the dispatches among them.
MemoryAfter[n \in 0..Len(asked)] ==
  IF n = 0 THEN ZeroMemory ELSE Effect(MemoryAfter[n - 1], asked[n])
Dispatched[n \in 0..Len(asked)] ==
  IF n = 0 THEN <<>>
  ELSE IF asked[n].kind = "dispatch" THEN Append(Dispatched[n - 1], asked[n])
  ELSE Dispatched[n - 1]
\* A kernel was called as command c says, but for a workgroup count of more than 16 bits in z.
CalledAs(call, c) ==
  /\ c.wgCount[3] <= U16Max => call.count = c.wgCount
  /\ Call(c) = [fn |-> call.fn, size |-> call.size, cons |-> call.cons,
                bindings |-> [i \in DOMAIN call.bindings |->
                  BytesOf([fd |-> call.bindings[i].fd, base |-> call.bindings[i].off,
                           len |-> call.bindings[i].len])]]

\* Executing the stream does what was recorded: memory holds what the commands so far
\* mean for the buffers and bindings the caller named, and each kernel was called with
\* its constants, its workgroup size and its bindings; so was the workgroup count unless
\* its z component has more than 16 bits.
ExecutesAsRecorded ==
  phase \in {"execute", "done"} =>
    LET want == Dispatched[at.entry]
    IN  /\ mem = MemoryAfter[at.entry]
        /\ Len(calls) = Len(want)
        /\ \A k \in DOMAIN want : CalledAs(calls[k], want[k])

\* The ranges that cache maintenance works on are exactly the bytes of the direct
\* references, merged until no two of an allocation touch, and the array that the counting
\* walk sized never overflows.
DirectRangesExact ==
  /\ phase = "collect" => Len(bufs) + (IF merge = None THEN 0 ELSE 1) <= maxBufs
  /\ phase \in {"execute", "done"} =>
       /\ UNION {{<<bufs[i].fd, k>> : k \in bufs[i].begin..(bufs[i].end - 1)} : i \in DOMAIN bufs} =
            UNION {UNION {Range(DirectBytes(r)) : r \in {x \in Range(RefsOf(c)) : IsDirect(x)}} : c \in Range(asked)}
       /\ \A i, j \in DOMAIN bufs :
            i # j /\ bufs[i].fd = bufs[j].fd =>
              bufs[i].end < bufs[j].begin \/ bufs[j].end < bufs[i].begin

\* A fill writes only to the bytes that its target reference resolved to, the rest of the
\* binding table entry for a whole-buffer reference (resolve_and_map).
FillStaysInBinding ==
  (phase = "execute" /\ at.entry > 0 /\ asked[at.entry].kind = "fill") =>
    wrote.len <= Len(Bytes(asked[at.entry].trgt))
============================================================================

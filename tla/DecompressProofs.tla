-------------------------- MODULE DecompressProofs --------------------------
(***************************************************************************)
(* Proofs about Decompress, for any contents of the .linux section, any    *)
(* set of decompressors and both kinds of build.                           *)
(*                                                                         *)
(* The three properties speak of the moment decompress() returns; what     *)
(* they need is how far the library has come at every call: Progress says  *)
(* it in terms of the section alone, because one call decodes as far as    *)
(* input, output room and frame allow.  LabelInv says which of the block,  *)
(* the context and the buffers are there at each label.                    *)
(*                                                                         *)
(* The invariant does not use the names of the other blocks in the pool,   *)
(* so that it also holds where the pool is shared (BootStub).              *)
(***************************************************************************)
EXTENDS Decompress, Integers, TLAPS

(* The pool, which has a block for the kernel.                             *)
PoolOK == heap \in [DOMAIN heap -> BlockState] /\ "kernel" \in DOMAIN heap

(* All of TypeOK but `stub'.                                               *)
DataOK ==
  /\ dpc \in Labels
  /\ section \in Sections
  /\ inbuf \in BufferType({"NULL", "section"}) /\ inbuf.pos <= inbuf.length
  /\ outbuf \in BufferType({"NULL", "section", "kernel"})
  /\ ctx \in {"none", "live", "freed"}
  /\ result \in {"zero", "hint"} /\ decoded \in Nat
  /\ derr \in {"EFI_SUCCESS", "EFI_UNSUPPORTED", "EFI_OUT_OF_RESOURCES",
               "EFI_COMPROMISED_DATA", "EFI_INVALID_PARAMETER"}

-----------------------------------------------------------------------------
(* Blocks one call takes from the section, blocks it has room for, and     *)
(* whether it comes to the end mark.                                       *)
Taken == Min({section.blocks, section.size - 1, section.declared + 1})
Flushed == Min({Taken, section.declared})
Marked == Flushed = section.blocks /\ section.size >= MarkEnd(section)

(* The library has not been called; the frame header may have been read.   *)
NotBegun == result = "zero" /\ decoded = 0 /\ inbuf.pos = IF section.fmt = "lz4" THEN 1 ELSE 0

(* The frame has been decoded to its end, was the frame declared, and no   *)
(* checksum in it contradicts.                                             *)
FrameDone ==
  /\ ~BlockRefused(section, section.blocks) /\ ~ContentRefused(section, section.size)
  /\ section.declared = section.blocks
  /\ section.size >= FrameEnd(section) /\ decoded = section.blocks

(* How far the library has come when it returns to the loop.               *)
Progress ==
  \/ NotBegun
  \/ result = "zero" /\ FrameDone /\ inbuf.pos >= FrameEnd(section)
  \/ /\ result = "hint" /\ ~BlockRefused(section, Taken)
     /\ inbuf.pos = (IF Marked THEN section.size ELSE Taken + 1) /\ decoded = Flushed
     /\ Marked => section.size < FrameEnd(section)
  \/ /\ result = "hint" /\ FrameDone
     /\ section.size > FrameEnd(section) /\ inbuf.pos > FrameEnd(section)

(* What is known of a section that was accepted.                           *)
Accepted ==
  /\ DamageUncovered(section) /\ CutReported(section, result)
  /\ Complete(section) => result = "zero" /\ decoded = section.blocks

(* The buffer over the whole section, and the one for the kernel.          *)
OverSection == inbuf.buffer = "section" /\ inbuf.length = section.size /\ section.size > 0

KernelBuffer ==
  /\ heap["kernel"] = "live" /\ outbuf.buffer = "kernel"
  /\ outbuf.allocated = section.declared /\ section.declared \in Nat
  /\ section.fmt = "lz4" => section.declared > 0
  /\ outbuf.free = "free_simple_buffer"
  /\ outbuf.length = IF section.fmt = "lz4" THEN decoded ELSE section.declared

Nothing == outbuf = NullBuffer /\ heap["kernel"] = "none"

Before == {"idle", "decompress", "lz4_context", "zstd_size"}
Lz4Labels == {"lz4_context", "lz4_info", "lz4_loop", "lz4_end"}
ZstdLabels == {"zstd_size", "zstd_loop", "zstd_end"}

LabelInv ==
  /\ dpc \in Lz4Labels => section.fmt = "lz4"
  /\ dpc \in ZstdLabels => section.fmt = "zstd"
  /\ dpc = "decompress" => inbuf.length = section.size /\ inbuf.buffer = "section"
  /\ dpc \in Before => Nothing /\ ctx = "none" /\ inbuf.pos = 0 /\ decoded = 0
  /\ dpc \in Lz4Labels \cup ZstdLabels => OverSection
  /\ dpc = "lz4_info" => Nothing /\ decoded = 0
  /\ dpc \in {"lz4_loop", "zstd_loop"} => KernelBuffer /\ Progress /\ outbuf.pos = decoded
  /\ dpc \in {"lz4_end", "zstd_end"} =>
       IF EfiError(derr) THEN KernelBuffer \/ (dpc = "lz4_end" /\ Nothing)
       ELSE KernelBuffer /\ Accepted
  /\ dpc = "returned" =>
       /\ ctx # "live"
       /\ IF EfiError(derr)
          THEN heap["kernel"] \in {"none", "freed"} \/ (heap["kernel"] = "live" /\ ZeroLength(section))
          ELSE \/ section.fmt = "pe" /\ heap["kernel"] = "none" /\ outbuf.buffer = "section"
               \/ /\ section.fmt \in Compressed /\ KernelBuffer /\ Accepted
                  /\ outbuf.pos = 0

DecompressInv == PoolOK /\ DataOK /\ LabelInv

-----------------------------------------------------------------------------
(* Facts                                                                   *)

LEMMA SectionType ==
  ASSUME section \in Sections
  PROVE  /\ section.size \in Nat /\ section.declared \in Nat \cup {NoSize} /\ section.blocks \in Nat
         /\ section.bad \in Nat /\ section.header \in BOOLEAN /\ section.decodes \in BOOLEAN
         /\ section.behind \in {"junk", "empty", "frame"} /\ section.sums \subseteq {"block", "content"}
         /\ section.fmt \in {"lz4", "zstd", "pe", "other"}
BY DecompressAssumption

LEMMA MinOfTwo ==
  ASSUME NEW a \in Int, NEW b \in Int
  PROVE  Min({a, b}) = IF a <= b THEN a ELSE b
<1>1. PICK m \in {a, b} : \A y \in {a, b} : m <= y
  OBVIOUS
<1>2. \A x \in {a, b} : (\A y \in {a, b} : x <= y) => x = m
  BY <1>1
<1> QED
  BY <1>1, <1>2 DEF Min

LEMMA MinOfThree ==
  ASSUME NEW a \in Int, NEW b \in Int, NEW c \in Int
  PROVE  /\ Min({a, b, c}) \in {a, b, c}
         /\ Min({a, b, c}) <= a /\ Min({a, b, c}) <= b /\ Min({a, b, c}) <= c
<1>1. PICK m \in {a, b, c} : \A y \in {a, b, c} : m <= y
  <2>1. CASE a <= b /\ a <= c
    BY <2>1
  <2>2. CASE b <= a /\ b <= c
    BY <2>2
  <2>3. CASE c <= a /\ c <= b
    BY <2>3
  <2> QED
    BY <2>1, <2>2, <2>3
<1>2. \A x \in {a, b, c} : (\A y \in {a, b, c} : x <= y) => x = m
  BY <1>1
<1> QED
  BY <1>1, <1>2 DEF Min

LEMMA NullFields ==
  /\ NullBuffer \in [buffer : {"NULL"}, length : {0}, pos : {0}, allocated : {0}, free : {"NULL"}]
  /\ NullBuffer \in BufferType({"NULL", "section", "kernel"})
  /\ NullBuffer \in BufferType({"NULL", "section"})
BY DEF NullBuffer, BufferType

(* malloc() and free() of the kernel's block.                              *)
LEMMA KernelBlock ==
  ASSUME NEW h, h \in [DOMAIN h -> BlockState], "kernel" \in DOMAIN h
  PROVE  /\ Malloc(h, "kernel") \in [DOMAIN h -> BlockState]
         /\ Malloc(h, "kernel")["kernel"] = "live"
         /\ Free(h, "kernel") \in [DOMAIN h -> BlockState]
         /\ Free(h, "kernel")["kernel"] = IF h["kernel"] = "live" THEN "freed" ELSE "corrupt"
BY DEF Malloc, Free, BlockState

(* What allocate_simple_buffer() makes of a buffer.                        *)
LEMMA AllocatedFields ==
  ASSUME NEW b \in BufferType({"NULL", "section", "kernel"}), NEW n \in Nat
  PROVE  LET a == AllocateSimpleBuffer(b, "kernel", n)
         IN  /\ a \in BufferType({"NULL", "section", "kernel"})
             /\ a.buffer = "kernel" /\ a.length = 0 /\ a.pos = 0 /\ a.allocated = n
             /\ a.free = "free_simple_buffer"
BY DEF AllocateSimpleBuffer, BufferType

-----------------------------------------------------------------------------
(* The library                                                             *)

LEMMA TakenBounds ==
  ASSUME section \in Sections, section.size > 0, section.declared \in Nat
  PROVE  /\ Taken \in Nat /\ Taken <= section.blocks /\ Taken <= section.size - 1
         /\ Taken <= section.declared + 1
         /\ Taken \in {section.blocks, section.size - 1, section.declared + 1}
         /\ Flushed = IF Taken <= section.declared THEN Taken ELSE section.declared
         /\ Flushed \in Nat
<1>1. /\ section.blocks \in Nat /\ section.declared \in Nat /\ section.size \in Nat
  BY SectionType
<1> DEFINE i == section.size - 1
           o == section.declared + 1
<1>2. i \in Nat /\ o \in Nat
  BY <1>1
<1>3. Taken = Min({section.blocks, i, o})
  BY DEF Taken
<1> HIDE DEF i, o
<1>4. /\ Taken \in {section.blocks, i, o}
      /\ Taken <= section.blocks /\ Taken <= i /\ Taken <= o
  <2>1. section.blocks \in Int /\ i \in Int /\ o \in Int
    BY <1>1, <1>2
  <2> QED
    BY <1>3, <2>1, MinOfThree, Zenon
<1>5. Taken \in Nat
  BY <1>1, <1>2, <1>4
<1>6. /\ Flushed = IF Taken <= section.declared THEN Taken ELSE section.declared
      /\ Flushed \in Nat
  BY <1>1, <1>5, MinOfTwo DEF Flushed
<1> QED
  BY <1>4, <1>5, <1>6 DEF i, o

LEMMA Ends ==
  ASSUME section \in Sections
  PROVE  /\ MarkEnd(section) = section.blocks + 2
         /\ FrameEnd(section) = MarkEnd(section) + (IF "content" \in section.sums THEN 1 ELSE 0)
BY SectionType DEF MarkEnd, FrameEnd

(* What one call, made from the loop, leaves behind.                       *)
CallResult(r) ==
  /\ r.res \in {"zero", "hint"} /\ r.in \in Nat /\ r.in <= section.size /\ r.out \in Nat
  /\ \/ /\ r.res \in {"zero", "hint"} /\ r.in >= FrameEnd(section) /\ r.out = section.blocks
        /\ ~BlockRefused(section, section.blocks) /\ ~ContentRefused(section, section.size)
        /\ section.declared = section.blocks /\ section.size >= FrameEnd(section)
        /\ r.res = "hint" => section.size > FrameEnd(section) /\ r.in > FrameEnd(section)
     \/ /\ r.res = "hint" /\ ~BlockRefused(section, Taken)
        /\ r.in = (IF Marked THEN section.size ELSE Taken + 1) /\ r.out = Flushed
        /\ Marked => section.size < FrameEnd(section)

LEMMA CallProgresses ==
  ASSUME section \in Sections, OverSection, outbuf.allocated = section.declared,
         section.declared \in Nat,
         outbuf.pos = decoded, Progress, inbuf.pos < inbuf.length, inbuf.pos \in Nat,
         NEW r \in CodecCall(section, inbuf, outbuf)
  PROVE  r = CodecError \/ CallResult(r)
<1>s. /\ section.size \in Nat /\ section.declared \in Nat /\ section.blocks \in Nat
      /\ section.bad \in Nat /\ section.size > 0 /\ inbuf.length = section.size
  BY SectionType DEF OverSection
<1>e. /\ MarkEnd(section) = section.blocks + 2
      /\ FrameEnd(section) \in {MarkEnd(section), MarkEnd(section) + 1}
  BY <1>s, Ends
<1>t. /\ Taken \in Nat /\ Taken <= section.blocks /\ Taken <= section.size - 1
      /\ Flushed \in Nat /\ Flushed <= Taken
  BY <1>s, TakenBounds
<1>1. Min({section.blocks, inbuf.length - 1, outbuf.allocated + 1}) = Taken
  BY <1>s DEF Taken
<1>2. Min({Taken, outbuf.allocated}) = Flushed
  BY DEF Flushed
<1>3. CASE inbuf.pos >= FrameEnd(section)
  <2>1. FrameDone /\ section.size > FrameEnd(section)
    BY <1>3, <1>s, <1>e, <1>t DEF Progress, NotBegun, FrameDone
  <2>2. r \in NextFrame(section, inbuf, outbuf)
    BY <1>3 DEF CodecCall
  <2>3. \/ r = CodecError
        \/ /\ r.out = outbuf.pos
           /\ \/ r.in = inbuf.pos + 1 /\ r.res \in {"zero", "hint"}
              \/ r.in = inbuf.pos /\ r.res = "hint" /\ inbuf.pos # FrameEnd(section)
              \/ r.in = inbuf.length /\ r.res = "hint"
    BY <2>2 DEF NextFrame
  <2>4. inbuf.pos + 1 <= section.size /\ inbuf.pos + 1 > FrameEnd(section)
    BY <1>3, <1>s, <1>e
  <2>5. r = CodecError \/ (r.in \in Nat /\ r.in <= section.size /\ r.in > FrameEnd(section)
                          /\ r.res \in {"zero", "hint"} /\ r.out = section.blocks)
    BY <1>3, <1>s, <1>e, <2>1, <2>3, <2>4 DEF FrameDone
  <2> QED
    BY <1>s, <1>e, <2>1, <2>5 DEF FrameDone, CallResult
<1>4. CASE ~(inbuf.pos >= FrameEnd(section))
  <2>1. \/ r = CodecError
        \/ /\ ~BlockRefused(section, Taken)
           /\ ~(Marked /\ ContentRefused(section, section.size))
           /\ \/ /\ Marked /\ section.size >= FrameEnd(section)
                 /\ r = [in |-> FrameEnd(section), out |-> Flushed, res |-> "zero"]
              \/ /\ ~(Marked /\ section.size >= FrameEnd(section))
                 /\ r = [in |-> IF Marked THEN section.size ELSE Taken + 1,
                         out |-> Flushed, res |-> "hint"]
    BY <1>1, <1>2, <1>4, <1>s DEF CodecCall, Marked
  <2>2. CASE /\ ~BlockRefused(section, Taken) /\ ~ContentRefused(section, section.size)
             /\ Marked /\ section.size >= FrameEnd(section)
             /\ r = [in |-> FrameEnd(section), out |-> Flushed, res |-> "zero"]
    <3>1. Taken = section.blocks /\ Flushed = section.blocks
      BY <1>s, <1>t, <2>2 DEF Marked
    <3>2. section.declared = section.blocks
      BY <2>2 DEF ContentRefused
    <3> QED
      BY <1>s, <1>e, <2>2, <3>1, <3>2 DEF CallResult
  <2>3. CASE /\ ~BlockRefused(section, Taken) /\ ~(Marked /\ section.size >= FrameEnd(section))
             /\ r = [in |-> IF Marked THEN section.size ELSE Taken + 1,
                     out |-> Flushed, res |-> "hint"]
    BY <1>s, <1>e, <1>t, <2>3 DEF CallResult
  <2> QED
    BY <2>1, <2>2, <2>3
<1> QED
  BY <1>3, <1>4

(* At the end of the input an accepted section is as Accepted says.        *)
LEMMA EofAccepts ==
  ASSUME section \in Sections, OverSection, Progress, inbuf.pos >= inbuf.length,
         section.fmt \in Compressed, section.declared \in Nat
  PROVE  Accepted
<1>s. /\ section.size \in Nat /\ section.declared \in Nat /\ section.blocks \in Nat
      /\ section.bad \in Nat /\ section.size > 0 /\ inbuf.length = section.size
      /\ section.decodes \in BOOLEAN
  BY SectionType DEF OverSection
<1>e. /\ MarkEnd(section) = section.blocks + 2
      /\ FrameEnd(section) = MarkEnd(section) + (IF "content" \in section.sums THEN 1 ELSE 0)
  BY Ends
<1>t. /\ Taken \in Nat /\ Taken <= section.blocks /\ Taken <= section.size - 1
      /\ Flushed \in Nat /\ Flushed <= Taken
  BY <1>s, TakenBounds
<1>m. LastBlock(section) =
        IF section.size - 1 <= section.blocks THEN section.size - 1 ELSE section.blocks
  BY <1>s, MinOfTwo DEF LastBlock
<1>1. CASE NotBegun
  <2>1. section.fmt = "lz4" /\ section.size = 1
    BY <1>1, <1>s DEF NotBegun
  <2> QED
    BY <1>e, <1>m, <1>s, <2>1 DEF Accepted, DamageUncovered, CutReported, Complete
<1>2. CASE FrameDone /\ (result = "hint" => section.size > FrameEnd(section)) /\ ~NotBegun
  <2>1. LastBlock(section) = section.blocks
    BY <1>2, <1>e, <1>m, <1>s DEF FrameDone
  <2>2. section.bad \in 1 .. section.blocks =>
          section.decodes /\ "block" \notin section.sums /\ "content" \notin section.sums
    BY <1>2, <1>s DEF FrameDone, BlockRefused, ContentRefused
  <2>3. Complete(section) => result = "zero" /\ decoded = section.blocks
    BY <1>2, <1>e, <1>s DEF FrameDone, Complete, Progress
  <2>4. section.size >= FrameEnd(section)
    BY <1>2 DEF FrameDone
  <2> QED
    BY <2>1, <2>2, <2>3, <2>4 DEF Accepted, DamageUncovered, CutReported
<1>3. CASE /\ result = "hint" /\ ~BlockRefused(section, Taken)
           /\ inbuf.pos = (IF Marked THEN section.size ELSE Taken + 1)
           /\ Marked => section.size < FrameEnd(section)
  <2>1. Taken = LastBlock(section)
    BY <1>3, <1>e, <1>m, <1>s, <1>t DEF Marked
  <2>2. section.size < FrameEnd(section)
    <3>1. CASE Marked
      BY <1>3, <3>1
    <3>2. CASE ~Marked
      BY <1>3, <1>e, <1>s, <1>t, <3>2
    <3> QED
      BY <3>1, <3>2
  <2>3. section.bad \in 1 .. LastBlock(section) => section.decodes /\ "block" \notin section.sums
    BY <1>3, <2>1 DEF BlockRefused
  <2> QED
    BY <1>3, <1>e, <1>s, <2>2, <2>3 DEF Accepted, DamageUncovered, CutReported, Complete
<1> QED
  BY <1>1, <1>2, <1>3 DEF Progress

-----------------------------------------------------------------------------
(* The invariant                                                           *)

LEMMA InvInit == Init => DecompressInv
<1> SUFFICES ASSUME Init PROVE DecompressInv
  OBVIOUS
<1>1. PoolOK /\ heap["kernel"] = "none"
  BY DEF Init, PoolOK, BlockState
<1>2. DataOK
  BY NullFields DEF Init, DataOK, Labels
<1>3. LabelInv
  BY <1>1, NullFields DEF Init, LabelInv, Before, Lz4Labels, ZstdLabels, Nothing
<1> QED
  BY <1>1, <1>2, <1>3 DEF DecompressInv

(* The pool keeps its shape.                                               *)
LEMMA PoolStep ==
  ASSUME DecompressInv, Call \/ Steps
  PROVE  /\ PoolOK' /\ DOMAIN heap' = DOMAIN heap
         /\ \A b \in DOMAIN heap \ {"kernel"} : heap'[b] = heap[b]
<1>1. heap' \in {heap, Malloc(heap, "kernel"), Free(heap, "kernel"),
                Free(Malloc(heap, "kernel"), "kernel")}
  <2>1. CASE LZ4End
    <3>1. outbuf.free = "NULL" \/ outbuf.buffer = "kernel" \/ ~EfiError(derr)
      BY <2>1, NullFields DEF LZ4End, DecompressInv, LabelInv, KernelBuffer, Nothing
    <3> QED
      BY <2>1, <3>1 DEF LZ4End, FreeSimpleBuffer
  <2>2. CASE ZSTDEnd
    <3>1. outbuf.buffer = "kernel"
      BY <2>2 DEF ZSTDEnd, DecompressInv, LabelInv, KernelBuffer
    <3> QED
      BY <2>2, <3>1 DEF ZSTDEnd, FreeSimpleBuffer
  <2>3. CASE LZ4FrameInfo
    BY <2>3 DEF LZ4FrameInfo, LZ4Fail, AllocateKernel
  <2>4. CASE ZSTDPrepare
    BY <2>4 DEF ZSTDPrepare
  <2>5. CASE Call \/ Detect \/ LZ4CreateContext \/ LZ4Loop \/ LZ4Eof \/ ZSTDLoop \/ ZSTDEof
    BY <2>5 DEF Call, Detect, LZ4CreateContext, LZ4Loop, LZ4Eof, ZSTDLoop, ZSTDEof, AssertExit
  <2> QED
    BY <2>1, <2>2, <2>3, <2>4, <2>5 DEF Steps
<1> QED
  BY <1>1, KernelBlock DEF DecompressInv, PoolOK, Malloc, Free

(* What one round of a loop makes of the buffers.                          *)
LEMMA RoundStep ==
  ASSUME DecompressInv, dpc \in {"lz4_loop", "zstd_loop"}, inbuf.pos < inbuf.length,
         NEW r \in CodecCall(section, inbuf, outbuf), r # CodecError,
         inbuf' = [inbuf EXCEPT !.pos = r.in],
         outbuf' = IF dpc = "lz4_loop" THEN [outbuf EXCEPT !.pos = r.out, !.length = r.out]
                   ELSE [outbuf EXCEPT !.pos = r.out],
         result' = r.res, decoded' = r.out, UNCHANGED <<dpc, derr, section, ctx, heap>>
  PROVE  DataOK' /\ LabelInv'
<1>1. /\ section \in Sections /\ OverSection /\ KernelBuffer /\ Progress /\ outbuf.pos = decoded
      /\ inbuf \in BufferType({"NULL", "section"})
      /\ outbuf \in BufferType({"NULL", "section", "kernel"})
      /\ section.fmt = IF dpc = "lz4_loop" THEN "lz4" ELSE "zstd"
  BY DEF DecompressInv, DataOK, LabelInv, Lz4Labels, ZstdLabels
<1>2. CallResult(r)
  BY <1>1, CallProgresses DEF KernelBuffer, BufferType
<1>3. /\ inbuf' \in BufferType({"NULL", "section"}) /\ inbuf'.pos = r.in
      /\ inbuf'.length = inbuf.length /\ inbuf'.buffer = inbuf.buffer
      /\ outbuf' \in BufferType({"NULL", "section", "kernel"}) /\ outbuf'.pos = r.out
      /\ outbuf'.buffer = outbuf.buffer /\ outbuf'.allocated = outbuf.allocated
      /\ outbuf'.free = outbuf.free
      /\ outbuf'.length = IF dpc = "lz4_loop" THEN r.out ELSE outbuf.length
  BY <1>1, <1>2 DEF BufferType, CallResult
<1>4. DataOK'
  BY <1>1, <1>2, <1>3 DEF DecompressInv, DataOK, OverSection, CallResult
<1>5. Taken' = Taken /\ Flushed' = Flushed /\ Marked' = Marked
  BY DEF Taken, Flushed, Marked
<1>6. Progress'
  BY <1>2, <1>3, <1>5 DEF Progress, FrameDone, CallResult
<1>7. KernelBuffer' /\ OverSection' /\ outbuf'.pos = decoded'
  BY <1>1, <1>3 DEF KernelBuffer, OverSection
<1> QED
  BY <1>1, <1>4, <1>6, <1>7
  DEF LabelInv, Before, Lz4Labels, ZstdLabels

(* decompress() keeps the invariant, whatever is in the section.           *)
LEMMA PartStep == DecompressInv /\ (Call \/ Steps) => DecompressInv'
<1> SUFFICES ASSUME DecompressInv, Call \/ Steps PROVE DecompressInv'
  OBVIOUS
<1>p. PoolOK' /\ PoolOK
  BY PoolStep DEF DecompressInv
<1>s. /\ section \in Sections /\ section.size \in Nat /\ section.declared \in Nat \cup {NoSize}
      /\ section.blocks \in Nat /\ section.fmt \in {"lz4", "zstd", "pe", "other"}
  BY SectionType DEF DecompressInv, DataOK
<1>b. /\ inbuf \in BufferType({"NULL", "section"})
      /\ outbuf \in BufferType({"NULL", "section", "kernel"})
  BY DEF DecompressInv, DataOK
<1>d. section.declared # NoSize \/ section.declared > 0 => section.declared \in Nat
  BY <1>s DEF NoSize
<1> SUFFICES DataOK' /\ LabelInv'
  BY <1>p DEF DecompressInv
<1>k. ASSUME UNCHANGED <<section, inbuf, outbuf, result, decoded>>, heap'["kernel"] = heap["kernel"]
      PROVE  /\ OverSection' = OverSection /\ KernelBuffer' = KernelBuffer /\ Nothing' = Nothing
             /\ Progress' = Progress /\ Accepted' = Accepted
  BY <1>k DEF OverSection, KernelBuffer, Nothing, Progress, NotBegun, FrameDone, Taken, Flushed,
              Marked, Accepted
<1>1. CASE Call
  <2>1. /\ inbuf' \in BufferType({"NULL", "section"}) /\ inbuf'.pos = 0
        /\ inbuf'.length = section.size /\ inbuf'.buffer = "section"
    BY <1>1, <1>s, NullFields DEF Call, BufferType
  <2>2. DataOK'
    BY <1>1, <1>s, <2>1, NullFields DEF Call, Goto, DecompressInv, DataOK, Labels
  <2> QED
    BY <1>1, <2>1, <2>2
    DEF Call, Goto, DecompressInv, LabelInv, Before, Lz4Labels, ZstdLabels, Nothing
<1>2. CASE Detect
  <2>1. /\ Nothing /\ ctx = "none" /\ inbuf.pos = 0 /\ inbuf.length = section.size /\ decoded = 0
        /\ inbuf.buffer = "section"
    BY <1>2 DEF Detect, DecompressInv, LabelInv, Before
  <2>u. UNCHANGED <<section, inbuf, ctx, result, decoded, heap, stub>>
    BY <1>2 DEF Detect
  <2>2. CASE outbuf' = [inbuf EXCEPT !.free = "NULL"] /\ section.fmt = "pe" /\ Return("EFI_SUCCESS")
    <3>1. outbuf' \in BufferType({"NULL", "section", "kernel"}) /\ outbuf'.buffer = inbuf.buffer
      BY <1>b, <2>2 DEF BufferType
    <3>2. dpc' = "returned" /\ derr' = "EFI_SUCCESS"
      BY <2>2 DEF Return
    <3>3. DataOK'
      BY <2>u, <3>1, <3>2 DEF DecompressInv, DataOK, Labels
    <3> QED
      BY <2>1, <2>2, <2>u, <3>1, <3>2, <3>3
      DEF LabelInv, Before, Lz4Labels, ZstdLabels, EfiError, Nothing
  <2>3. CASE \E status \in {"EFI_INVALID_PARAMETER", "EFI_UNSUPPORTED"} :
               Return(status) /\ UNCHANGED outbuf
    <3>1. DataOK'
      BY <2>3, <2>u DEF Return, DecompressInv, DataOK, Labels
    <3> QED
      BY <2>1, <2>3, <2>u, <3>1
      DEF Return, LabelInv, Before, Lz4Labels, ZstdLabels, EfiError, Nothing
  <2>4. CASE /\ UNCHANGED <<outbuf, derr>> /\ inbuf.length > 0
             /\ \/ dpc' = "zstd_size" /\ section.fmt = "zstd"
                \/ dpc' = "lz4_context" /\ section.fmt = "lz4"
    <3>1. DataOK'
      BY <2>4, <2>u DEF DecompressInv, DataOK, Labels
    <3>2. Nothing' /\ OverSection'
      BY <2>1, <2>4, <2>u DEF Nothing, OverSection
    <3> QED
      BY <2>1, <2>4, <2>u, <3>1, <3>2 DEF LabelInv, Before, Lz4Labels, ZstdLabels
  <2> QED
    BY <1>2, <2>2, <2>3, <2>4 DEF Detect, Goto
<1>3. CASE LZ4CreateContext
  <2>1. Nothing /\ OverSection /\ section.fmt = "lz4" /\ decoded = 0 /\ ctx = "none"
    BY <1>3 DEF LZ4CreateContext, DecompressInv, LabelInv, Before, Lz4Labels
  <2>u. UNCHANGED <<section, inbuf, outbuf, result, decoded, heap, stub>>
    BY <1>3 DEF LZ4CreateContext
  <2>2. DataOK'
    BY <1>3, <2>u DEF LZ4CreateContext, Return, Goto, DecompressInv, DataOK, Labels
  <2>3. Nothing' /\ OverSection'
    BY <1>k, <2>1, <2>u
  <2> QED
    BY <1>3, <2>1, <2>2, <2>3, <2>u
    DEF LZ4CreateContext, Return, Goto, LabelInv, Before, Lz4Labels, ZstdLabels, EfiError, Nothing
<1>4. CASE LZ4FrameInfo
  <2>1. /\ Nothing /\ OverSection /\ section.fmt = "lz4" /\ decoded = 0 /\ dpc = "lz4_info"
    BY <1>4 DEF LZ4FrameInfo, DecompressInv, LabelInv, Lz4Labels
  <2>u. UNCHANGED <<section, ctx, decoded, stub>> /\ result' = "zero"
    BY <1>4 DEF LZ4FrameInfo
  <2>2. /\ inbuf' \in BufferType({"NULL", "section"}) /\ inbuf'.buffer = inbuf.buffer
        /\ inbuf'.length = inbuf.length /\ inbuf'.pos <= inbuf'.length
        /\ inbuf' = [inbuf EXCEPT !.pos = 1] => inbuf'.pos = 1
    BY <1>4, <1>b, <2>1, <1>s DEF LZ4FrameInfo, BufferType, OverSection, DecompressInv, DataOK
  <2>3. CASE \E status \in {"EFI_UNSUPPORTED", "EFI_OUT_OF_RESOURCES"} : LZ4Fail(status)
    <3>1. DataOK'
      BY <2>2, <2>3, <2>u DEF LZ4Fail, Goto, DecompressInv, DataOK, Labels
    <3>2. Nothing' /\ OverSection'
      BY <2>1, <2>2, <2>3, <2>u DEF LZ4Fail, Nothing, OverSection
    <3> QED
      BY <2>1, <2>3, <2>u, <3>1, <3>2
      DEF LZ4Fail, Goto, LabelInv, Before, Lz4Labels, ZstdLabels, EfiError
  <2>4. CASE section.declared > 0 /\ AllocateKernel(section.declared)
             /\ Goto("lz4_loop") /\ UNCHANGED derr /\ inbuf' = [inbuf EXCEPT !.pos = 1]
    <3>1. /\ outbuf' \in BufferType({"NULL", "section", "kernel"})
          /\ outbuf'.buffer = "kernel" /\ outbuf'.length = 0 /\ outbuf'.pos = 0
          /\ outbuf'.allocated = section.declared /\ outbuf'.free = "free_simple_buffer"
      BY <1>d, <1>b, <2>4, AllocatedFields DEF AllocateKernel
    <3>2. heap'["kernel"] = "live"
      BY <1>p, <2>4, KernelBlock DEF AllocateKernel, PoolOK
    <3>3. DataOK'
      BY <2>2, <2>4, <2>u, <3>1 DEF Goto, DecompressInv, DataOK, Labels
    <3>4. KernelBuffer' /\ OverSection'
      BY <1>d, <2>1, <2>2, <2>4, <2>u, <3>1, <3>2 DEF KernelBuffer, OverSection
    <3>5. Progress'
      BY <2>1, <2>2, <2>4, <2>u DEF Progress, NotBegun
    <3> QED
      BY <2>1, <2>4, <2>u, <3>1, <3>3, <3>4, <3>5
      DEF Goto, LabelInv, Before, Lz4Labels, ZstdLabels
  <2> QED
    BY <1>4, <2>3, <2>4 DEF LZ4FrameInfo
<1>5. CASE LZ4Loop
  <2>1. dpc = "lz4_loop" /\ inbuf.pos < inbuf.length
    BY <1>5 DEF LZ4Loop
  <2>2. CASE AssertExit
    BY <2>2, <1>k DEF AssertExit, dvars, DecompressInv, DataOK, LabelInv
  <2>3. CASE UNCHANGED <<section, ctx, heap, stub>>
             /\ \E r \in LZ4F_decompress(section, inbuf, outbuf) : LZ4Result(r)
    <3>1. PICK r \in LZ4F_decompress(section, inbuf, outbuf) : LZ4Result(r)
      BY <2>3
    <3>2. CASE r = CodecError
      <4>1. /\ dpc' = "lz4_end" /\ derr' = "EFI_UNSUPPORTED"
            /\ UNCHANGED <<inbuf, outbuf, result, decoded>>
        BY <3>1, <3>2 DEF LZ4Result, CodecError, Goto
      <4>2. KernelBuffer' /\ OverSection' /\ section'.fmt = "lz4"
        BY <1>k, <2>1, <2>3, <4>1 DEF DecompressInv, LabelInv, Lz4Labels
      <4>3. DataOK'
        BY <2>3, <4>1 DEF DecompressInv, DataOK, Labels
      <4> QED
        BY <4>1, <4>2, <4>3 DEF LabelInv, Before, Lz4Labels, ZstdLabels, EfiError
    <3>3. CASE r # CodecError
      <4>1. r \in CodecCall(section, inbuf, outbuf)
        BY <3>1, <3>3 DEF LZ4F_decompress
      <4>2. r.res # "error"
        BY <2>1, <3>3, <4>1, CallProgresses
        DEF DecompressInv, DataOK, LabelInv, KernelBuffer, Lz4Labels, BufferType, CallResult
      <4> QED
        BY <2>1, <2>3, <3>1, <3>3, <4>1, <4>2, RoundStep DEF LZ4Result
    <3> QED
      BY <3>2, <3>3
  <2> QED
    BY <1>5, <2>2, <2>3 DEF LZ4Loop
<1>6. CASE LZ4Eof \/ ZSTDEof
  <2>1. /\ dpc \in {"lz4_loop", "zstd_loop"} /\ inbuf.pos >= inbuf.length
        /\ dpc' = IF dpc = "lz4_loop" THEN "lz4_end" ELSE "zstd_end"
        /\ derr' = "EFI_SUCCESS"
        /\ UNCHANGED <<section, inbuf, outbuf, ctx, result, decoded, heap>>
    BY <1>6 DEF LZ4Eof, ZSTDEof, Goto
  <2>2. /\ KernelBuffer /\ Progress /\ OverSection
        /\ section.fmt = IF dpc = "lz4_loop" THEN "lz4" ELSE "zstd"
    BY <2>1 DEF DecompressInv, LabelInv, Lz4Labels, ZstdLabels
  <2>3. Accepted
    BY <1>s, <2>1, <2>2, EofAccepts DEF Compressed, KernelBuffer
  <2>4. DataOK'
    BY <2>1 DEF DecompressInv, DataOK, Labels
  <2>5. KernelBuffer' /\ OverSection' /\ Accepted'
    BY <1>k, <2>1, <2>2, <2>3
  <2> QED
    BY <2>1, <2>2, <2>4, <2>5 DEF LabelInv, Before, Lz4Labels, ZstdLabels, EfiError
<1>7. CASE LZ4End \/ ZSTDEnd
  <2>1. dpc \in {"lz4_end", "zstd_end"} /\ ctx' = "freed"
        /\ UNCHANGED <<section, inbuf, result, decoded, derr>>
    BY <1>7 DEF LZ4End, ZSTDEnd
  <2>l. OverSection /\ section.fmt = IF dpc = "lz4_end" THEN "lz4" ELSE "zstd"
    BY <2>1 DEF DecompressInv, LabelInv, Lz4Labels, ZstdLabels
  <2>2. CASE EfiError(derr) /\ UNCHANGED <<dpc, outbuf, heap>>
    <3>1. DataOK'
      BY <2>1, <2>2 DEF DecompressInv, DataOK
    <3> QED
      BY <1>k, <2>1, <2>2, <3>1
      DEF DecompressInv, LabelInv, Before, Lz4Labels, ZstdLabels, EfiError
  <2>3. CASE /\ EfiError(derr) /\ heap' = FreeSimpleBuffer(heap, outbuf) /\ dpc' = "returned"
             /\ outbuf' = [outbuf EXCEPT !.allocated = 0, !.buffer = "NULL"]
             /\ outbuf.free # "NULL" \/ dpc = "zstd_end"
    <3>1. KernelBuffer
      BY <2>1, <2>3, NullFields DEF DecompressInv, LabelInv, Nothing
    <3>2. heap'["kernel"] = "freed" \/ (heap'["kernel"] = "live" /\ ZeroLength(section'))
      BY <1>p, <1>s, <2>1, <2>l, <2>3, <3>1, KernelBlock
      DEF KernelBuffer, FreeSimpleBuffer, PoolOK, ZeroLength
    <3>3. outbuf' \in BufferType({"NULL", "section", "kernel"})
      BY <1>b, <2>3 DEF BufferType
    <3>4. DataOK'
      BY <2>1, <2>3, <3>3 DEF DecompressInv, DataOK, Labels
    <3> QED
      BY <2>1, <2>3, <3>2, <3>4 DEF LabelInv, Before, Lz4Labels, ZstdLabels
  <2>4. CASE ~EfiError(derr) /\ outbuf' = [outbuf EXCEPT !.pos = 0] /\ dpc' = "returned"
             /\ UNCHANGED heap
    <3>1. KernelBuffer /\ Accepted
      BY <2>1, <2>4 DEF DecompressInv, LabelInv
    <3>2. /\ outbuf' \in BufferType({"NULL", "section", "kernel"}) /\ outbuf'.pos = 0
          /\ outbuf'.buffer = outbuf.buffer /\ outbuf'.allocated = outbuf.allocated
          /\ outbuf'.free = outbuf.free /\ outbuf'.length = outbuf.length
      BY <1>b, <2>4 DEF BufferType
    <3>3. KernelBuffer' /\ Accepted'
      BY <2>1, <2>4, <3>1, <3>2 DEF KernelBuffer, Accepted
    <3>4. DataOK'
      BY <2>1, <2>4, <3>2 DEF DecompressInv, DataOK, Labels
    <3> QED
      BY <2>1, <2>4, <2>l, <3>2, <3>3, <3>4
      DEF LabelInv, Before, Lz4Labels, ZstdLabels, EfiError, Compressed
  <2> QED
    BY <1>7, <2>2, <2>3, <2>4 DEF LZ4End, ZSTDEnd, Goto
<1>8. CASE ZSTDPrepare
  <2>1. Nothing /\ OverSection /\ section.fmt = "zstd" /\ decoded = 0 /\ ctx = "none"
        /\ inbuf.pos = 0 /\ dpc = "zstd_size"
    BY <1>8 DEF ZSTDPrepare, DecompressInv, LabelInv, Before, ZstdLabels
  <2>u. UNCHANGED <<section, inbuf, decoded, stub>> /\ result' = "zero"
    BY <1>8 DEF ZSTDPrepare
  <2> DEFINE new == AllocateSimpleBuffer(outbuf, "kernel", section.declared)
  <2>n. ASSUME section.declared \in Nat
        PROVE  /\ new \in BufferType({"NULL", "section", "kernel"})
               /\ new.buffer = "kernel" /\ new.length = 0 /\ new.pos = 0
               /\ new.allocated = section.declared /\ new.free = "free_simple_buffer"
    BY <2>n, <1>b, AllocatedFields
  <2> HIDE DEF new
  <2>2. CASE /\ \E status \in {"EFI_UNSUPPORTED", "EFI_OUT_OF_RESOURCES"} : Return(status)
             /\ UNCHANGED ctx
             /\ \/ UNCHANGED heap /\ \E n \in Nat : outbuf' = [outbuf EXCEPT !.allocated = n]
                \/ section.declared \in Nat /\ outbuf' = new /\ heap' = Free(Malloc(heap, "kernel"), "kernel")
    <3>1. heap'["kernel"] \in {"none", "freed"}
      <4>1. CASE UNCHANGED heap
        BY <2>1, <4>1 DEF Nothing
      <4>2. CASE heap' = Free(Malloc(heap, "kernel"), "kernel")
        <5> DEFINE h == Malloc(heap, "kernel")
        <5>1. h \in [DOMAIN heap -> BlockState] /\ h["kernel"] = "live" /\ "kernel" \in DOMAIN heap
          BY <1>p, KernelBlock DEF PoolOK
        <5>2. heap' = Free(h, "kernel")
          BY <4>2
        <5> HIDE DEF h
        <5> QED
          BY <5>1, <5>2, KernelBlock
      <4> QED
        BY <2>2, <4>1, <4>2
    <3>2. outbuf' \in BufferType({"NULL", "section", "kernel"})
      BY <1>b, <1>s, <2>2, <2>n DEF BufferType
    <3>3. DataOK'
      BY <2>2, <2>u, <3>2 DEF Return, DecompressInv, DataOK, Labels
    <3> QED
      BY <2>1, <2>2, <2>u, <3>1, <3>3
      DEF Return, LabelInv, Before, Lz4Labels, ZstdLabels, EfiError
  <2>3. CASE /\ section.declared \in Nat /\ outbuf' = [new EXCEPT !.length = section.declared]
             /\ heap' = Malloc(heap, "kernel")
             /\ ctx' = "live" /\ Goto("zstd_loop") /\ UNCHANGED derr
    <3>1. /\ outbuf' \in BufferType({"NULL", "section", "kernel"})
          /\ outbuf'.buffer = "kernel" /\ outbuf'.length = section.declared /\ outbuf'.pos = 0
          /\ outbuf'.allocated = section.declared /\ outbuf'.free = "free_simple_buffer"
      BY <1>s, <2>3, <2>n DEF BufferType
    <3>2. heap'["kernel"] = "live"
      BY <1>p, <2>3, KernelBlock DEF PoolOK
    <3>3. DataOK'
      BY <2>3, <2>u, <3>1 DEF Goto, DecompressInv, DataOK, Labels
    <3>4. KernelBuffer' /\ OverSection'
      BY <2>1, <2>3, <2>u, <3>1, <3>2 DEF KernelBuffer, OverSection
    <3>5. Progress'
      BY <2>1, <2>u DEF Progress, NotBegun
    <3> QED
      BY <2>1, <2>3, <2>u, <3>1, <3>3, <3>4, <3>5
      DEF Goto, LabelInv, Before, Lz4Labels, ZstdLabels
  <2> QED
    BY <1>8, <1>d, <2>2, <2>3 DEF ZSTDPrepare, new
<1>9. CASE ZSTDLoop
  <2>1. dpc = "zstd_loop" /\ inbuf.pos < inbuf.length /\ UNCHANGED <<section, ctx, heap, stub>>
    BY <1>9 DEF ZSTDLoop
  <2>2. PICK r \in ZSTD_decompressStream(section, inbuf, outbuf) :
          \/ /\ r.res = "error"
             /\ Goto("zstd_end") /\ derr' = "EFI_COMPROMISED_DATA"
             /\ UNCHANGED <<inbuf, outbuf, result, decoded>>
          \/ /\ r.res # "error"
             /\ inbuf' = [inbuf EXCEPT !.pos = r.in]
             /\ outbuf' = [outbuf EXCEPT !.pos = r.out]
             /\ result' = r.res /\ decoded' = r.out
             /\ UNCHANGED <<dpc, derr>>
    BY <1>9 DEF ZSTDLoop
  <2>3. CASE r.res = "error"
    <3>1. /\ dpc' = "zstd_end" /\ derr' = "EFI_COMPROMISED_DATA"
          /\ UNCHANGED <<inbuf, outbuf, result, decoded>>
      BY <2>2, <2>3 DEF Goto
    <3>2. KernelBuffer' /\ OverSection' /\ section'.fmt = "zstd"
      BY <1>k, <2>1, <3>1 DEF DecompressInv, LabelInv, ZstdLabels
    <3>3. DataOK'
      BY <2>1, <3>1 DEF DecompressInv, DataOK, Labels
    <3> QED
      BY <3>1, <3>2, <3>3 DEF LabelInv, Before, Lz4Labels, ZstdLabels, EfiError
  <2>4. CASE r.res # "error"
    <3>1. r # CodecError
      BY <2>4 DEF CodecError
    <3>2. r \in CodecCall(section, inbuf, outbuf)
      BY <2>2, <3>1 DEF ZSTD_decompressStream
    <3> QED
      BY <2>1, <2>2, <2>4, <3>1, <3>2, RoundStep
  <2> QED
    BY <2>3, <2>4
<1> QED
  BY <1>1, <1>2, <1>3, <1>4, <1>5, <1>6, <1>7, <1>8, <1>9 DEF Steps

(* Nor do the steps of others break it that leave the kernel's block and   *)
(* the variables of decompress() alone.                                    *)
LEMMA OthersKeep ==
  ASSUME DecompressInv, UNCHANGED dvars, PoolOK', heap'["kernel"] = heap["kernel"]
  PROVE  DecompressInv'
BY DEF dvars, DecompressInv, DataOK, LabelInv, OverSection, KernelBuffer, Nothing, Progress,
       NotBegun, FrameDone, Taken, Flushed, Marked, Accepted

LEMMA Invariant == Spec => []DecompressInv
<1>1. DecompressInv /\ UNCHANGED vars => DecompressInv'
  <2> SUFFICES ASSUME DecompressInv, UNCHANGED vars PROVE DecompressInv'
    OBVIOUS
  <2>1. PoolOK'
    BY DEF DecompressInv, PoolOK, vars
  <2> QED
    BY <2>1, OthersKeep DEF vars
<1>2. DecompressInv /\ [Next]_vars => DecompressInv'
  BY <1>1, PartStep DEF Next
<1> QED
  BY <1>2, InvInit, PTL DEF Spec

-----------------------------------------------------------------------------
(* The type invariant of Decompress, for every section.                    *)
THEOREM TypeCorrect == Spec => []TypeOK
<1> DEFINE Alive == stub \in {"running", "exited", "crashed"}
<1>1. Init => Alive
  BY DEF Init
<1>2. Alive /\ [Next]_vars => Alive'
  BY DEF Next, vars, Steps, Call, Detect, LZ4CreateContext, LZ4FrameInfo, LZ4Loop, LZ4Eof, LZ4End,
         ZSTDPrepare, ZSTDLoop, ZSTDEof, ZSTDEnd, AssertExit
<1>3. DecompressInv /\ Alive => TypeOK
  BY DEF DecompressInv, PoolOK, DataOK, TypeOK
<1> HIDE DEF Alive
<1> QED
  BY <1>1, <1>2, <1>3, Invariant, PTL DEF Spec

(* Whatever the section holds and whichever allocation fails, an error     *)
(* return of decompress() leaves the context behind never, the kernel      *)
(* buffer only for a ZSTD frame that declares a content of 0 bytes, and    *)
(* nothing is freed twice.                                                 *)
THEOREM ErrorsRelease == Spec => []ErrorReleases
<1>1. DecompressInv => ErrorReleases
  <2> SUFFICES ASSUME DecompressInv PROVE ErrorReleases
    OBVIOUS
  <2>1. heap["kernel"] # "corrupt"
    BY DEF DecompressInv, DataOK, LabelInv, Labels, Before, Nothing, KernelBuffer
  <2> QED
    BY <2>1 DEF DecompressInv, LabelInv, ErrorReleases
<1> QED
  BY <1>1, Invariant, PTL

(* A whole frame of any length is unpacked completely or not accepted.     *)
THEOREM KernelIsWhole == Spec => []WholeKernel
<1>1. DecompressInv => WholeKernel
  BY DEF DecompressInv, LabelInv, WholeKernel, Returned, EfiError, KernelBuffer, Accepted, Complete,
         Compressed
<1> QED
  BY <1>1, Invariant, PTL

(* Whichever block of a frame is damaged, wherever the section is cut and  *)
(* whatever lies behind the frame: damage gets past decompress() only      *)
(* where it decodes and no checksum that was read covers it, and a section *)
(* that was cut short has the message printed.                             *)
THEOREM DamageIsSeen == Spec => []DamageSeen
<1>1. DecompressInv => DamageSeen
  BY DEF DecompressInv, LabelInv, DamageSeen, Returned, EfiError, Accepted, Compressed
<1> QED
  BY <1>1, Invariant, PTL
=============================================================================

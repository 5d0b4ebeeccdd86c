----------------------------- MODULE Decompress -----------------------------
(***************************************************************************)
(* decompress() of src/decompress.c: the kernel in the .linux section is   *)
(* recognised by its magic number and unpacked into a pool buffer, or      *)
(* passed on as it is when it already is a PE executable.                  *)
(*                                                                         *)
(* A section is a record.  Its data is counted in units: one unit of frame *)
(* header, `blocks' units that decode to one unit of output each, one unit *)
(* of end mark, and one of content checksum when "content" is in `sums'.   *)
(* `size' is what the section really holds: less than that is a truncated  *)
(* stream, more is data behind the frame, which is `behind': "junk", whole *)
(* frames without content ("empty"), or one more frame with content        *)
(* ("frame").  `declared' is the content size written in the frame header, *)
(* NoSize if there is none; for LZ4 a size of 0 says the same.             *)
(*                                                                         *)
(* `bad' is the index of a damaged block, 0 if there is none.  What is     *)
(* damaged may still decode (`decodes'), to something else of the same     *)
(* length; then only a checksum can tell, the one of the block ("block" in *)
(* `sums', LZ4 only) or the one of the content.  `header' says whether the *)
(* frame header parses.                                                    *)
(***************************************************************************)
EXTENDS EfiBase, Integers, FiniteSets, FiniteSetsExt

CONSTANTS
  USE_LZ4, USE_ZSTD,   \* the decompressors compiled in
  Sections             \* the contents of .linux to consider

NoSize == -1

ASSUME DecompressAssumption ==
  /\ USE_LZ4 \in BOOLEAN /\ USE_ZSTD \in BOOLEAN
  /\ Sections \subseteq
       [fmt : {"lz4", "zstd", "pe", "other"}, size : Nat, declared : Nat \cup {NoSize},
        blocks : Nat, bad : Nat, decodes : BOOLEAN, header : BOOLEAN,
        sums : SUBSET {"block", "content"}, behind : {"junk", "empty", "frame"}]

VARIABLES
  dpc,       \* where decompress() is
  section,   \* the .linux section being unpacked
  inbuf,     \* simple_buffer over the section
  outbuf,    \* simple_buffer for the kernel
  ctx,       \* decompression context of the library
  result,    \* last return value of the library, "zero" or "hint"
  decoded,   \* units of output the library has written
  derr,      \* status decompress() is about to return
  heap,      \* the firmware's pool
  stub       \* what became of the stub's image

dvars == <<dpc, section, inbuf, outbuf, ctx, result, decoded, derr>>
vars == <<dvars, heap, stub>>

Compressed == {"lz4", "zstd"}

(* The formats this build of the stub accepts.                             *)
Supported ==
  {"pe"} \cup (IF USE_LZ4 THEN {"lz4"} ELSE {}) \cup (IF USE_ZSTD THEN {"zstd"} ELSE {})

(* Where the end mark ends, and the frame.                                 *)
MarkEnd(s) == s.blocks + 2

FrameEnd(s) == IF "content" \in s.sums THEN s.blocks + 3 ELSE s.blocks + 2

(* The section holds one whole, undamaged frame and nothing else.          *)
Complete(s) ==
  s.header /\ s.bad = 0 /\ s.declared = s.blocks /\ s.size = FrameEnd(s)

-----------------------------------------------------------------------------
(***************************************************************************)
(* The decompression library.  One call decodes as far as input, output    *)
(* room and the frame allow.  A block is taken from the input before its   *)
(* output is flushed, and the next one only after that, so a full output   *)
(* leaves at most one decoded block pending.                               *)
(***************************************************************************)
CodecError == [in |-> 0, out |-> 0, res |-> "error"]

(* A damaged block is refused where it is decoded, unless it decodes and   *)
(* no checksum of the block contradicts.                                   *)
BlockRefused(s, taken) ==
  s.bad \in 1 .. taken /\ (~s.decodes \/ "block" \in s.sums)

(* The content size is compared at the end mark; by ZSTD only once the     *)
(* whole frame is there.  The content checksum is compared where the frame *)
(* ends.                                                                   *)
ContentRefused(s, length) ==
  \/ s.declared # s.blocks /\ (s.fmt = "lz4" \/ length >= FrameEnd(s))
  \/ s.bad \in 1 .. s.blocks /\ "content" \in s.sums /\ length >= FrameEnd(s)

(* A new frame begins behind the first: unknown magic, or too short to     *)
(* tell; a frame without content; one whose block finds the output full,   *)
(* so that it stays pending and nothing moves any more.                    *)
NextFrame(s, in, out) ==
  LET at(pos, res) == [in |-> pos, out |-> out.pos, res |-> res]
  IN  IF s.behind = "frame"
      THEN IF in.pos = FrameEnd(s) THEN {CodecError, at(in.pos + 1, "hint")}
           ELSE {at(in.pos, "hint")}
      ELSE {CodecError, at(in.length, "hint")} \cup
             (IF s.behind = "empty" THEN {at(in.pos + 1, "zero")} ELSE {})

CodecCall(s, in, out) ==
  LET taken   == Min({s.blocks, in.length - 1, out.allocated + 1})
      flushed == Min({taken, out.allocated})
      marked  == flushed = s.blocks /\ in.length >= MarkEnd(s)
  IN  IF in.pos >= FrameEnd(s) THEN NextFrame(s, in, out)
      ELSE IF BlockRefused(s, taken) \/ (marked /\ ContentRefused(s, in.length))
      THEN {CodecError}
      ELSE IF marked /\ in.length >= FrameEnd(s)
      THEN {[in |-> FrameEnd(s), out |-> flushed, res |-> "zero"]}
      ELSE {[in |-> IF marked THEN in.length ELSE taken + 1, out |-> flushed, res |-> "hint"]}

(* The first call allocates the library's own buffers, which may fail.     *)
LZ4F_decompress(s, in, out) ==
  CodecCall(s, in, out) \cup (IF in.pos = 1 THEN {CodecError} ELSE {})

(* ZSTD may refuse a block that does not fit the content size, and refuses *)
(* to be called over and over without making progress.                     *)
ZSTD_decompressStream(s, in, out) ==
  {IF r.res = "hint" /\ r.in = in.pos /\ r.out = out.pos THEN CodecError ELSE r :
     r \in CodecCall(s, in, out)
             \cup (IF in.pos = 0 \/ s.declared # s.blocks THEN {CodecError} ELSE {})}

-----------------------------------------------------------------------------
Init ==
  /\ dpc = "idle"
  /\ section \in Sections
  /\ inbuf = NullBuffer /\ outbuf = NullBuffer
  /\ ctx = "none" /\ result = "zero" /\ decoded = 0 /\ derr = "EFI_SUCCESS"
  /\ heap = [b \in {"kernel"} |-> "none"]
  /\ stub = "running"

Running == stub = "running"

Goto(label) == dpc' = label

Return(status) == dpc' = "returned" /\ derr' = status

(* A failed assert() ends the stub from inside decompress().               *)
AssertExit == stub' = "exited" /\ UNCHANGED <<dvars, heap>>

(***************************************************************************)
(* efi_main builds linux_section and an empty decompressed_kernel and      *)
(* calls decompress().                                                     *)
(***************************************************************************)
Call ==
  /\ Running /\ dpc = "idle"
  /\ inbuf' = [NullBuffer EXCEPT !.buffer = "section", !.length = section.size,
                                 !.allocated = section.size]
  /\ outbuf' = NullBuffer
  /\ Goto("decompress")
  /\ UNCHANGED <<section, ctx, result, decoded, derr, heap, stub>>

(* Recognise the format by its magic number, the compiled in ones first.   *)
Detect ==
  /\ Running /\ dpc = "decompress"
  /\ \/ /\ inbuf.length = 0
        /\ Return("EFI_INVALID_PARAMETER") /\ UNCHANGED outbuf
     \/ /\ inbuf.length > 0 /\ section.fmt = "zstd" /\ "zstd" \in Supported
        /\ Goto("zstd_size") /\ UNCHANGED <<outbuf, derr>>
     \/ /\ inbuf.length > 0 /\ section.fmt = "lz4" /\ "lz4" \in Supported
        /\ Goto("lz4_context") /\ UNCHANGED <<outbuf, derr>>
     \/ /\ inbuf.length > 0 /\ section.fmt = "pe"
        /\ outbuf' = [inbuf EXCEPT !.free = "NULL"]
        /\ Return("EFI_SUCCESS")
     \/ /\ inbuf.length > 0
        /\ section.fmt \notin Supported
        /\ Return("EFI_UNSUPPORTED") /\ UNCHANGED outbuf
  /\ UNCHANGED <<section, inbuf, ctx, result, decoded, heap, stub>>

-----------------------------------------------------------------------------
(* decompress_lz4()                                                        *)

LZ4CreateContext ==
  /\ Running /\ dpc = "lz4_context"
  /\ \/ Return("EFI_OUT_OF_RESOURCES") /\ UNCHANGED ctx
     \/ ctx' = "live" /\ Goto("lz4_info") /\ UNCHANGED derr
  /\ UNCHANGED <<section, inbuf, outbuf, result, decoded, heap, stub>>

LZ4Fail(status) ==
  Goto("lz4_end") /\ derr' = status /\ UNCHANGED <<outbuf, heap>>

AllocateKernel(length) ==
  /\ heap' = Malloc(heap, "kernel")
  /\ outbuf' = AllocateSimpleBuffer(outbuf, "kernel", length)

(* LZ4F_getFrameInfo() and the allocation of the size it reports.          *)
LZ4FrameInfo ==
  /\ Running /\ dpc = "lz4_info"
  /\ \/ ~section.header /\ LZ4Fail("EFI_UNSUPPORTED") /\ UNCHANGED inbuf
     \/ /\ section.header
        /\ inbuf' = [inbuf EXCEPT !.pos = 1]
        /\ \/ section.declared <= 0 /\ LZ4Fail("EFI_UNSUPPORTED")
           \/ section.declared > 0 /\ LZ4Fail("EFI_OUT_OF_RESOURCES")
           \/ /\ section.declared > 0
              /\ AllocateKernel(section.declared)
              /\ Goto("lz4_loop") /\ UNCHANGED derr
  /\ result' = "zero"
  /\ UNCHANGED <<section, ctx, decoded, stub>>

(* What the loop does with one return of the library.                      *)
LZ4ResultStuck(r) ==
  /\ outbuf' = [outbuf EXCEPT !.pos = r.out, !.length = r.out]
  /\ result' = r.res /\ decoded' = r.out
  /\ UNCHANGED <<inbuf, dpc, derr>>

LZ4ResultUnchecked(r) ==
  /\ inbuf' = [inbuf EXCEPT !.pos = inbuf.length]
  /\ outbuf' = [outbuf EXCEPT !.pos = outbuf.allocated, !.length = outbuf.allocated]
  /\ result' = "hint"
  /\ UNCHANGED <<decoded, dpc, derr>>

LZ4ResultSilent(r) ==
  /\ inbuf' = [inbuf EXCEPT !.pos = r.in]
  /\ outbuf' = [outbuf EXCEPT !.pos = r.out, !.length = r.out]
  /\ decoded' = r.out
  /\ UNCHANGED <<dpc, derr, result>>

LZ4ResultNoLength(r) ==
  IF r.res = "error"
  THEN /\ Goto("lz4_end") /\ derr' = "EFI_UNSUPPORTED"
       /\ UNCHANGED <<inbuf, outbuf, result, decoded>>
  ELSE /\ inbuf' = [inbuf EXCEPT !.pos = r.in]
       /\ outbuf' = [outbuf EXCEPT !.pos = r.out]
       /\ result' = r.res /\ decoded' = r.out
       /\ UNCHANGED <<dpc, derr>>

LZ4Result(r) ==
  IF r.res = "error"
  THEN /\ Goto("lz4_end") /\ derr' = "EFI_UNSUPPORTED"
       /\ UNCHANGED <<inbuf, outbuf, result, decoded>>
  ELSE /\ inbuf' = [inbuf EXCEPT !.pos = r.in]
       /\ outbuf' = [outbuf EXCEPT !.pos = r.out, !.length = r.out]
       /\ result' = r.res /\ decoded' = r.out
       /\ UNCHANGED <<dpc, derr>>

(* One round of the loop; buffer_pos(out) asserts that there is room left. *)
LZ4Loop ==
  /\ Running /\ dpc = "lz4_loop" /\ inbuf.pos < inbuf.length
  /\ IF AssertFails(BufferPosOk(outbuf))
     THEN AssertExit
     ELSE /\ \E r \in LZ4F_decompress(section, inbuf, outbuf) : LZ4Result(r)
          /\ UNCHANGED <<section, ctx, heap, stub>>

(* The input is used up: a missing end of stream is printed, not returned. *)
LZ4Eof ==
  /\ Running /\ dpc = "lz4_loop" /\ inbuf.pos >= inbuf.length
  /\ Goto("lz4_end") /\ derr' = "EFI_SUCCESS"
  /\ UNCHANGED <<section, inbuf, outbuf, ctx, result, decoded, heap, stub>>

(* The label `end': out->free is still NULL when nothing was allocated.    *)
LZ4End ==
  /\ Running /\ dpc = "lz4_end"
  /\ ctx' = "freed"
  /\ IF EfiError(derr)
     THEN IF outbuf.free = "NULL"
          THEN stub' = "crashed" /\ UNCHANGED <<dpc, outbuf, heap>>
          ELSE /\ heap' = FreeSimpleBuffer(heap, outbuf)
               /\ outbuf' = [outbuf EXCEPT !.allocated = 0, !.buffer = "NULL"]
               /\ Goto("returned") /\ UNCHANGED stub
     ELSE /\ outbuf' = [outbuf EXCEPT !.pos = 0]
          /\ Goto("returned") /\ UNCHANGED <<heap, stub>>
  /\ UNCHANGED <<section, inbuf, result, decoded, derr>>

-----------------------------------------------------------------------------
(* decompress_zstd()                                                       *)

(* The content size comes from the frame header, then the two allocations. *)
(* A size of 0 is a size: malloc(0) gives a block, and `allocated' is 0.   *)
ZSTDPrepare ==
  /\ Running /\ dpc = "zstd_size"
  /\ \/ /\ ~section.header \/ section.declared = NoSize
        /\ outbuf' = [outbuf EXCEPT !.allocated = 0]
        /\ Return("EFI_UNSUPPORTED") /\ UNCHANGED <<ctx, heap>>
     \/ /\ section.header /\ section.declared # NoSize
        /\ \/ \* malloc failed
              /\ outbuf' = [outbuf EXCEPT !.allocated = section.declared]
              /\ Return("EFI_OUT_OF_RESOURCES") /\ UNCHANGED <<ctx, heap>>
           \/ \* ZSTD_createDStream failed: the block is freed, `out' still names it
              /\ outbuf' = AllocateSimpleBuffer(outbuf, "kernel", section.declared)
              /\ heap' = Free(Malloc(heap, "kernel"), "kernel")
              /\ Return("EFI_OUT_OF_RESOURCES") /\ UNCHANGED ctx
           \/ /\ outbuf' = [AllocateSimpleBuffer(outbuf, "kernel", section.declared)
                              EXCEPT !.length = section.declared]
              /\ heap' = Malloc(heap, "kernel")
              /\ ctx' = "live" /\ Goto("zstd_loop") /\ UNCHANGED derr
  /\ result' = "zero"
  /\ UNCHANGED <<section, inbuf, decoded, stub>>

ZSTDLoop ==
  /\ Running /\ dpc = "zstd_loop" /\ inbuf.pos < inbuf.length
  /\ \E r \in ZSTD_decompressStream(section, inbuf, outbuf) :
       \/ /\ r.res = "error"
          /\ Goto("zstd_end") /\ derr' = "EFI_COMPROMISED_DATA"
          /\ UNCHANGED <<inbuf, outbuf, result, decoded>>
       \/ /\ r.res # "error"
          /\ inbuf' = [inbuf EXCEPT !.pos = r.in]
          /\ outbuf' = [outbuf EXCEPT !.pos = r.out]
          /\ result' = r.res /\ decoded' = r.out
          /\ UNCHANGED <<dpc, derr>>
  /\ UNCHANGED <<section, ctx, heap, stub>>

ZSTDEof ==
  /\ Running /\ dpc = "zstd_loop" /\ inbuf.pos >= inbuf.length
  /\ Goto("zstd_end") /\ derr' = "EFI_SUCCESS"
  /\ UNCHANGED <<section, inbuf, outbuf, ctx, result, decoded, heap, stub>>

ZSTDEnd ==
  /\ Running /\ dpc = "zstd_end"
  /\ ctx' = "freed"
  /\ IF EfiError(derr)
     THEN /\ heap' = FreeSimpleBuffer(heap, outbuf)
          /\ outbuf' = [outbuf EXCEPT !.allocated = 0, !.buffer = "NULL"]
     ELSE /\ outbuf' = [outbuf EXCEPT !.pos = 0]
          /\ UNCHANGED heap
  /\ Goto("returned")
  /\ UNCHANGED <<section, inbuf, result, decoded, derr, stub>>

-----------------------------------------------------------------------------
Finished == dpc = "returned" \/ ~Running

(* Everything decompress() does once it has been called.                   *)
Steps ==
  \/ Detect
  \/ LZ4CreateContext \/ LZ4FrameInfo \/ LZ4Loop \/ LZ4Eof \/ LZ4End
  \/ ZSTDPrepare \/ ZSTDLoop \/ ZSTDEof \/ ZSTDEnd

Next == Call \/ Steps \/ (Finished /\ UNCHANGED vars)

Spec == Init /\ [][Next]_vars /\ WF_vars(Call \/ Steps)

-----------------------------------------------------------------------------
(* Properties                                                              *)

Labels ==
  {"idle", "decompress", "lz4_context", "lz4_info", "lz4_loop", "lz4_end",
   "zstd_size", "zstd_loop", "zstd_end", "returned"}

BufferType(pointers) ==
  [buffer : pointers, length : Nat, pos : Nat, allocated : Nat,
   free : {"NULL", "free_simple_buffer"}]

(* Type invariant, with the cursor of each buffer inside its data.         *)
TypeOK ==
  /\ dpc \in Labels
  /\ section \in Sections
  /\ inbuf \in BufferType({"NULL", "section"}) /\ inbuf.pos <= inbuf.length
  /\ outbuf \in BufferType({"NULL", "section", "kernel"})
  /\ ctx \in {"none", "live", "freed"}
  /\ result \in {"zero", "hint"} /\ decoded \in Nat
  /\ derr \in {"EFI_SUCCESS", "EFI_UNSUPPORTED", "EFI_OUT_OF_RESOURCES",
               "EFI_COMPROMISED_DATA", "EFI_INVALID_PARAMETER"}
  /\ heap["kernel"] \in BlockState
  /\ stub \in {"running", "exited", "crashed"}

Returned(status) == dpc = "returned" /\ derr = status

(* The frame whose output buffer has the length 0, which                   *)
(* free_simple_buffer() takes for one that was never allocated.            *)
ZeroLength(s) == s.fmt = "zstd" /\ s.declared = 0

(* An error return leaves nothing behind: neither the kernel buffer nor    *)
(* the library's context is still allocated (decompress.c, the `end'       *)
(* labels and the early returns), and nothing was freed twice.  The one    *)
(* block left behind is that of a ZSTD frame that declares no content.     *)
ErrorReleases ==
  /\ dpc = "returned" /\ EfiError(derr) => heap["kernel"] # "live" \/ ZeroLength(section)
  /\ dpc = "returned" => ctx # "live"
  /\ heap["kernel"] # "corrupt"

(* A whole frame that is accepted is unpacked completely into a live       *)
(* buffer whose cursor is back at the start, which is what efi_main hands  *)
(* to the PE loader.                                                       *)
WholeKernel ==
  /\ section.fmt \in Compressed /\ Complete(section)
  /\ Returned("EFI_SUCCESS")
  => /\ heap["kernel"] = "live" /\ result = "zero"
     /\ outbuf.buffer = "kernel" /\ outbuf.pos = 0
     /\ outbuf.length = section.blocks /\ decoded = section.blocks

(* Index of the last block that was in what the section holds.             *)
LastBlock(s) == Min({s.size - 1, s.blocks})

(* A damaged block that was taken decodes, and no checksum that was there  *)
(* to be read covers it.                                                   *)
DamageUncovered(s) ==
  s.bad \in 1 .. LastBlock(s) =>
    /\ s.decodes /\ "block" \notin s.sums
    /\ "content" \in s.sums => s.size < FrameEnd(s)

(* A section that was cut short has "EOF before end of stream" printed     *)
(* (the last result is not zero), except an LZ4 section that ends with the *)
(* frame header: the loop is never entered.                                *)
CutReported(s, res) ==
  s.size >= FrameEnd(s) \/ (s.size <= 1 /\ s.fmt = "lz4") \/ res = "hint"

(* What is wrong with a section is seen as far as its checksums reach: a   *)
(* damaged block is accepted only where it decodes and no checksum of it   *)
(* was read, and a stream that ends before its frame does, which           *)
(* decompress() accepts too, is reported (decompress.c, the loops and what *)
(* follows them).                                                          *)
DamageSeen ==
  section.fmt \in Compressed /\ Returned("EFI_SUCCESS") =>
    DamageUncovered(section) /\ CutReported(section, result)

(* An LZ4 section with more to unpack than the buffer takes: a frame of    *)
(* more than it declared, or one more frame behind it.                     *)
Overfull(s) ==
  s.fmt = "lz4" /\ (s.declared < s.blocks \/ (s.behind = "frame" /\ s.size > FrameEnd(s) + 1))

(* decompress() comes to an end, unless the buffer is full before an LZ4   *)
(* section is used up: then LZ4F_decompress reports no error and moves     *)
(* neither cursor, and the loop of a Release build spins.                  *)
Terminates == dpc = "decompress" /\ ~Overfull(section) ~> Finished
=============================================================================

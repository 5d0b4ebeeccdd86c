----------------------------- MODULE CodecStream -----------------------------
(***************************************************************************)
(* What the two streaming decoders have in common: the program that calls  *)
(* them piece by piece, the frames it may meet, and memory.                *)
(*                                                                         *)
(* The content of a frame is the sequence 1, 2, ..., N; 0 stands for a     *)
(* byte that is not the right one.  A byte of the compressed stream is a   *)
(* token <<field, block, k, n>>: byte k of the n bytes of that field.      *)
(***************************************************************************)
EXTENDS Integers, Sequences, SequencesExt

CONSTANTS
  Frames,        \* the frames that may be decoded
  Later,         \* those of them a used context may go on with
  Feeds, Rooms,  \* how much input and room one call may offer
  MaxFrames,     \* frames decoded one after the other with one context
  MagicSize, SizeField,        \* bytes of a magic number, of a content size
  minFHSize, BHSize, BFSize,   \* LZ4: least frame header, block header, checksum
  HeaderPrefix, BlockHeader, CheckSize   \* zstd: ZSTD_startingInputLength(),
                                         \* ZSTD_blockHeaderSize, checksum

VARIABLES
  frame,   \* the frame being decoded
  fed,     \* bytes of its stream the caller knows to be consumed
  out,     \* what the caller has received
  res,     \* last return value: -1 an error, 0 frame complete, or a hint
  call,    \* the call in progress
  dctx,    \* the decoder's context
  left,    \* frames the caller may still start
  fault    \* why a sound frame may be refused: "none" when it may not

vars == <<frame, fed, out, res, call, dctx, left, fault>>

-----------------------------------------------------------------------------
(* Tokens.                                                                 *)

Field(name, b, n) == [k \in 1 .. n |-> <<name, b, k, n>>]

(* bytes is exactly one field of that name.                                *)
Reads(bytes, name) ==
  bytes # <<>> /\ bytes = Field(name, bytes[1][2], bytes[1][4])

(* A frame of each format as a stream of bytes.  `declared' is the content *)
(* size its header gives, 0 (LZ4) or -1 (zstd) for none; a zstd frame of a *)
(* single segment has no window of its own.                                *)

SkipHeader == 2 * MagicSize

maxFHSize == minFHSize + SizeField

HeaderSize(f) ==
  IF f.fmt = "lz4" THEN IF f.declared > 0 THEN maxFHSize ELSE minFHSize
  ELSE HeaderPrefix + (IF f.single THEN 0 ELSE 1) + (IF f.declared >= 0 THEN SizeField ELSE 0)

LZ4Blocks(f) ==
  FlattenSeq([b \in DOMAIN f.blocks |->
                Field("header", b, BHSize) \o Field("data", b, f.blocks[b].size)
                  \o (IF f.bcheck THEN Field("crc", b, BFSize) ELSE <<>>)])
    \o Field("end", 0, BHSize)

ZstdBlocks(f) ==
  FlattenSeq([b \in DOMAIN f.blocks |->
                Field("header", b, BlockHeader) \o Field("data", b, f.blocks[b].size)])

Stream(f) ==
  IF f.skippable
  THEN Field("skip", 0, SkipHeader) \o Field("user", 0, f.size)
  ELSE Field("frame", 0, HeaderSize(f))
         \o (IF f.fmt = "lz4" THEN LZ4Blocks(f) ELSE ZstdBlocks(f))
         \o (IF ~f.ccheck THEN <<>>
             ELSE Field("sum", 0, IF f.fmt = "lz4" THEN BFSize ELSE CheckSize))

StreamLength(f) == Len(Stream(f))

(* The stream is followed by the start of something else.                  *)
Streams == [f \in Frames |-> Stream(f) \o Field("next", 0, MagicSize)]

(* The bytes of the content before block b, and of all of it.              *)
Before(f, b) ==
  FoldLeft(LAMBDA n, k : n + f.blocks[k].units, 0, [k \in 1 .. b - 1 |-> k])

Size(f) == Before(f, Len(f.blocks) + 1)

Content(from, n) == [k \in 1 .. n |-> from + k]

Garbage(n) == [k \in 1 .. n |-> 0]

(* Nothing in the frame was damaged.                                       *)
IsIntact(f) == f.header = "ok" /\ \A b \in DOMAIN f.blocks : ~f.blocks[b].bad

-----------------------------------------------------------------------------
(* Memory.  A copy past the end of a buffer makes it longer, and an        *)
(* overlapping memcpy() leaves nothing that can be relied on.              *)

Read(buf, from, n) ==
  [k \in 1 .. n |-> IF from + k \in DOMAIN buf THEN buf[from + k] ELSE 0]

Write(buf, at, data) ==
  [k \in 1 .. Max({Len(buf), at + Len(data)}) |->
     IF k \in at + 1 .. at + Len(data) THEN data[k - at]
     ELSE IF k \in DOMAIN buf THEN buf[k] ELSE 0]

Move(buf, at, from, n) ==
  Write(buf, at, IF at < from + n /\ from < at + n /\ n > 0
                 THEN Garbage(n) ELSE Read(buf, from, n))

-----------------------------------------------------------------------------
(* The call in progress.                                                   *)

NoCall == [busy |-> FALSE, src |-> 0, end |-> 0, dst |-> <<>>, room |-> 0, null |-> FALSE]

Idle == ~call.busy

Input == call.end - call.src

Room == call.room - Len(call.dst)

Take(n) == SubSeq(Streams[frame], call.src + 1, call.src + n)

Skip(n) == [call EXCEPT !.src = @ + n]

(* A new frame with the same context.                                      *)
StartFrame ==
  /\ left > 0 /\ left' = left - 1
  /\ frame' \in {f \in Later : f.fmt = frame.fmt} /\ fed' = 0 /\ out' = <<>> /\ res' = 1
  /\ UNCHANGED call

Start ==
  /\ fed = 0 /\ out = <<>> /\ res = 1
  /\ call = NoCall /\ left = MaxFrames - 1 /\ fault = "none"
=============================================================================

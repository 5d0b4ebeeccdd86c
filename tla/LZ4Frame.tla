------------------------------ MODULE LZ4Frame ------------------------------
(***************************************************************************)
(* The streaming decoder of lib/lz4/lz4frame.c: LZ4F_decompress() is a     *)
(* state machine that is called with some input and some room, goes        *)
(* through its stages as far as both reach, and keeps the rest in its      *)
(* context.  One action is one stage of one call; the caller offers any    *)
(* amount of input and room and reuses its output buffer between calls.    *)
(***************************************************************************)
EXTENDS CodecStream

CONSTANTS
  KB64,          \* how far back a block of a linked frame may refer
  U64            \* modulus of frameRemainingSize

-----------------------------------------------------------------------------
Bytes(from, to) == SubSeq(Streams[frame], from + 1, to)

Token == <<"?", 0, 0, 0>>

(* The frame is as an encoder writes it, and one that is checked is one    *)
(* with a checksum over all of its content.                                *)
IsSound(f) ==
  /\ IsIntact(f) /\ f.declared \in {0, Size(f)}
  /\ \A b \in DOMAIN f.blocks : /\ f.blocks[b].size <= f.maxBlockSize
                                /\ f.blocks[b].units <= f.maxBlockSize

IsChecked(f) == f.bcheck \/ f.ccheck

-----------------------------------------------------------------------------
(* LZ4F_createDecompressionContext(), LZ4F_resetDecompressionContext()     *)

NewContext ==
  [dStage |-> "getFrameHeader", frameRemainingSize |-> 0, tmpInTarget |-> 0,
   maxBufferSize |-> 0, tmpInCap |-> 0, tmpIn |-> <<>>,
   tmpOutBuffer |-> <<>>, tmpOut |-> 0, tmpOutSize |-> 0, tmpOutStart |-> 0,
   dict |-> "NULL", dictOff |-> 0, dictSize |-> 0, xxh |-> <<>>, blockSum |-> <<>>]

ResetDecompressionContext(d) ==
  [d EXCEPT !.dStage = "getFrameHeader", !.dict = "NULL", !.dictSize = 0]

Init == frame \in Frames /\ frame.fmt = "lz4" /\ Start /\ dctx = NewContext

-----------------------------------------------------------------------------
(* The history of a linked frame.                                          *)

DictMemory(d, dst) ==
  IF d.dict = "tmp" THEN d.tmpOutBuffer ELSE IF d.dict = "dst" THEN dst ELSE <<>>

DictEnd(d) == d.dictOff + d.dictSize

(* Mutant: the history is added to without a look at the buffer's end.     *)
UpdateDictUnbounded(d0, dst, at, n, withinTmp) ==
  LET d == IF d0.dictSize = 0 THEN [d0 EXCEPT !.dict = "dst", !.dictOff = at] ELSE d0
  IN  IF d.dict = "dst" THEN [d EXCEPT !.dictSize = @ + n]
      ELSE IF withinTmp THEN [d EXCEPT !.dictSize = @ + n]
      ELSE [d EXCEPT !.tmpOutBuffer = Write(@, d.dictSize, Read(dst, at, n)),
                     !.dictSize = @ + n]

(* LZ4F_updateDict(): n bytes were added at `at' of the output buffer.     *)
UpdateDict(d0, dst, at, n, withinTmp) ==
  LET d    == IF d0.dictSize = 0 THEN [d0 EXCEPT !.dict = "dst", !.dictOff = at] ELSE d0
      mem  == DictMemory(d, dst)
      tmp  == d.tmpOutBuffer
      new  == Read(dst, at, n)
      InTmp(buf, size) ==
        [d EXCEPT !.tmpOutBuffer = buf, !.dict = "tmp", !.dictOff = 0, !.dictSize = size]
  IN  IF d.dict = "dst" /\ DictEnd(d) = at
      THEN [d EXCEPT !.dictSize = @ + n]
      ELSE IF at + n >= KB64
      THEN [d EXCEPT !.dict = "dst", !.dictOff = 0, !.dictSize = at + n]
      ELSE IF withinTmp /\ d.dict = "tmp"
      THEN [d EXCEPT !.dictSize = @ + n]
      ELSE IF withinTmp
      THEN LET copy == IF d.tmpOutSize > KB64 THEN 0
                       ELSE Min({KB64 - d.tmpOutSize, d.tmpOut})
           IN  InTmp(Write(tmp, d.tmpOut - copy,
                           Read(mem, DictEnd(d) - d.tmpOutStart - copy, copy)),
                     d.tmpOut + d.tmpOutStart + n)
      ELSE IF d.dict = "tmp"
      THEN IF d.dictSize + n > d.maxBufferSize
           THEN LET keep == KB64 - n
                IN  InTmp(Write(Move(tmp, 0, d.dictSize - keep, keep), keep, new), keep + n)
           ELSE InTmp(Write(tmp, d.dictSize, new), d.dictSize + n)
      ELSE LET keep == Min({KB64 - n, d.dictSize})
           IN  InTmp(Write(Write(tmp, 0, Read(mem, DictEnd(d) - keep, keep)), keep, new),
                     keep + n)

InBlocks(d) ==
  d.dStage \in {"init", "getBlockHeader", "storeBlockHeader", "copyDirect",
                "getBlockChecksum", "getCBlock", "storeCBlock", "flushOut"}

(* The end of LZ4F_decompress(): the history leaves the caller's buffer.   *)
PreserveHistory(d, dst) ==
  IF ~(frame.linked /\ d.dict \notin {"tmp", "NULL"} /\ InBlocks(d))
  THEN d
  ELSE LET mem == DictMemory(d, dst) IN
       IF d.dStage = "flushOut"
       THEN LET copy == IF d.tmpOutSize > KB64 THEN 0
                        ELSE Min({KB64 - d.tmpOutSize, d.tmpOut})
            IN  [d EXCEPT !.tmpOutBuffer =
                            Write(@, d.tmpOut - copy,
                                  Read(mem, DictEnd(d) - d.tmpOutStart - copy, copy)),
                          !.dict = "tmp", !.dictOff = 0,
                          !.dictSize = d.tmpOut + d.tmpOutStart]
       ELSE LET size == Min({d.dictSize, KB64})
            IN  [d EXCEPT !.tmpOutBuffer = Write(@, 0, Read(mem, DictEnd(d) - size, size)),
                          !.dict = "tmp", !.dictOff = 0, !.dictSize = size,
                          !.tmpOut = size]

-----------------------------------------------------------------------------
(* How a stage ends: go on with the next one, return to the caller with a  *)
(* hint, or return an error, which reports nothing as consumed.            *)

Continue(d, c) ==
  dctx' = d /\ call' = c /\ UNCHANGED <<frame, fed, out, res, left, fault>>

Suspend(d, c, hint) ==
  /\ dctx' = PreserveHistory(d, c.dst)
  /\ call' = NoCall /\ fed' = c.src /\ out' = out \o c.dst /\ res' = hint
  /\ UNCHANGED <<frame, left, fault>>

Fail(d) ==
  /\ dctx' = d /\ call' = NoCall /\ res' = -1
  /\ UNCHANGED <<frame, fed, out, left, fault>>

Stage(s) == call.busy /\ dctx.dStage = s

(* Complete the bytes already stored in tmpIn up to `want'.                *)
Missing(want) == Min({want - Len(dctx.tmpIn), Input})

Stored(want) == dctx.tmpIn \o Take(Missing(want))

-----------------------------------------------------------------------------
(* The frame header: LZ4F_decodeHeader().  `stored' says that the bytes    *)
(* are in dctx->header.                                                    *)

HeaderError(d) == [ok |-> FALSE, d |-> d, used |-> 0]

HeaderRead(d, used) == [ok |-> TRUE, d |-> d, used |-> used]

DecodeHeader(d, bytes, stored) ==
  IF Len(bytes) < minFHSize
  THEN HeaderError(d)
  ELSE IF bytes[1] = <<"skip", 0, 1, SkipHeader>>
  THEN IF stored
       THEN HeaderRead([d EXCEPT !.tmpIn = bytes, !.tmpInTarget = SkipHeader,
                                 !.dStage = "storeSFrameSize"], Len(bytes))
       ELSE HeaderRead([d EXCEPT !.dStage = "getSFrameSize"], MagicSize)
  ELSE IF bytes[1] # <<"frame", 0, 1, bytes[1][4]>> \/ frame.header = "flags"
  THEN HeaderError(d)
  ELSE IF Len(bytes) < bytes[1][4]
  THEN HeaderRead([d EXCEPT !.tmpIn = bytes, !.tmpInTarget = bytes[1][4],
                            !.dStage = "storeFrameHeader"], Len(bytes))
  ELSE IF frame.header = "checksum"
  THEN HeaderError(d)
  ELSE HeaderRead([d EXCEPT !.dStage = "init",
                            !.frameRemainingSize =
                               IF frame.declared > 0 THEN frame.declared ELSE @],
                  bytes[1][4])

Header(bytes, stored, c) ==
  LET h == DecodeHeader(dctx, bytes, stored)
  IN  IF h.ok THEN Continue(h.d, IF stored THEN c ELSE Skip(h.used)) ELSE Fail(dctx)

GetFrameHeader ==
  /\ Stage("getFrameHeader")
  /\ \/ Input >= maxFHSize /\ Header(Take(Input), FALSE, call)
     \/ Input = 0 /\ Suspend([dctx EXCEPT !.tmpIn = <<>>], call, minFHSize)
     \/ /\ Input \in 1 .. maxFHSize - 1
        /\ Continue([dctx EXCEPT !.tmpIn = <<>>, !.tmpInTarget = minFHSize,
                                 !.dStage = "storeFrameHeader"], call)

StoreFrameHeader ==
  /\ Stage("storeFrameHeader")
  /\ LET want == dctx.tmpInTarget
         got  == Stored(want)
         c    == Skip(Missing(want))
     IN  IF Len(got) < want
         THEN Suspend([dctx EXCEPT !.tmpIn = got], c, want - Len(got) + BHSize)
         ELSE Header(got, TRUE, c)

(* dstage_init: the buffers are only replaced when they are too small.     *)
BufferNeeded == frame.maxBlockSize + (IF frame.linked THEN 2 * KB64 ELSE 0)

StartBlocks(d) ==
  [d EXCEPT !.xxh = <<>>, !.tmpIn = <<>>, !.tmpInTarget = 0, !.tmpOut = 0,
            !.tmpOutStart = 0, !.tmpOutSize = 0, !.dStage = "getBlockHeader"]

InitBuffers ==
  /\ Stage("init")
  /\ \/ /\ BufferNeeded <= dctx.maxBufferSize
        /\ Continue(StartBlocks(dctx), call)
     \/ /\ BufferNeeded > dctx.maxBufferSize
        /\ Continue(StartBlocks(
             [dctx EXCEPT !.tmpInCap = frame.maxBlockSize + BFSize,
                          !.tmpOutBuffer = Garbage(BufferNeeded),
                          !.maxBufferSize = BufferNeeded]), call)

AllocationFails ==
  /\ Stage("init") /\ BufferNeeded > dctx.maxBufferSize
  /\ \/ dctx' = [dctx EXCEPT !.maxBufferSize = 0, !.tmpInCap = 0]
     \/ dctx' = [dctx EXCEPT !.maxBufferSize = 0, !.tmpOutBuffer = <<>>,
                             !.tmpInCap = frame.maxBlockSize + BFSize]
  /\ call' = NoCall /\ res' = -1 /\ fault' = "oom"
  /\ UNCHANGED <<frame, fed, out, left>>

-----------------------------------------------------------------------------
(* Block headers.                                                          *)

CrcSize == IF frame.bcheck THEN BFSize ELSE 0

DecodeBlockHeader(bytes, c) ==
  \/ /\ Reads(bytes, "end")
     /\ Continue([dctx EXCEPT !.dStage = "getSuffix"], c)
  \/ /\ Reads(bytes, "header")
     /\ LET blk  == frame.blocks[bytes[1][2]]
            next == [dctx EXCEPT !.dStage = "getCBlock", !.tmpInTarget = blk.size + CrcSize]
        IN  IF blk.size > frame.maxBlockSize
            THEN Fail(dctx)
            ELSE IF blk.raw
            THEN Continue([dctx EXCEPT !.dStage = "copyDirect", !.tmpInTarget = blk.size,
                                       !.blockSum = <<>>], c)
            ELSE IF Room = 0 \/ c.src = c.end
            THEN Suspend(next, c, BHSize + blk.size + CrcSize)
            ELSE Continue(next, c)
  \/ /\ ~Reads(bytes, "end") /\ ~Reads(bytes, "header")
     /\ Fail(dctx)

GetBlockHeader ==
  /\ Stage("getBlockHeader")
  /\ IF Input >= BHSize
     THEN DecodeBlockHeader(Take(BHSize), Skip(BHSize))
     ELSE Continue([dctx EXCEPT !.tmpIn = <<>>, !.dStage = "storeBlockHeader"], call)

StoreBlockHeader ==
  /\ Stage("storeBlockHeader")
  /\ LET got == Stored(BHSize)
         c   == Skip(Missing(BHSize))
     IN  IF Len(got) < BHSize
         THEN Suspend([dctx EXCEPT !.tmpIn = got], c, BHSize - Len(got))
         ELSE DecodeBlockHeader(got, c)

-----------------------------------------------------------------------------
(* Stored blocks are copied as far as input and room go.                   *)

(* What both kinds of blocks do with the bytes they produce.               *)
Produced(d, data) ==
  [d EXCEPT !.xxh = IF frame.ccheck THEN @ \o data ELSE @,
            !.frameRemainingSize =
               IF frame.declared > 0 THEN (@ - Len(data)) % U64 ELSE @]

RawUnit(byte) ==
  IF byte[1] = "data" /\ frame.blocks[byte[2]].raw /\ ~frame.blocks[byte[2]].bad
  THEN Before(frame, byte[2]) + byte[3] ELSE 0

CopyDirect ==
  /\ Stage("copyDirect")
  /\ LET n     == IF call.null THEN 0 ELSE Min({dctx.tmpInTarget, Input, Room})
         bytes == Take(n)
         data  == [k \in 1 .. n |-> RawUnit(bytes[k])]
         c     == [Skip(n) EXCEPT !.dst = @ \o data]
         d1    == [Produced(dctx, data) EXCEPT !.tmpInTarget = @ - n,
                                               !.blockSum = IF frame.bcheck THEN @ \o bytes ELSE @]
         d2    == IF frame.linked /\ ~call.null
                  THEN UpdateDict(d1, c.dst, Len(call.dst), n, FALSE) ELSE d1
     IN  IF d2.tmpInTarget > 0
         THEN Suspend(d2, c, d2.tmpInTarget + CrcSize + BHSize)
         ELSE IF frame.bcheck
         THEN Continue([d2 EXCEPT !.tmpIn = <<>>, !.dStage = "getBlockChecksum"], c)
         ELSE Continue([d2 EXCEPT !.dStage = "getBlockHeader"], c)

BlockIntact(bytes, crc) ==
  /\ Reads(crc, "crc")
  /\ bytes = Field("data", crc[1][2], frame.blocks[crc[1][2]].size)
  /\ ~frame.blocks[crc[1][2]].bad

GetBlockChecksum ==
  /\ Stage("getBlockChecksum")
  /\ LET got == Stored(BFSize)
         c   == Skip(Missing(BFSize))
     IN  IF Len(got) < BFSize
         THEN Suspend([dctx EXCEPT !.tmpIn = got], c, 1)
         ELSE IF BlockIntact(dctx.blockSum, got)
         THEN Continue([dctx EXCEPT !.dStage = "getBlockHeader"], c)
         ELSE Fail(dctx)

-----------------------------------------------------------------------------
(* Compressed blocks are decoded once they are complete.                   *)

(* LZ4_decompress_safe_usingDict(): a block of a linked frame may refer to *)
(* any of the KB64 bytes before it, which must be the end of `dict'.  A    *)
(* damaged block may decode to something else.                             *)
Decode(bytes, d, dst) ==
  LET b       == bytes[1][2]
      blk     == frame.blocks[b]
      window  == IF frame.linked THEN Min({KB64, Before(frame, b)}) ELSE 0
      history == Read(DictMemory(d, dst), DictEnd(d) - window, window)
      good    == /\ ~blk.bad /\ d.dictSize >= window
                 /\ history = Content(Before(frame, b) - window, window)
      fails   == ~Reads(bytes, "data") \/ blk.units > frame.maxBlockSize
  IN  (IF fails \/ ~good THEN {[ok |-> FALSE, data |-> <<>>]} ELSE {})
        \cup (IF fails THEN {}
              ELSE {[ok |-> TRUE, data |-> IF good THEN Content(Before(frame, b), blk.units)
                                           ELSE Garbage(blk.units)]})

(* There is room for a whole block: decode it into the caller's buffer.    *)
DecodeDirect(bytes, c) ==
  \E r \in Decode(bytes, dctx, c.dst) :
     IF ~r.ok THEN Fail(dctx)
     ELSE LET c2 == [c EXCEPT !.dst = @ \o r.data]
              d1 == [Produced(dctx, r.data) EXCEPT !.dStage = "getBlockHeader"]
          IN  Continue(IF frame.linked
                       THEN UpdateDict(d1, c2.dst, Len(c.dst), Len(r.data), FALSE)
                       ELSE d1, c2)

(* Otherwise decode it into tmpOut, behind the history it needs.           *)
PlaceTmpOut(d) ==
  IF ~frame.linked THEN d
  ELSE IF d.dict # "tmp" THEN [d EXCEPT !.tmpOut = Min({d.dictSize, KB64})]
  ELSE IF d.dictSize > 2 * KB64
  THEN [d EXCEPT !.tmpOutBuffer = Move(@, 0, d.dictSize - KB64, KB64),
                 !.dictSize = KB64, !.tmpOut = KB64]
  ELSE [d EXCEPT !.tmpOut = d.dictSize]

DecodeBuffered(bytes, c) ==
  LET d == PlaceTmpOut(dctx) IN
  \E r \in Decode(bytes, d, c.dst) :
     IF ~r.ok THEN Fail(d)
     ELSE Continue([Produced(d, r.data) EXCEPT
                      !.tmpOutBuffer =
                         Write(@, d.tmpOut, r.data \o Garbage(frame.maxBlockSize - Len(r.data))),
                      !.tmpOutSize = Len(r.data), !.tmpOutStart = 0,
                      !.dStage = "flushOut"], c)

DecodeCBlock(bytes, c) ==
  LET size == dctx.tmpInTarget - CrcSize
      data == SubSeq(bytes, 1, size)
  IN  IF frame.bcheck /\ ~BlockIntact(data, SubSeq(bytes, size + 1, Len(bytes)))
      THEN Fail(dctx)
      ELSE IF Room >= frame.maxBlockSize THEN DecodeDirect(data, c)
      ELSE DecodeBuffered(data, c)

(* Mutant: a block that is not all there leaves the stage as it is.        *)
GetCBlockOnly ==
  /\ Stage("getCBlock")
  /\ IF Input < dctx.tmpInTarget THEN Continue([dctx EXCEPT !.tmpIn = <<>>], call)
     ELSE DecodeCBlock(Take(dctx.tmpInTarget), Skip(dctx.tmpInTarget))

GetCBlock ==
  /\ Stage("getCBlock")
  /\ IF Input < dctx.tmpInTarget
     THEN Continue([dctx EXCEPT !.tmpIn = <<>>, !.dStage = "storeCBlock"], call)
     ELSE DecodeCBlock(Take(dctx.tmpInTarget), Skip(dctx.tmpInTarget))

StoreCBlock ==
  /\ Stage("storeCBlock")
  /\ LET want == dctx.tmpInTarget
         got  == Stored(want)
         c    == Skip(Missing(want))
     IN  IF Len(got) < want
         THEN Suspend([dctx EXCEPT !.tmpIn = got], c, want - Len(got) + CrcSize + BHSize)
         ELSE DecodeCBlock(got, c)

FlushOut ==
  /\ Stage("flushOut")
  /\ LET n    == IF call.null THEN 0 ELSE Min({dctx.tmpOutSize - dctx.tmpOutStart, Room})
         data == Read(dctx.tmpOutBuffer, dctx.tmpOut + dctx.tmpOutStart, n)
         c    == [call EXCEPT !.dst = @ \o data]
         d1   == IF frame.linked /\ ~call.null
                 THEN UpdateDict(dctx, c.dst, Len(call.dst), n, TRUE) ELSE dctx
         d2   == [d1 EXCEPT !.tmpOutStart = @ + n]
     IN  IF d2.tmpOutStart = d2.tmpOutSize
         THEN Continue([d2 EXCEPT !.dStage = "getBlockHeader"], c)
         ELSE Suspend(d2, c, BHSize)

-----------------------------------------------------------------------------
(* The end of a frame, and frames that are only skipped.                   *)

CheckSuffix(bytes, c) ==
  IF Reads(bytes, "sum") /\ dctx.xxh = Content(0, Size(frame))
  THEN Suspend(ResetDecompressionContext(dctx), c, 0)
  ELSE Fail(dctx)

GetSuffix ==
  /\ Stage("getSuffix")
  /\ IF dctx.frameRemainingSize # 0 THEN Fail(dctx)
     ELSE IF ~frame.ccheck THEN Suspend(ResetDecompressionContext(dctx), call, 0)
     ELSE IF Input < BFSize
     THEN Continue([dctx EXCEPT !.tmpIn = <<>>, !.dStage = "storeSuffix"], call)
     ELSE CheckSuffix(Take(BFSize), Skip(BFSize))

StoreSuffix ==
  /\ Stage("storeSuffix")
  /\ LET got == Stored(BFSize)
         c   == Skip(Missing(BFSize))
     IN  IF Len(got) < BFSize
         THEN Suspend([dctx EXCEPT !.tmpIn = got], c, BFSize - Len(got))
         ELSE CheckSuffix(got, c)

SFrameSize(bytes, c) ==
  IF bytes = SubSeq(Field("skip", 0, SkipHeader), MagicSize + 1, SkipHeader)
  THEN Continue([dctx EXCEPT !.tmpInTarget = frame.size, !.dStage = "skipSkippable"], c)
  ELSE Fail(dctx)

GetSFrameSize ==
  /\ Stage("getSFrameSize")
  /\ IF Input >= SkipHeader - MagicSize
     THEN SFrameSize(Take(SkipHeader - MagicSize), Skip(SkipHeader - MagicSize))
     ELSE Continue([dctx EXCEPT !.tmpIn = [k \in 1 .. MagicSize |-> Token],
                                !.tmpInTarget = SkipHeader,
                                !.dStage = "storeSFrameSize"], call)

StoreSFrameSize ==
  /\ Stage("storeSFrameSize")
  /\ LET want == dctx.tmpInTarget
         got  == Stored(want)
         c    == Skip(Missing(want))
     IN  IF Len(got) < want
         THEN Suspend([dctx EXCEPT !.tmpIn = got], c, want - Len(got))
         ELSE SFrameSize(SubSeq(got, MagicSize + 1, want), c)

SkipSkippable ==
  /\ Stage("skipSkippable")
  /\ LET n == Min({dctx.tmpInTarget, Input})
         d == [dctx EXCEPT !.tmpInTarget = @ - n]
     IN  Suspend(IF d.tmpInTarget = 0 THEN ResetDecompressionContext(d) ELSE d,
                 Skip(n), d.tmpInTarget)

-----------------------------------------------------------------------------
(* The caller.                                                             *)

(* LZ4F_decompress() is entered.  The output buffer of the call before is  *)
(* the caller's again, and a pointer into it is stale.                     *)
Enter(n, m, null) ==
  /\ Idle /\ res > 0
  /\ call' = [busy |-> TRUE, src |-> fed, end |-> Min({fed + n, Len(Streams[frame])}),
              dst |-> <<>>, room |-> m, null |-> null]
  /\ dctx' = [dctx EXCEPT !.dict = IF @ = "dst" THEN "stale" ELSE @]
  /\ UNCHANGED <<frame, fed, out, res, left, fault>>

Call == \E n \in Feeds, m \in Rooms : Enter(n, m, FALSE)

(* LZ4F_getFrameInfo(): decodes the header of a frame that is all there,   *)
(* or asks LZ4F_decompress() for its hint once the header is known.        *)
GetFrameInfo ==
  \/ /\ dctx.dStage \notin {"getFrameHeader", "storeFrameHeader"}
     /\ Enter(0, 0, TRUE)
  \/ /\ Idle /\ res > 0 /\ dctx.dStage = "getFrameHeader"
     /\ LET size == Streams[frame][1][4]
            h    == DecodeHeader(dctx, Bytes(0, size), FALSE)
        IN  /\ h.ok
            /\ dctx' = h.d /\ fed' = h.used /\ res' = BHSize
     /\ UNCHANGED <<frame, out, call, left, fault>>

(* A new frame with the same context, after the one before is complete or  *)
(* after LZ4F_resetDecompressionContext().                                 *)
NextFrame ==
  /\ Idle /\ res = 0
  /\ StartFrame /\ fault' = "none" /\ UNCHANGED dctx

ResetContext ==
  /\ Idle /\ res # 0
  /\ StartFrame
  /\ dctx' = ResetDecompressionContext(dctx)
  /\ fault' = IF dctx.frameRemainingSize # 0 THEN "stale" ELSE "none"

Stages ==
  \/ GetFrameHeader \/ StoreFrameHeader \/ InitBuffers \/ AllocationFails
  \/ GetBlockHeader \/ StoreBlockHeader \/ CopyDirect \/ GetBlockChecksum
  \/ GetCBlock \/ StoreCBlock \/ FlushOut \/ GetSuffix \/ StoreSuffix
  \/ GetSFrameSize \/ StoreSFrameSize \/ SkipSkippable

Caller == Call \/ GetFrameInfo \/ NextFrame \/ ResetContext

Next == Stages \/ Caller

(* A caller who wants the content offers all of the rest, with room for    *)
(* it, again and again, whatever it does in between.                       *)
Serve == Enter(Max(Feeds), Max(Rooms), FALSE)

-----------------------------------------------------------------------------
(* Properties.                                                             *)

(* The types, and the bounds of every buffer: nothing is ever stored       *)
(* behind the end of tmpIn, of dctx->header, which three of the stages use *)
(* in its place, of tmpOutBuffer or of the caller's buffer (lz4frame.c     *)
(* 1299-1368 and 1421-1890).                                               *)
TypeOK ==
  /\ frame \in Frames /\ fed \in 0 .. Len(Streams[frame]) /\ res \in -1 .. U64
  /\ call.busy => Len(call.dst) <= call.room /\ call.src \in fed .. call.end
  /\ dctx.frameRemainingSize \in 0 .. U64 - 1
  /\ Len(dctx.tmpOutBuffer) = dctx.maxBufferSize \/ dctx.maxBufferSize = 0
  /\ dctx.dStage \in {"storeBlockHeader", "storeCBlock", "storeSuffix"}
       => Len(dctx.tmpIn) <= dctx.tmpInCap
  /\ dctx.dStage \in {"storeFrameHeader", "storeSFrameSize", "getBlockChecksum"}
       => Len(dctx.tmpIn) <= maxFHSize
  /\ dctx.dict = "tmp" => DictEnd(dctx) <= dctx.maxBufferSize
=============================================================================

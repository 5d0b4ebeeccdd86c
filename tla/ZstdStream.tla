----------------------------- MODULE ZstdStream -----------------------------
(***************************************************************************)
(* The streaming decoder of lib/zstd/decompress/zstd_decompress.c, in the  *)
(* buffered mode and without dictionary, as decompress.c uses it.          *)
(* ZSTD_decompressStream() drives ZSTD_decompressContinue() with the       *)
(* bytes it expects, lets it write into a ring of its own, which also      *)
(* holds the window the blocks refer to, and flushes that to the caller.   *)
(* Once a frame is read but not all of it delivered, the last byte of the  *)
(* input is held back as a hostage.                                        *)
(***************************************************************************)
EXTENDS CodecStream

CONSTANTS
  BlockSizeMax,      \* ZSTD_BLOCKSIZE_MAX
  WindowMin, WindowMax,   \* least window in use, largest one accepted
  Overlength,        \* WILDCOPY_OVERLENGTH
  NoProgressMax,     \* ZSTD_NO_FORWARD_PROGRESS_MAX
  TooLargeFactor, TooLargeDuration    \* ZSTD_WORKSPACETOOLARGE_...

-----------------------------------------------------------------------------
(* What the header of a frame says.                                        *)

Unknown == 1000000

windowSize(f) == IF f.single THEN f.declared ELSE f.window

frameContentSize(f) ==
  IF f.skippable THEN f.size ELSE IF f.declared >= 0 THEN f.declared ELSE Unknown

blockSizeMax(f) == IF f.skippable THEN 0 ELSE Min({windowSize(f), BlockSizeMax})

IsSound(f) ==
  /\ IsIntact(f)
  /\ ~f.skippable => /\ frameContentSize(f) \in {Unknown, Size(f)}
                     /\ windowSize(f) <= WindowMax
  /\ \A b \in DOMAIN f.blocks : /\ f.blocks[b].type # "reserved"
                                /\ f.blocks[b].size <= blockSizeMax(f)
                                /\ f.blocks[b].units <= blockSizeMax(f)

IsChecked(f) == f.ccheck

-----------------------------------------------------------------------------
(* struct ZSTD_DCtx_s: ZSTD_initDCtx_internal(), ZSTD_decompressBegin(),   *)
(* ZSTD_DCtx_reset().  Addresses are offsets in the ring; -1 is NULL.      *)

NULL == -1

NewContext ==
  [streamStage |-> "init", stage |-> "getFrameHeaderSize", expected |-> 0, block |-> 0,
   header |-> <<>>, inBuff |-> <<>>, inPos |-> 0, inBuffSize |-> 0,
   outBuff |-> <<>>, outStart |-> 0, outEnd |-> 0,
   prefixStart |-> NULL, previousDstEnd |-> NULL, dictEnd |-> NULL, virtualStart |-> 0,
   decodedSize |-> 0, xxh |-> <<>>, hostageByte |-> FALSE,
   noForwardProgress |-> 0, oversizedDuration |-> 0]

decompressBegin(d) ==
  [d EXCEPT !.stage = "getFrameHeaderSize", !.expected = HeaderPrefix, !.decodedSize = 0,
            !.prefixStart = NULL, !.previousDstEnd = NULL, !.dictEnd = NULL,
            !.virtualStart = 0, !.block = 0]

Reset(d) == [d EXCEPT !.streamStage = "init", !.noForwardProgress = 0]

Init == frame \in Frames /\ frame.fmt = "zstd" /\ Start /\ dctx = NewContext

-----------------------------------------------------------------------------
(* The window.                                                             *)

outBuffSize(d) == Len(d.outBuff)

(* ZSTD_checkContinuity(): output goes elsewhere than behind the last      *)
(* block, and what was the prefix becomes the external dictionary.         *)
checkContinuity(d, dst, size) ==
  IF dst = d.previousDstEnd \/ size = 0 THEN d
  ELSE [d EXCEPT !.dictEnd = d.previousDstEnd,
                 !.virtualStart = dst - (d.previousDstEnd - d.prefixStart),
                 !.prefixStart = dst, !.previousDstEnd = dst]

(* Where the byte k before the output position op is found.                *)
BackReference(d, op, k) ==
  IF k <= op - d.prefixStart THEN op - k
  ELSE d.dictEnd - (k - (op - d.prefixStart))

(* The bytes that writing n bytes at dst may change: a copy runs on for    *)
(* as much as Overlength as long as it stays in the ring.                  *)
Touched(d, dst, n) == dst .. Min({dst + n + Overlength, outBuffSize(d)}) - 1

(* Byte k before the byte i of the block is still there and is right.      *)
Remembers(d, i, k) ==
  LET op  == d.outStart + i
      at  == BackReference(d, op, k)
      pos == d.decodedSize + i - k + 1
  IN  k > i => /\ op - k >= d.virtualStart
               /\ at \in 0 .. outBuffSize(d) - 1
               /\ at \notin Touched(d, d.outStart, i)
               /\ d.outBuff[at + 1] = pos

(* ZSTD_decompressBlock_internal(): a block may refer to any byte of the   *)
(* window in front of each of its own; a damaged one may decode to         *)
(* something else.                                                         *)
decompressBlock(d, blk) ==
  LET reach(i) == 1 .. Min({windowSize(frame), d.decodedSize + i})
      good == ~blk.bad /\ \A i \in 0 .. blk.units - 1, k \in 1 .. windowSize(frame) :
                             k \in reach(i) => Remembers(d, i, k)
  IN  IF blk.units > outBuffSize(d) - d.outStart
      THEN {[ok |-> FALSE, data |-> <<>>]}
      ELSE (IF good THEN {} ELSE {[ok |-> FALSE, data |-> <<>>]})
             \cup {[ok |-> TRUE, data |-> IF good THEN Content(d.decodedSize, blk.units)
                                          ELSE Garbage(blk.units)]}

(* ZSTD_copyRawBlock(), ZSTD_setRleBlock()                                 *)
copyBlock(d, blk, n) ==
  IF n > outBuffSize(d) - d.outStart
  THEN {[ok |-> FALSE, data |-> <<>>]}
  ELSE {[ok |-> TRUE, data |-> IF blk.bad THEN Garbage(n) ELSE Content(d.decodedSize, n)]}

-----------------------------------------------------------------------------
(* ZSTD_decompressContinue(): what the next stage makes of its bytes, as a *)
(* set of results.                                                         *)

Error(d) == {[ok |-> FALSE, d |-> d, n |-> 0]}

Done(d, n) == {[ok |-> TRUE, d |-> d, n |-> n]}

endOfBlocks(d) ==
  IF frame.ccheck THEN [d EXCEPT !.expected = CheckSize, !.stage = "checkChecksum"]
  ELSE [d EXCEPT !.expected = 0, !.stage = "getFrameHeaderSize"]

nextBlock(d) == [d EXCEPT !.expected = BlockHeader, !.stage = "decodeBlockHeader"]

IsLast(b) == b = Len(frame.blocks)

decodeBlockHeader(d, bytes) ==
  LET b   == bytes[1][2]
      blk == frame.blocks[b]
  IN  IF ~Reads(bytes, "header") \/ blk.type = "reserved" \/ blk.size > blockSizeMax(frame)
      THEN Error(d)
      ELSE IF blk.size > 0
      THEN Done([d EXCEPT !.expected = blk.size, !.block = b, !.stage = "decompressBlock"], 0)
      ELSE Done(IF IsLast(b) THEN endOfBlocks(d) ELSE nextBlock(d), 0)

decodeBlock(d, bytes) ==
  LET blk == frame.blocks[d.block]
      n   == Len(bytes)
      results == IF blk.type = "compressed" THEN decompressBlock(d, blk)
                 ELSE copyBlock(d, blk, IF blk.type = "raw" THEN n ELSE blk.units)
      Decoded(data) ==
        [d EXCEPT !.outBuff = [k \in DOMAIN @ |->
                                 IF k - 1 \in d.outStart .. d.outStart + Len(data) - 1
                                 THEN data[k - d.outStart]
                                 ELSE IF blk.type = "compressed"
                                         /\ k - 1 \in Touched(d, d.outStart, Len(data))
                                 THEN 0 ELSE @[k]],
                  !.expected = IF blk.type = "raw" THEN @ - n ELSE 0,
                  !.decodedSize = @ + Len(data),
                  !.xxh = IF frame.ccheck THEN @ \o data ELSE @,
                  !.previousDstEnd = d.outStart + Len(data)]
      Finished(e) ==
        IF e.expected > 0 THEN Done(e, Len(bytes))
        ELSE IF ~IsLast(d.block) THEN Done(nextBlock(e), e.decodedSize - d.decodedSize)
        ELSE IF frameContentSize(frame) \notin {Unknown, e.decodedSize} THEN Error(e)
        ELSE Done(endOfBlocks(e), e.decodedSize - d.decodedSize)
  IN  UNION {IF ~r.ok \/ Len(r.data) > blockSizeMax(frame) THEN Error(d)
             ELSE Finished(Decoded(r.data)) : r \in results}

checkChecksum(d, bytes) ==
  IF Reads(bytes, "sum") /\ d.xxh = Content(0, Size(frame))
  THEN Done([d EXCEPT !.expected = 0, !.stage = "getFrameHeaderSize"], 0)
  ELSE Error(d)

isSkipFrame(d) == d.stage = "skipFrame"

decompressContinue(d0, bytes) ==
  LET size == IF isSkipFrame(d0) THEN 0 ELSE outBuffSize(d0) - d0.outStart
      d    == checkContinuity(d0, d0.outStart, size)
  IN  CASE d.stage = "decodeBlockHeader" -> decodeBlockHeader(d, bytes)
        [] d.stage = "decompressBlock" -> decodeBlock(d, bytes)
        [] d.stage = "checkChecksum" -> checkChecksum(d, bytes)
        [] OTHER -> Done([d EXCEPT !.expected = 0, !.stage = "getFrameHeaderSize"], 0)

(* ZSTD_nextSrcSizeToDecompressWithInputSize(): stored blocks are taken as *)
(* far as they are there.                                                  *)
nextSrcSize(d, input) ==
  IF d.stage = "decompressBlock" /\ frame.blocks[d.block].type = "raw"
  THEN Min({Max({input, 1}), d.expected}) ELSE d.expected

-----------------------------------------------------------------------------
(* How a turn of the loop in ZSTD_decompressStream() ends.                 *)

Continue(d, c) ==
  dctx' = d /\ call' = c /\ UNCHANGED <<frame, fed, out, res, left, fault>>

Fail(d, why) ==
  /\ dctx' = d /\ call' = NoCall /\ res' = -1
  /\ fault' = why
  /\ UNCHANGED <<frame, fed, out, left>>

Give(d, c, src, hint) ==
  /\ dctx' = d /\ call' = NoCall
  /\ fed' = src /\ out' = out \o c.dst /\ res' = hint
  /\ UNCHANGED <<frame, left, fault>>

(* The result: progress is counted, and the hostage taken or released.     *)
Finish(d0, c) ==
  LET stuck == c.src = fed /\ c.dst = <<>>
      d     == [d0 EXCEPT !.noForwardProgress = IF stuck THEN @ + 1 ELSE 0]
      isBlock == d.stage = "decompressBlock" /\ ~IsLast(d.block)
  IN  IF d.noForwardProgress >= NoProgressMax THEN Fail(d, "stuck")
      ELSE IF d.expected > 0
      THEN Give(d, c, c.src, d.expected + (IF isBlock THEN BlockHeader ELSE 0) - d.inPos)
      ELSE IF d.outEnd # d.outStart
      THEN Give([d EXCEPT !.hostageByte = TRUE], c,
                IF d.hostageByte THEN c.src ELSE c.src - 1, 1)
      ELSE IF ~d.hostageByte THEN Give(d, c, c.src, 0)
      ELSE IF c.src >= c.end THEN Give([d EXCEPT !.streamStage = "read"], c, c.src, 1)
      ELSE Give(d, c, c.src + 1, 0)

Stage(s) == call.busy /\ dctx.streamStage = s

-----------------------------------------------------------------------------
(* zdss_init, zdss_loadHeader                                              *)

InitStream ==
  /\ Stage("init")
  /\ Continue([dctx EXCEPT !.streamStage = "loadHeader", !.header = <<>>, !.inPos = 0,
                           !.inBuff = <<>>, !.outStart = 0, !.outEnd = 0, !.hostageByte = FALSE], call)

(* ZSTD_getFrameHeader_advanced(): bytes needed, 0 when the header is      *)
(* complete, -1 when it is no header.                                      *)
getFrameHeader(bytes) ==
  IF Len(bytes) < HeaderPrefix THEN HeaderPrefix
  ELSE IF bytes[1][1] = "skip"
  THEN IF Len(bytes) < SkipHeader THEN SkipHeader ELSE 0
  ELSE IF bytes[1][1] # "frame" \/ frame.header = "magic" THEN -1
  ELSE IF Len(bytes) < HeaderSize(frame) THEN HeaderSize(frame)
  ELSE IF frame.header = "reserved" THEN -1 ELSE 0

LoadHeader ==
  /\ Stage("loadHeader")
  /\ LET hSize  == getFrameHeader(dctx.header)
         toLoad == hSize - Len(dctx.header)
     IN  \/ hSize = -1 /\ Fail(dctx, fault)
         \/ /\ hSize > 0 /\ toLoad > Input
            /\ Give([dctx EXCEPT !.header = @ \o Take(Input)], call, call.end,
                    Max({HeaderPrefix + 1, hSize}) - Len(dctx.header) - Input + BlockHeader)
         \/ /\ hSize > 0 /\ toLoad <= Input
            /\ Continue([dctx EXCEPT !.header = @ \o Take(toLoad)], Skip(toLoad))

(* ZSTD_findFrameSizeInfo(): the whole frame is in the input of this call. *)
WholeFrame ==
  /\ fed = 0 /\ call.end >= StreamLength(frame)
  /\ \A b \in DOMAIN frame.blocks : frame.blocks[b].type # "reserved"

SinglePassMode ==
  /\ ~frame.skippable /\ frame.declared >= 0
  /\ Room >= frame.declared /\ WholeFrame

HeaderComplete == Stage("loadHeader") /\ getFrameHeader(dctx.header) = 0

(* ZSTD_decompress_usingDDict() for one frame: ZSTD_decompressFrame(),     *)
(* straight into the caller's buffer.                                      *)
SinglePass ==
  /\ HeaderComplete /\ SinglePassMode
  /\ LET size == Size(frame)
         good == IsIntact(frame)
         d    == [decompressBegin(dctx) EXCEPT !.streamStage = "init", !.expected = 0]
     IN  \/ /\ size > Room \/ size # frame.declared \/ ~good
            /\ Fail(decompressBegin(dctx), fault)
         \/ /\ size <= Room /\ size = frame.declared /\ (good \/ ~frame.ccheck)
            /\ Finish(d, [call EXCEPT !.src = StreamLength(frame),
                                      !.dst = IF good THEN Content(0, size) ELSE Garbage(size)])

(* Mutant: the ring has no space for copies that run on.                   *)
decodingBufferTight(window, content) ==
  Min({content, window + Min({window, BlockSizeMax})})

(* ZSTD_decodingBufferSize_min()                                           *)
decodingBufferSize(window, content) ==
  Min({content, window + Min({window, BlockSizeMax}) + 2 * Overlength})

Window == Max({IF frame.skippable THEN 0 ELSE windowSize(frame), WindowMin})

neededInBuffSize == Max({blockSizeMax(frame), CheckSize})

neededOutBuffSize == decodingBufferSize(Window, frameContentSize(frame))

oversized ==
  dctx.inBuffSize + outBuffSize(dctx)
    >= (neededInBuffSize + neededOutBuffSize) * TooLargeFactor

(* ZSTD_decodeFrameHeader() and the sizes of the buffers, which are only   *)
(* replaced when they are too small, or were too large for long.           *)
Measured ==
  LET d == [decompressBegin(dctx) EXCEPT
              !.oversizedDuration = IF oversized THEN @ + 1 ELSE 0, !.xxh = <<>>]
  IN  IF frame.skippable THEN [d EXCEPT !.expected = frame.size, !.stage = "skipFrame"]
      ELSE nextBlock(d)

ReplaceBuffers ==
  \/ dctx.inBuffSize < neededInBuffSize \/ outBuffSize(dctx) < neededOutBuffSize
  \/ Measured.oversizedDuration >= TooLargeDuration

BeginFrame ==
  /\ HeaderComplete /\ ~SinglePassMode
  /\ \/ Window > WindowMax /\ Fail(decompressBegin(dctx), fault)
     \/ /\ Window <= WindowMax /\ ~ReplaceBuffers
        /\ Continue([Measured EXCEPT !.streamStage = "read"], call)
     \/ /\ Window <= WindowMax /\ ReplaceBuffers
        /\ Continue([Measured EXCEPT !.streamStage = "read", !.inBuffSize = neededInBuffSize,
                                     !.outBuff = Garbage(neededOutBuffSize)], call)

AllocationFails ==
  /\ HeaderComplete /\ ~SinglePassMode
  /\ Window <= WindowMax /\ ReplaceBuffers
  /\ Fail([Measured EXCEPT !.inBuffSize = 0, !.outBuff = <<>>], "oom")

-----------------------------------------------------------------------------
(* zdss_read, zdss_load, zdss_flush                                        *)

(* ZSTD_decompressContinueStream()                                         *)
decompressContinueStream(d, bytes, c) ==
  \E r \in decompressContinue(d, bytes) :
     IF ~r.ok THEN Fail(r.d, fault)
     ELSE IF r.n = 0 /\ ~isSkipFrame(d)
     THEN Continue([r.d EXCEPT !.streamStage = "read"], c)
     ELSE Continue([r.d EXCEPT !.outEnd = r.d.outStart + r.n, !.streamStage = "flush"], c)

ReadInput ==
  /\ Stage("read")
  /\ LET needed == nextSrcSize(dctx, Input)
     IN  IF needed = 0 THEN Finish([dctx EXCEPT !.streamStage = "init"], call)
         ELSE IF Input >= needed
         THEN decompressContinueStream(dctx, Take(needed), Skip(needed))
         ELSE IF Input = 0 THEN Finish(dctx, call)
         ELSE Continue([dctx EXCEPT !.streamStage = "load"], call)

LoadInput ==
  /\ Stage("load")
  /\ LET toLoad == dctx.expected - dctx.inPos
         n      == Min({toLoad, Input})
         d      == [dctx EXCEPT !.inPos = @ + n,
                                !.inBuff = IF isSkipFrame(dctx) THEN @ ELSE @ \o Take(n)]
     IN  IF ~isSkipFrame(dctx) /\ toLoad > dctx.inBuffSize - dctx.inPos
         THEN Fail(dctx, fault)
         ELSE IF n < toLoad THEN Finish(d, Skip(n))
         ELSE decompressContinueStream([d EXCEPT !.inPos = 0, !.inBuff = <<>>],
                                       d.inBuff, Skip(n))

(* The ring starts again when the next block may not fit behind.           *)
RingRestarts(d) ==
  /\ outBuffSize(d) < frameContentSize(frame)
  /\ d.outStart + blockSizeMax(frame) > outBuffSize(d)

FlushOutput ==
  /\ Stage("flush")
  /\ LET toFlush == dctx.outEnd - dctx.outStart
         n == Min({toFlush, Room})
         c == [call EXCEPT !.dst = @ \o Read(dctx.outBuff, dctx.outStart, n)]
         d == [dctx EXCEPT !.outStart = @ + n]
     IN  IF n < toFlush THEN Finish(d, c)
         ELSE Continue([d EXCEPT !.streamStage = "read",
                                 !.outStart = IF RingRestarts(d) THEN 0 ELSE @,
                                 !.outEnd = IF RingRestarts(d) THEN 0 ELSE @], c)

-----------------------------------------------------------------------------
(* The caller.                                                             *)

Enter(n, m) ==
  /\ Idle /\ res > 0
  /\ call' = [NoCall EXCEPT !.busy = TRUE, !.src = fed, !.room = m,
                            !.end = Min({fed + n, Len(Streams[frame])})]
  /\ UNCHANGED <<frame, fed, out, res, dctx, left, fault>>

Call == \E n \in Feeds, m \in Rooms : Enter(n, m)

NextFrame ==
  /\ Idle /\ res = 0
  /\ StartFrame /\ fault' = "none" /\ UNCHANGED dctx

(* ZSTD_DCtx_reset(ZSTD_reset_session_only)                                *)
ResetSession ==
  /\ Idle /\ res # 0
  /\ StartFrame /\ fault' = "none" /\ dctx' = Reset(dctx)

Stages ==
  \/ InitStream \/ LoadHeader \/ SinglePass \/ BeginFrame \/ AllocationFails
  \/ ReadInput \/ LoadInput \/ FlushOutput

Caller == Call \/ NextFrame \/ ResetSession

Next == Stages \/ Caller

Serve == Enter(Max(Feeds), Max(Rooms))

-----------------------------------------------------------------------------
(* Properties.                                                             *)

TypeOK ==
  /\ frame \in Frames /\ fed \in 0 .. Len(Streams[frame]) /\ res >= -1
  /\ call.busy => Len(call.dst) <= call.room /\ call.src \in fed .. call.end
  /\ Len(dctx.header) <= Max({SkipHeader, HeaderPrefix + 1 + SizeField})
  /\ Len(dctx.inBuff) <= dctx.inBuffSize
  /\ dctx.outStart \in 0 .. dctx.outEnd /\ dctx.outEnd <= outBuffSize(dctx)
=============================================================================

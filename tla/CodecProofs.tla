---------------------------- MODULE CodecProofs ----------------------------
(***************************************************************************)
(* Proofs about Codec: no buffer of the two streaming decoders is ever     *)
(* written behind its end, and no call returns without progress, for every *)
(* set of frames, every cut of the input and of the output, and every size *)
(* of block, window and history.                                           *)
(***************************************************************************)
EXTENDS Codec, TLAPS, WellFoundedInduction

(* The inductive invariant is stated over a frame f and a context d, so    *)
(* that what a stage leaves behind can be looked at before it is stored.   *)

IsSeq(s) == Len(s) \in Nat /\ s = [k \in 1 .. Len(s) |-> s[k]]

(* The bytes the stream of a frame may hold.                               *)
Tokens(f) ==
  ({"header", "data", "crc"} \X (DOMAIN f.blocks) \X Nat \X Nat)
    \cup ({"end", "sum", "user", "next"} \X {0} \X Nat \X Nat)
    \cup (IF f.skippable THEN {"skip"} \X {0} \X Nat \X {SkipHeader}
          ELSE {"frame"} \X {0} \X Nat \X {HeaderSize(f)})

-----------------------------------------------------------------------------
(* A call in progress, with `known' bytes consumed before it.              *)
CallOK(f, known, c) ==
  /\ DOMAIN c = {"busy", "src", "end", "dst", "room", "null"}
  /\ c.busy \in BOOLEAN /\ c.null \in BOOLEAN
  /\ c.busy => /\ c.src \in Nat /\ c.end \in Nat /\ c.room \in Nat
               /\ known <= c.src /\ c.src <= c.end /\ c.end <= Len(Streams[f])
               /\ IsSeq(c.dst) /\ Len(c.dst) <= c.room

-----------------------------------------------------------------------------
(* The context of LZ4F_decompress().                                       *)

HeadStages ==
  {"getFrameHeader", "storeFrameHeader", "init",
   "getSFrameSize", "storeSFrameSize", "skipSkippable"}

BlockStages ==
  {"getBlockHeader", "storeBlockHeader", "copyDirect", "getBlockChecksum", "getCBlock",
   "storeCBlock", "flushOut", "getSuffix", "storeSuffix"}

Needed(f) == f.maxBlockSize + (IF f.linked THEN 2 * KB64 ELSE 0)

LShape(d) ==
  /\ DOMAIN d = {"dStage", "frameRemainingSize", "tmpInTarget", "maxBufferSize", "tmpInCap",
                 "tmpIn", "tmpOutBuffer", "tmpOut", "tmpOutSize", "tmpOutStart", "dict",
                 "dictOff", "dictSize", "xxh", "blockSum"}
  /\ d.dStage \in HeadStages \cup BlockStages
  /\ d.frameRemainingSize \in 0 .. U64 - 1 /\ d.tmpInTarget \in Nat
  /\ d.maxBufferSize \in Nat /\ d.tmpInCap \in Nat
  /\ IsSeq(d.tmpIn) /\ Len(d.tmpOutBuffer) \in Nat
  /\ d.tmpOut \in Nat /\ d.tmpOutSize \in Nat /\ d.tmpOutStart \in Nat
  /\ d.dict \in {"NULL", "tmp", "dst", "stale"} /\ d.dictOff \in Nat /\ d.dictSize \in Nat

(* The two buffers were allocated together, for one of the frames.         *)
LBuffers(d) ==
  d.maxBufferSize # 0 =>
    /\ Len(d.tmpOutBuffer) = d.maxBufferSize
    /\ \E g \in Frames : /\ g.fmt = "lz4" /\ d.maxBufferSize = Needed(g)
                         /\ d.tmpInCap = g.maxBlockSize + BFSize

(* The history.  It is only kept for a linked frame, and if it is in       *)
(* tmpOutBuffer it starts there; while a block is flushed from there, it   *)
(* ends where the flushed part of the block does.                          *)
LDict(f, d) ==
  /\ d.dStage \in HeadStages => d.dict = "NULL" /\ d.dictSize = 0
  /\ d.dStage \in BlockStages =>
       /\ Needed(f) <= d.maxBufferSize /\ f.maxBlockSize + BFSize <= d.tmpInCap
       /\ ~f.linked => d.dict = "NULL" /\ d.tmpOut = 0
  /\ d.dict = "tmp" => d.dictOff = 0 /\ d.dictSize <= d.maxBufferSize

LFlush(f, d) ==
  d.dStage = "flushOut" =>
    /\ d.tmpOutStart <= d.tmpOutSize /\ d.tmpOutSize <= f.maxBlockSize
    /\ d.tmpOut + f.maxBlockSize <= d.maxBufferSize
    /\ d.dict = "tmp" => d.dictSize = d.tmpOut + d.tmpOutStart

(* What each of the stages has stored, and waits for.                      *)
LCrc(f) == IF f.bcheck THEN BFSize ELSE 0

LInput(f, d) ==
  /\ d.dStage = "storeFrameHeader" =>
       /\ d.tmpIn \in Seq(Tokens(f)) /\ Len(d.tmpIn) <= d.tmpInTarget
       /\ d.tmpInTarget = minFHSize \/ (~f.skippable /\ d.tmpInTarget <= maxFHSize)
  /\ d.dStage = "storeSFrameSize" => d.tmpInTarget = SkipHeader /\ Len(d.tmpIn) <= SkipHeader
  /\ d.dStage = "skipSkippable" => d.tmpInTarget <= U64
  /\ d.dStage = "storeBlockHeader" => d.tmpIn \in Seq(Tokens(f)) /\ Len(d.tmpIn) <= BHSize
  /\ d.dStage = "copyDirect" => d.tmpInTarget <= f.maxBlockSize
  /\ d.dStage \in {"getCBlock", "storeCBlock"} =>
       LCrc(f) <= d.tmpInTarget /\ d.tmpInTarget <= f.maxBlockSize + LCrc(f)
  /\ d.dStage = "storeCBlock" => d.tmpIn \in Seq(Tokens(f)) /\ Len(d.tmpIn) <= d.tmpInTarget
  /\ d.dStage \in {"getBlockChecksum", "storeSuffix"} => Len(d.tmpIn) <= BFSize

LContext(f, d) ==
  LShape(d) /\ LBuffers(d) /\ LDict(f, d) /\ LFlush(f, d) /\ LInput(f, d)

LInv ==
  /\ frame \in Frames /\ frame.fmt = "lz4" /\ fed \in 0 .. Len(Streams[frame])
  /\ res \in -1 .. U64 /\ CallOK(frame, fed, call) /\ LContext(frame, dctx)
  /\ res = 0 => dctx.dStage = "getFrameHeader" /\ ~call.busy

-----------------------------------------------------------------------------
(* The context of ZSTD_decompressStream().                                 *)

ZHeaderMax == Max({SkipHeader, HeaderPrefix + 1 + SizeField})

ZShape(d) ==
  /\ DOMAIN d = {"streamStage", "stage", "expected", "block", "header", "inBuff", "inPos",
                 "inBuffSize", "outBuff", "outStart", "outEnd", "prefixStart",
                 "previousDstEnd", "dictEnd", "virtualStart", "decodedSize", "xxh",
                 "hostageByte", "noForwardProgress", "oversizedDuration"}
  /\ d.streamStage \in {"init", "loadHeader", "read", "load", "flush"}
  /\ d.expected \in Nat /\ IsSeq(d.inBuff) /\ d.inPos \in Nat /\ d.inBuffSize \in Nat
  /\ IsSeq(d.header) /\ Len(d.header) <= ZHeaderMax /\ Len(d.inBuff) <= d.inBuffSize
  /\ Len(d.outBuff) \in Nat /\ DOMAIN d.outBuff = 1 .. Len(d.outBuff)
  /\ d.outStart \in Nat /\ d.outEnd \in Nat /\ d.decodedSize \in Nat
  /\ d.hostageByte \in BOOLEAN /\ d.outStart <= d.outEnd /\ d.outEnd <= Len(d.outBuff)

(* The input that is stored is the part of the next field that is there,   *)
(* and no input is left in front of the hostage but the hostage.           *)
ZStages(f, d, known) ==
  /\ d.streamStage = "loadHeader" =>
       /\ d.inPos = 0 /\ d.inBuff = <<>> /\ d.outStart = 0 /\ d.outEnd = 0
       /\ ~d.hostageByte /\ Len(d.header) <= known
  /\ d.streamStage \in {"read", "load", "flush"} =>
       /\ d.inPos <= d.expected
       /\ d.stage = "decompressBlock" => d.block \in DOMAIN f.blocks
       /\ d.hostageByte \/ known >= 1
  /\ d.streamStage \in {"read", "flush"} => d.inPos = 0 /\ d.inBuff = <<>>
  /\ d.streamStage \in {"read", "load"} => d.outStart = d.outEnd
  /\ d.streamStage = "load" =>
       /\ d.inBuff \in Seq(Tokens(f))
       /\ Len(d.inBuff) = (IF d.stage = "skipFrame" THEN 0 ELSE d.inPos)

ZInv ==
  /\ frame \in Frames /\ frame.fmt # "lz4" /\ fed \in 0 .. Len(Streams[frame])
  /\ res \in Int /\ res >= -1 /\ CallOK(frame, fed, call) /\ ZShape(dctx)
  /\ res > 0 => ZStages(frame, dctx, IF call.busy THEN call.src ELSE fed)
  /\ call.busy => res > 0
  /\ res = 0 => dctx.streamStage = "init"

CodecInv == IF IsLZ4 THEN LInv ELSE ZInv

-----------------------------------------------------------------------------
(* Sequences.                                                              *)

LEMMA Least ==
  ASSUME NEW N \in SUBSET Nat, N # {}
  PROVE  \E x \in N : \A y \in N : x <= y
<1>1. PICK x \in N : \A y \in N : ~(<<y, x>> \in OpToRel(<, Nat))
  BY NatLessThanWellFounded, WFMin
<1>2. ASSUME NEW y \in N PROVE x <= y
  <2>1. ~(<<y, x>> \in OpToRel(<, Nat))
    BY <1>1
  <2>2. ~(y < x)
    BY <2>1 DEF OpToRel
  <2> QED
    BY <2>2
<1> QED
  BY <1>2

LEMMA MinOfTwo ==
  ASSUME NEW a \in Int, NEW b \in Int
  PROVE  Min({a, b}) = IF a <= b THEN a ELSE b
BY DEF Min

LEMMA MaxOfTwo ==
  ASSUME NEW a \in Int, NEW b \in Int
  PROVE  Max({a, b}) = IF a <= b THEN b ELSE a
BY DEF Max

LEMMA SeqIsSeq ==
  ASSUME NEW S, NEW s \in Seq(S)
  PROVE  IsSeq(s)
BY DEF IsSeq

LEMMA EmptyIsSeq == IsSeq(<<>>) /\ Len(<<>>) = 0
BY DEF IsSeq

LEMMA IsSeqTyped ==
  ASSUME NEW s, IsSeq(s)
  PROVE  s \in Seq({s[k] : k \in 1 .. Len(s)})
BY DEF IsSeq

LEMMA Joined ==
  ASSUME NEW s, NEW t, IsSeq(s), IsSeq(t)
  PROVE  IsSeq(s \o t) /\ Len(s \o t) = Len(s) + Len(t)
<1> DEFINE S == {s[k] : k \in 1 .. Len(s)}
           T == {t[k] : k \in 1 .. Len(t)}
<1>1. s \in Seq(S) /\ t \in Seq(T)
  BY IsSeqTyped
<1>2. \A A, B : s \in Seq(A) /\ t \in Seq(B)
               => s \o t \in Seq(A \cup B) /\ Len(s \o t) = Len(s) + Len(t)
  OBVIOUS
<1>3. s \o t \in Seq(S \cup T) /\ Len(s \o t) = Len(s) + Len(t)
  BY <1>1, <1>2
<1> QED
  BY <1>3, SeqIsSeq

LEMMA Elements ==
  ASSUME NEW S, NEW s \in Seq(S)
  PROVE  \A i \in DOMAIN s : s[i] \in S
OBVIOUS

LEMMA JoinedFirst ==
  ASSUME NEW S, NEW s \in Seq(S), NEW t \in Seq(S), Len(s) >= 1
  PROVE  (s \o t)[1] = s[1]
OBVIOUS

LEMMA JoinedTyped ==
  ASSUME NEW S, NEW s \in Seq(S), NEW t \in Seq(S)
  PROVE  s \o t \in Seq(S) /\ Len(s \o t) = Len(s) + Len(t)
OBVIOUS

LEMMA Sliced ==
  ASSUME NEW S, NEW s \in Seq(S), NEW i \in Nat, NEW n \in Nat, i + n <= Len(s)
  PROVE  SubSeq(s, i + 1, i + n) \in Seq(S) /\ Len(SubSeq(s, i + 1, i + n)) = n
OBVIOUS

(* The copies of the model are as long as they are said to be.             *)
LEMMA Copies ==
  ASSUME NEW n \in Nat
  PROVE  /\ \A from : IsSeq(Content(from, n)) /\ Len(Content(from, n)) = n
         /\ IsSeq(Garbage(n)) /\ Len(Garbage(n)) = n
         /\ \A buf, from : IsSeq(Read(buf, from, n)) /\ Len(Read(buf, from, n)) = n
BY DEF Content, Garbage, Read, IsSeq

LEMMA Written ==
  ASSUME NEW buf, NEW at \in Nat, NEW data, Len(buf) \in Nat, Len(data) \in Nat,
         at + Len(data) <= Len(buf)
  PROVE  Len(Write(buf, at, data)) = Len(buf)
<1>1. Max({Len(buf), at + Len(data)}) = Len(buf)
  BY MaxOfTwo
<1> QED
  BY <1>1 DEF Write

LEMMA Moved ==
  ASSUME NEW buf, NEW at \in Nat, NEW from, NEW n \in Nat, Len(buf) \in Nat,
         at + n <= Len(buf)
  PROVE  Len(Move(buf, at, from, n)) = Len(buf)
<1>1. Len(Garbage(n)) = n /\ Len(Read(buf, from, n)) = n
  BY Copies
<1>2. Len(Write(buf, at, Garbage(n))) = Len(buf) /\ Len(Write(buf, at, Read(buf, from, n))) = Len(buf)
  BY <1>1, Written
<1> QED
  BY <1>2 DEF Move

(* FlattenSeq() of a sequence of sequences, by least counterexample.       *)
LEMMA Flattened ==
  ASSUME NEW S, NEW ss \in Seq(Seq(S))
  PROVE  FlattenSeq(ss) \in Seq(S)
<1> DEFINE n == Len(ss)
           Step(h, m) == h = [i \in 1 .. m |-> IF i = 1 THEN ss[i] ELSE h[i - 1] \o ss[i]]
           flatten == CHOOSE h : Step(h, n)
<1>1. n \in Nat /\ \A i \in 1 .. n : ss[i] \in Seq(S)
  OBVIOUS
<1>2. CASE n = 0
  BY <1>2 DEF FlattenSeq
<1>3. CASE n # 0
  <2> DEFINE Bad == {m \in Nat : m <= n /\ ~\E h \in [1 .. m -> Seq(S)] : Step(h, m)}
  <2>1. Bad = {}
    <3> SUFFICES ASSUME Bad # {} PROVE FALSE
      OBVIOUS
    <3>1. PICK m \in Bad : \A y \in Bad : m <= y
      BY Least
    <3>2. m # 0
      <4>1. Step([i \in 1 .. 0 |-> ss[i]], 0) /\ [i \in 1 .. 0 |-> ss[i]] \in [1 .. 0 -> Seq(S)]
        OBVIOUS
      <4> QED
        BY <4>1, <3>1
    <3>3. m - 1 \in Nat /\ m - 1 <= n /\ m \in 1 .. n /\ ~(m - 1 \in Bad)
      <4>1. m \in Nat /\ m <= n
        OBVIOUS
      <4> HIDE DEF Bad
      <4> QED
        BY <4>1, <3>1, <3>2, <1>1
    <3>4. PICK h \in [1 .. m - 1 -> Seq(S)] : Step(h, m - 1)
      BY <3>3
    <3> DEFINE g == [i \in 1 .. m |-> IF i = m THEN IF m = 1 THEN ss[m] ELSE h[m - 1] \o ss[m]
                                      ELSE h[i]]
    <3>5. ASSUME NEW i \in 1 .. m
          PROVE  g[i] \in Seq(S) /\ g[i] = IF i = 1 THEN ss[i] ELSE g[i - 1] \o ss[i]
      <4>1. CASE i = m
        BY <4>1, <1>1, <3>3, <3>4
      <4>2. CASE i # m
        <5>1. i \in 1 .. m - 1 /\ g[i] = h[i] /\ (i # 1 => g[i - 1] = h[i - 1])
          BY <4>2, <3>3
        <5>2. h[i] = IF i = 1 THEN ss[i] ELSE h[i - 1] \o ss[i]
          BY <3>4, <5>1
        <5> QED
          BY <5>1, <5>2, <3>4
      <4> QED
        BY <4>1, <4>2
    <3>6. g \in [1 .. m -> Seq(S)] /\ Step(g, m)
      BY <3>5
    <3> QED
      BY <3>1, <3>6
  <2>2. \E h : Step(h, n)
    <3>1. ~(n \in Bad) /\ n \in Nat /\ n <= n
      <4> HIDE DEF Bad
      <4> QED
        BY <2>1, <1>1
    <3>2. \E h \in [1 .. n -> Seq(S)] : Step(h, n)
      <4> HIDE DEF n, Step
      <4> QED
        BY <3>1
    <3> QED
      BY <3>2
  <2>3. Step(flatten, n)
    BY <2>2
  <2> HIDE DEF flatten
  <2>4. \A i \in 1 .. n : flatten[i] = IF i = 1 THEN ss[i] ELSE flatten[i - 1] \o ss[i]
    BY <2>3
  <2> DEFINE Wrong == {m \in Nat : m \in 1 .. n /\ ~(flatten[m] \in Seq(S))}
  <2>5. Wrong = {}
    <3> SUFFICES ASSUME Wrong # {} PROVE FALSE
      OBVIOUS
    <3>1. PICK m \in Wrong : \A y \in Wrong : m <= y
      BY Least
    <3>2. m \in 1 .. n /\ ~(flatten[m] \in Seq(S)) /\ ss[m] \in Seq(S)
      BY <3>1, <1>1
    <3>3. flatten[m] = IF m = 1 THEN ss[m] ELSE flatten[m - 1] \o ss[m]
      BY <3>2, <2>4
    <3>4. m # 1
      BY <3>2, <3>3
    <3>5. m - 1 \in Nat /\ m - 1 \in 1 .. n /\ ~(m - 1 \in Wrong)
      BY <3>1, <3>4, <1>1
    <3>6. flatten[m - 1] \in Seq(S)
      BY <3>5
    <3> QED
      BY <3>2, <3>3, <3>4, <3>6
  <2>6. FlattenSeq(ss) = flatten[n]
    BY <1>3 DEF FlattenSeq, flatten
  <2>7. n \in 1 .. n /\ n \in Nat
    BY <1>1, <1>3
  <2> QED
    BY <2>5, <2>6, <2>7
<1> QED
  BY <1>2, <1>3

-----------------------------------------------------------------------------
(* The stream of a frame.                                                  *)

LEMMA Sizes ==
  /\ SizeField \in Nat /\ KB64 \in Nat /\ CheckSize \in Nat /\ BlockSizeMax \in Nat
  /\ WindowMin \in Nat /\ Overlength \in Nat
  /\ MagicSize \in Nat /\ minFHSize \in Nat /\ BHSize \in Nat /\ BFSize \in Nat
  /\ HeaderPrefix \in Nat /\ BlockHeader \in Nat /\ U64 \in Nat
  /\ SkipHeader \in Nat /\ maxFHSize \in Nat
  /\ MagicSize > 0 /\ minFHSize > 0 /\ BHSize > 0 /\ BFSize > 0
  /\ HeaderPrefix > 0 /\ BlockHeader > 0 /\ U64 > 0
  /\ SkipHeader = MagicSize + MagicSize
  /\ MagicSize <= minFHSize /\ minFHSize <= SkipHeader /\ SkipHeader <= maxFHSize
  /\ minFHSize <= maxFHSize
  /\ BHSize <= BFSize /\ BFSize <= maxFHSize /\ maxFHSize + BHSize <= U64
BY SizesAssumption DEF SkipHeader, maxFHSize

LEMMA LZ4FrameTyped ==
  ASSUME NEW f \in Frames, f.fmt = "lz4"
  PROVE  /\ f.skippable \in BOOLEAN /\ f.linked \in BOOLEAN /\ f.bcheck \in BOOLEAN
         /\ f.ccheck \in BOOLEAN /\ f.declared \in 0 .. U64 - 1 /\ f.size \in 0 .. U64
         /\ f.maxBlockSize \in Nat /\ f.maxBlockSize > 0
         /\ f.maxBlockSize + 2 * BFSize + BHSize <= U64
         /\ \A b \in DOMAIN f.blocks : /\ f.blocks[b].raw \in BOOLEAN
                                       /\ f.blocks[b].size \in Nat
                                       /\ f.blocks[b].units \in Nat
         /\ HeaderSize(f) \in Nat /\ HeaderSize(f) <= maxFHSize /\ minFHSize <= HeaderSize(f)
         /\ Len(f.blocks) \in Nat /\ DOMAIN f.blocks = 1 .. Len(f.blocks)
<1>1. IsLZ4Frame(f)
  BY FramesAssumption
<1>2. \A b \in DOMAIN f.blocks : f.blocks[b] \in [raw : BOOLEAN, size : Nat, units : Nat, bad : BOOLEAN]
  <2>1. f.blocks \in Seq([raw : BOOLEAN, size : Nat, units : Nat, bad : BOOLEAN])
    BY <1>1 DEF IsLZ4Frame
  <2> QED
    BY <2>1, Elements
<1>3. HeaderSize(f) = IF f.declared > 0 THEN maxFHSize ELSE minFHSize
  BY DEF HeaderSize
<1>4. /\ f.declared \in 0 .. U64 - 1 /\ f.size \in 0 .. U64
      /\ f.maxBlockSize \in Nat /\ f.maxBlockSize > 0
      /\ f.maxBlockSize + 2 * BFSize + BHSize <= U64
      /\ f.skippable \in BOOLEAN /\ f.linked \in BOOLEAN /\ f.bcheck \in BOOLEAN
      /\ f.ccheck \in BOOLEAN
      /\ Len(f.blocks) \in Nat /\ DOMAIN f.blocks = 1 .. Len(f.blocks)
  BY <1>1 DEF IsLZ4Frame
<1> QED
  BY <1>2, <1>3, <1>4, Sizes

LEMMA ZstdFrameTyped ==
  ASSUME NEW f \in Frames, f.fmt # "lz4"
  PROVE  /\ f.skippable \in BOOLEAN /\ f.single \in BOOLEAN /\ f.ccheck \in BOOLEAN
         /\ f.declared \in Int /\ f.declared >= -1 /\ f.size \in Nat /\ f.window \in Nat
         /\ f.single => f.declared \in Nat
         /\ \A b \in DOMAIN f.blocks : f.blocks[b].size \in Nat /\ f.blocks[b].units \in Nat
         /\ HeaderSize(f) \in Nat /\ HeaderSize(f) > 0
         /\ HeaderSize(f) <= HeaderPrefix + 1 + SizeField
         /\ Len(f.blocks) \in Nat /\ DOMAIN f.blocks = 1 .. Len(f.blocks)
<1>1. IsZstdFrame(f)
  BY FramesAssumption
<1>2. \A b \in DOMAIN f.blocks :
        f.blocks[b] \in [type : {"raw", "rle", "compressed", "reserved"}, size : Nat,
                         units : Nat, bad : BOOLEAN]
  <2>1. f.blocks \in Seq([type : {"raw", "rle", "compressed", "reserved"}, size : Nat,
                         units : Nat, bad : BOOLEAN])
    BY <1>1 DEF IsZstdFrame
  <2> QED
    BY <2>1, Elements
<1>3. HeaderSize(f) = HeaderPrefix + (IF f.single THEN 0 ELSE 1)
                        + (IF f.declared >= 0 THEN SizeField ELSE 0)
  BY DEF HeaderSize
<1>4. /\ f.skippable \in BOOLEAN /\ f.single \in BOOLEAN /\ f.ccheck \in BOOLEAN
      /\ f.declared \in Int /\ f.declared >= -1 /\ f.size \in Nat /\ f.window \in Nat
      /\ f.single => f.declared \in Nat
      /\ Len(f.blocks) \in Nat /\ DOMAIN f.blocks = 1 .. Len(f.blocks)
  BY <1>1 DEF IsZstdFrame
<1> QED
  BY <1>2, <1>3, <1>4, Sizes

LEMMA FieldTyped ==
  ASSUME NEW S, NEW name, NEW b, NEW n \in Nat, \A k \in 1 .. n : <<name, b, k, n>> \in S
  PROVE  Field(name, b, n) \in Seq(S) /\ Len(Field(name, b, n)) = n
BY DEF Field

LEMMA BlockFields ==
  ASSUME NEW f, NEW b \in DOMAIN f.blocks, NEW n \in Nat,
         NEW name \in {"header", "data", "crc"}
  PROVE  Field(name, b, n) \in Seq(Tokens(f))
<1>1. \A k \in 1 .. n : <<name, b, k, n>> \in {"header", "data", "crc"} \X (DOMAIN f.blocks) \X Nat \X Nat
  OBVIOUS
<1>2. \A k \in 1 .. n : <<name, b, k, n>> \in Tokens(f)
  BY <1>1 DEF Tokens
<1> QED
  BY <1>2, FieldTyped

LEMMA OtherFields ==
  ASSUME NEW f, NEW n \in Nat, NEW name \in {"end", "sum", "user", "next"}
  PROVE  Field(name, 0, n) \in Seq(Tokens(f)) /\ Len(Field(name, 0, n)) = n
<1>1. \A k \in 1 .. n : <<name, 0, k, n>> \in {"end", "sum", "user", "next"} \X {0} \X Nat \X Nat
  OBVIOUS
<1>2. \A k \in 1 .. n : <<name, 0, k, n>> \in Tokens(f)
  BY <1>1 DEF Tokens
<1> QED
  BY <1>2, FieldTyped

LEMMA HeaderFields ==
  ASSUME NEW f, HeaderSize(f) \in Nat
  PROVE  /\ f.skippable => /\ Field("skip", 0, SkipHeader) \in Seq(Tokens(f))
                           /\ Len(Field("skip", 0, SkipHeader)) = SkipHeader
         /\ ~f.skippable => /\ Field("frame", 0, HeaderSize(f)) \in Seq(Tokens(f))
                            /\ Len(Field("frame", 0, HeaderSize(f))) = HeaderSize(f)
<1>1. CASE f.skippable
  <2>1. \A k \in 1 .. SkipHeader :
          <<"skip", 0, k, SkipHeader>> \in {"skip"} \X {0} \X Nat \X {SkipHeader}
    BY Sizes
  <2>2. \A k \in 1 .. SkipHeader : <<"skip", 0, k, SkipHeader>> \in Tokens(f)
    BY <1>1, <2>1 DEF Tokens
  <2> QED
    BY <2>2, <1>1, FieldTyped, Sizes
<1>2. CASE ~f.skippable
  <2>1. \A k \in 1 .. HeaderSize(f) :
          <<"frame", 0, k, HeaderSize(f)>> \in {"frame"} \X {0} \X Nat \X {HeaderSize(f)}
    OBVIOUS
  <2>2. \A k \in 1 .. HeaderSize(f) : <<"frame", 0, k, HeaderSize(f)>> \in Tokens(f)
    BY <1>2, <2>1 DEF Tokens
  <2> QED
    BY <2>2, <1>2, FieldTyped
<1> QED
  BY <1>1, <1>2

LEMMA BlocksTyped ==
  ASSUME NEW f \in Frames
  PROVE  /\ f.fmt = "lz4" => LZ4Blocks(f) \in Seq(Tokens(f))
         /\ f.fmt # "lz4" => ZstdBlocks(f) \in Seq(Tokens(f))
<1>1. CASE f.fmt = "lz4"
  <2> DEFINE One(b) == Field("header", b, BHSize) \o Field("data", b, f.blocks[b].size)
                         \o (IF f.bcheck THEN Field("crc", b, BFSize) ELSE <<>>)
  <2>1. ASSUME NEW b \in DOMAIN f.blocks PROVE One(b) \in Seq(Tokens(f))
    <3>1. f.blocks[b].size \in Nat
      BY <1>1, LZ4FrameTyped
    <3>2. /\ Field("header", b, BHSize) \in Seq(Tokens(f))
          /\ Field("data", b, f.blocks[b].size) \in Seq(Tokens(f))
          /\ Field("crc", b, BFSize) \in Seq(Tokens(f))
      BY <3>1, BlockFields, Sizes
    <3>3. Field("header", b, BHSize) \o Field("data", b, f.blocks[b].size) \in Seq(Tokens(f))
      BY <3>2, JoinedTyped
    <3>4. (IF f.bcheck THEN Field("crc", b, BFSize) ELSE <<>>) \in Seq(Tokens(f))
      BY <3>2
    <3> QED
      BY <3>3, <3>4, JoinedTyped
  <2>2. [b \in DOMAIN f.blocks |-> One(b)] \in Seq(Seq(Tokens(f)))
    <3> HIDE DEF One
    <3> QED
      BY <2>1, <1>1, LZ4FrameTyped
  <2>3. FlattenSeq([b \in DOMAIN f.blocks |-> One(b)]) \in Seq(Tokens(f))
    <3> HIDE DEF One
    <3> QED
      BY <2>2, Flattened
  <2>4. Field("end", 0, BHSize) \in Seq(Tokens(f))
    BY OtherFields, Sizes
  <2>5. LZ4Blocks(f) = FlattenSeq([b \in DOMAIN f.blocks |-> One(b)]) \o Field("end", 0, BHSize)
    BY DEF LZ4Blocks
  <2> QED
    <3> HIDE DEF One
    <3> QED
      BY <2>3, <2>4, <2>5, JoinedTyped, <1>1
<1>2. CASE f.fmt # "lz4"
  <2> DEFINE One(b) == Field("header", b, BlockHeader) \o Field("data", b, f.blocks[b].size)
  <2>1. ASSUME NEW b \in DOMAIN f.blocks PROVE One(b) \in Seq(Tokens(f))
    <3>1. f.blocks[b].size \in Nat
      BY <1>2, ZstdFrameTyped
    <3>2. /\ Field("header", b, BlockHeader) \in Seq(Tokens(f))
          /\ Field("data", b, f.blocks[b].size) \in Seq(Tokens(f))
      BY <3>1, BlockFields, Sizes
    <3> QED
      BY <3>2, JoinedTyped
  <2>2. [b \in DOMAIN f.blocks |-> One(b)] \in Seq(Seq(Tokens(f)))
    <3> HIDE DEF One
    <3> QED
      BY <2>1, <1>2, ZstdFrameTyped
  <2>3. FlattenSeq([b \in DOMAIN f.blocks |-> One(b)]) \in Seq(Tokens(f))
    <3> HIDE DEF One
    <3> QED
      BY <2>2, Flattened
  <2>4. ZstdBlocks(f) = FlattenSeq([b \in DOMAIN f.blocks |-> One(b)])
    BY DEF ZstdBlocks
  <2> QED
    <3> HIDE DEF One
    <3> QED
      BY <2>3, <2>4, <1>2
<1> QED
  BY <1>1, <1>2

(* The length of the first field of a stream.                              *)
FirstField(f) == IF f.skippable THEN SkipHeader ELSE HeaderSize(f)

LEMMA StreamTyped ==
  ASSUME NEW f \in Frames
  PROVE  /\ Streams[f] \in Seq(Tokens(f)) /\ Len(Streams[f]) \in Nat
         /\ StreamLength(f) \in Nat /\ StreamLength(f) <= Len(Streams[f])
         /\ FirstField(f) \in Nat /\ 1 <= FirstField(f) /\ FirstField(f) <= Len(Streams[f])
         /\ Streams[f][1] = <<IF f.skippable THEN "skip" ELSE "frame", 0, 1, FirstField(f)>>
<1> DEFINE T == Tokens(f)
<1>1. /\ HeaderSize(f) \in Nat /\ HeaderSize(f) > 0 /\ f.size \in Nat
      /\ f.skippable \in BOOLEAN /\ f.ccheck \in BOOLEAN
  BY LZ4FrameTyped, ZstdFrameTyped, Sizes
<1> DEFINE name == IF f.skippable THEN "skip" ELSE "frame"
           head == Field(name, 0, FirstField(f))
           mid  == IF f.fmt = "lz4" THEN LZ4Blocks(f) ELSE ZstdBlocks(f)
           size == IF f.fmt = "lz4" THEN BFSize ELSE CheckSize
           sum  == IF ~f.ccheck THEN <<>> ELSE Field("sum", 0, size)
           user == Field("user", 0, f.size)
           next == Field("next", 0, MagicSize)
<1>2. head \in Seq(T) /\ Len(head) = FirstField(f) /\ FirstField(f) \in Nat /\ FirstField(f) >= 1
  BY <1>1, HeaderFields, Sizes DEF FirstField
<1>3. mid \in Seq(T)
  BY BlocksTyped
<1>4. Field("sum", 0, BFSize) \in Seq(T) /\ Field("sum", 0, CheckSize) \in Seq(T)
  BY OtherFields, Sizes
<1>5. sum \in Seq(T)
  BY <1>4
<1>6. user \in Seq(T) /\ next \in Seq(T) /\ Len(next) = MagicSize
  BY OtherFields, Sizes, <1>1
<1>7. Stream(f) = IF f.skippable THEN head \o user ELSE (head \o mid) \o sum
  BY DEF Stream, FirstField
<1>8. head[1] = <<name, 0, 1, FirstField(f)>>
  BY <1>2 DEF Field
<1> HIDE DEF head, mid, sum, user, next, name, T
<1>9. /\ Stream(f) \in Seq(T) /\ Len(head) <= Len(Stream(f)) /\ Len(Stream(f)) \in Nat
      /\ Stream(f)[1] = head[1]
  <2>1. CASE f.skippable
    BY <2>1, <1>2, <1>6, <1>7
  <2>2. CASE ~f.skippable
    <3>1. /\ head \o mid \in Seq(T) /\ Len(head \o mid) = Len(head) + Len(mid)
          /\ (head \o mid)[1] = head[1] /\ Len(mid) \in Nat
      BY <1>2, <1>3
    <3>2. /\ (head \o mid) \o sum \in Seq(T)
          /\ Len((head \o mid) \o sum) = Len(head) + Len(mid) + Len(sum)
          /\ ((head \o mid) \o sum)[1] = (head \o mid)[1] /\ Len(sum) \in Nat
      <4> DEFINE hm == head \o mid
      <4>1. hm \in Seq(T) /\ Len(hm) = Len(head) + Len(mid) /\ Len(hm) >= 1
        BY <3>1, <1>2
      <4> HIDE DEF hm
      <4>2. /\ hm \o sum \in Seq(T) /\ Len(hm \o sum) = Len(hm) + Len(sum)
            /\ (hm \o sum)[1] = hm[1] /\ Len(sum) \in Nat
        BY <4>1, <1>5
      <4> QED
        BY <4>1, <4>2 DEF hm
    <3> QED
      BY <2>2, <3>1, <3>2, <1>2, <1>7
  <2> QED
    BY <2>1, <2>2
<1>10. Streams[f] = Stream(f) \o next
  BY DEF Streams, next
<1>11. /\ Streams[f] \in Seq(T) /\ Len(Streams[f]) = Len(Stream(f)) + Len(next)
       /\ Streams[f][1] = Stream(f)[1]
  <2>1. Len(Stream(f)) >= 1
    BY <1>2, <1>9
  <2>2. Stream(f) \in Seq(T) /\ next \in Seq(T)
    BY <1>6, <1>9
  <2>3. Stream(f) \o next \in Seq(T) /\ Len(Stream(f) \o next) = Len(Stream(f)) + Len(next)
    BY <2>2, JoinedTyped
  <2>4. (Stream(f) \o next)[1] = Stream(f)[1]
    BY <2>1, <2>2, JoinedFirst
  <2> QED
    BY <2>3, <2>4, <1>10
<1> QED
  BY <1>2, <1>6, <1>8, <1>9, <1>11, Sizes DEF StreamLength, T, name

(* What the first byte of a field says.                                    *)
LEMMA TokenKinds ==
  ASSUME NEW f, NEW t \in Tokens(f)
  PROVE  /\ t[1] \in {"header", "data", "crc"} => t[2] \in DOMAIN f.blocks
         /\ t[1] = "skip" => f.skippable
         /\ t[1] = "frame" => ~f.skippable /\ t[4] = HeaderSize(f)
BY DEF Tokens

LEMMA BlockRead ==
  ASSUME NEW f, NEW bytes \in Seq(Tokens(f)), NEW name \in {"header", "data", "crc"},
         Reads(bytes, name)
  PROVE  bytes[1][2] \in DOMAIN f.blocks
<1>1. bytes # <<>> /\ bytes = Field(name, bytes[1][2], bytes[1][4])
  BY DEF Reads
<1>2. 1 \in DOMAIN bytes
  BY <1>1
<1>3. bytes[1][1] = name
  <2> DEFINE b == bytes[1][2]
             n == bytes[1][4]
  <2>1. bytes = [k \in 1 .. n |-> <<name, b, k, n>>]
    BY <1>1 DEF Field
  <2> HIDE DEF b, n
  <2>2. bytes[1] = <<name, b, 1, n>>
    BY <1>2, <2>1
  <2> QED
    BY <2>2
<1>4. bytes[1] \in Tokens(f)
  BY <1>2, Elements
<1> QED
  BY <1>3, <1>4, TokenKinds

-----------------------------------------------------------------------------
(* Both decoders have their own names for what they have in common.        *)

LEMMA LCopies ==
  /\ \A S : L!Min(S) = Min(S) /\ L!Max(S) = Max(S)
  /\ \A buf, from, n : L!Read(buf, from, n) = Read(buf, from, n)
  /\ \A n : L!Garbage(n) = Garbage(n)
  /\ \A from, n : L!Content(from, n) = Content(from, n)
  /\ \A name, b, n : L!Field(name, b, n) = Field(name, b, n)
  /\ \A buf, at, data : L!Write(buf, at, data) = Write(buf, at, data)
BY DEF L!Min, Min, L!Max, Max, L!Read, Read, L!Garbage, Garbage, L!Content, Content,
       L!Field, Field, L!Write, Write

LEMMA LStreams ==
  /\ L!Streams = Streams /\ L!SkipHeader = SkipHeader /\ L!maxFHSize = maxFHSize
  /\ \A f : L!HeaderSize(f) = HeaderSize(f) /\ L!Stream(f) = Stream(f)
BY DEF L!Streams, Streams, L!Stream, Stream, L!LZ4Blocks, LZ4Blocks, L!ZstdBlocks, ZstdBlocks,
       L!FlattenSeq, FlattenSeq, L!Field, Field, L!HeaderSize, HeaderSize,
       L!SkipHeader, SkipHeader, L!maxFHSize, maxFHSize

LEMMA LNames ==
  /\ \A bytes, name : L!Reads(bytes, name) <=> Reads(bytes, name)
  /\ \A buf, at, from, n : L!Move(buf, at, from, n) = Move(buf, at, from, n)
BY LCopies DEF L!Reads, Reads, L!Move, Move

LEMMA ZCopies ==
  /\ \A S : Z!Min(S) = Min(S) /\ Z!Max(S) = Max(S)
  /\ \A buf, from, n : Z!Read(buf, from, n) = Read(buf, from, n)
  /\ \A n : Z!Garbage(n) = Garbage(n)
  /\ \A from, n : Z!Content(from, n) = Content(from, n)
  /\ \A name, b, n : Z!Field(name, b, n) = Field(name, b, n)
  /\ \A buf, at, data : Z!Write(buf, at, data) = Write(buf, at, data)
BY DEF Z!Min, Min, Z!Max, Max, Z!Read, Read, Z!Garbage, Garbage, Z!Content, Content,
       Z!Field, Field, Z!Write, Write

LEMMA ZStreams ==
  /\ Z!Streams = Streams /\ Z!SkipHeader = SkipHeader /\ Z!maxFHSize = maxFHSize
  /\ \A f : Z!HeaderSize(f) = HeaderSize(f) /\ Z!Stream(f) = Stream(f)
BY DEF Z!Streams, Streams, Z!Stream, Stream, Z!LZ4Blocks, LZ4Blocks, Z!ZstdBlocks, ZstdBlocks,
       Z!FlattenSeq, FlattenSeq, Z!Field, Field, Z!HeaderSize, HeaderSize,
       Z!SkipHeader, SkipHeader, Z!maxFHSize, maxFHSize

LEMMA ZNames ==
  /\ \A bytes, name : Z!Reads(bytes, name) <=> Reads(bytes, name)
  /\ \A buf, at, from, n : Z!Move(buf, at, from, n) = Move(buf, at, from, n)
BY ZCopies DEF Z!Reads, Reads, Z!Move, Move

-----------------------------------------------------------------------------
(* The history of a linked frame.                                          *)

(* e is d but for the history.                                             *)
Kept(e, d) ==
  /\ DOMAIN e = DOMAIN d /\ e.dStage = d.dStage
  /\ e.frameRemainingSize = d.frameRemainingSize /\ e.tmpInTarget = d.tmpInTarget
  /\ e.maxBufferSize = d.maxBufferSize /\ e.tmpInCap = d.tmpInCap /\ e.tmpIn = d.tmpIn
  /\ e.tmpOutSize = d.tmpOutSize /\ e.tmpOutStart = d.tmpOutStart

(* The history e fits into the buffer, and so does the one it was.         *)
HistoryOK(e, d) ==
  /\ Len(e.tmpOutBuffer) = Len(d.tmpOutBuffer)
  /\ e.tmpOut \in Nat /\ e.dictOff \in Nat /\ e.dictSize \in Nat
  /\ e.dict \in {"NULL", "tmp", "dst", "stale"}
  /\ e.dict = "tmp" => e.dictOff = 0 /\ e.dictSize <= d.maxBufferSize

LEMMA DictGrown ==
  ASSUME NEW d, LShape(d), NEW n \in Nat, NEW e, e = [d EXCEPT !.dictSize = @ + n]
  PROVE  /\ Kept(e, d) /\ e.tmpOut = d.tmpOut /\ e.dict = d.dict /\ e.dictOff = d.dictOff
         /\ e.tmpOutBuffer = d.tmpOutBuffer /\ e.dictSize = d.dictSize + n
BY DEF LShape, Kept

(* LZ4F_updateDict(), for n bytes that were written directly, or flushed   *)
(* from tmpOutBuffer (w).                                                  *)
LEMMA UpdateDictOK ==
  ASSUME NEW d0, LShape(d0), Len(d0.tmpOutBuffer) = d0.maxBufferSize,
         2 * KB64 <= d0.maxBufferSize,
         d0.dict = "tmp" => d0.dictOff = 0 /\ d0.dictSize <= d0.maxBufferSize,
         NEW dst, NEW at \in Nat, NEW n \in Nat, NEW w \in BOOLEAN,
         w => /\ d0.tmpOut + d0.tmpOutStart + n <= d0.maxBufferSize
              /\ d0.dict = "tmp" => d0.dictSize = d0.tmpOut + d0.tmpOutStart,
         NEW e, e = L!UpdateDict(d0, dst, at, n, w)
  PROVE  /\ Kept(e, d0) /\ HistoryOK(e, d0) /\ e.tmpOut = d0.tmpOut
         /\ w /\ e.dict = "tmp" => e.dictSize = d0.tmpOut + d0.tmpOutStart + n
<1> DEFINE d == IF d0.dictSize = 0 THEN [d0 EXCEPT !.dict = "dst", !.dictOff = at] ELSE d0
           mem == L!DictMemory(d, dst)
           tmp == d.tmpOutBuffer
           new == L!Read(dst, at, n)
           InTmp(buf, z) ==
             [d EXCEPT !.tmpOutBuffer = buf, !.dict = "tmp", !.dictOff = 0, !.dictSize = z]
           copy == IF d.tmpOutSize > KB64 THEN 0 ELSE L!Min({KB64 - d.tmpOutSize, d.tmpOut})
           keep == L!Min({KB64 - n, d.dictSize})
           from == L!DictEnd(d) - d.tmpOutStart - copy
           old == L!DictEnd(d) - keep
<1>1. /\ LShape(d) /\ Kept(d, d0) /\ d.tmpOut = d0.tmpOut /\ d.dictSize = d0.dictSize
      /\ d.tmpOutBuffer = d0.tmpOutBuffer
      /\ d.dict = "tmp" => d0.dict = "tmp" /\ d.dictOff = d0.dictOff
  BY DEF LShape, Kept, HeadStages, BlockStages
<1>2. e = IF d.dict = "dst" /\ L!DictEnd(d) = at
          THEN [d EXCEPT !.dictSize = @ + n]
          ELSE IF at + n >= KB64
          THEN [d EXCEPT !.dict = "dst", !.dictOff = 0, !.dictSize = at + n]
          ELSE IF w /\ d.dict = "tmp"
          THEN [d EXCEPT !.dictSize = @ + n]
          ELSE IF w
          THEN InTmp(L!Write(tmp, d.tmpOut - copy, L!Read(mem, from, copy)),
                     d.tmpOut + d.tmpOutStart + n)
          ELSE IF d.dict = "tmp"
          THEN IF d.dictSize + n > d.maxBufferSize
               THEN InTmp(L!Write(L!Move(tmp, 0, d.dictSize - (KB64 - n), KB64 - n), KB64 - n, new),
                          KB64 - n + n)
               ELSE InTmp(L!Write(tmp, d.dictSize, new), d.dictSize + n)
          ELSE InTmp(L!Write(L!Write(tmp, 0, L!Read(mem, old, keep)), keep, new), keep + n)
  BY DEF L!UpdateDict
<1>3. /\ d.dictSize \in Nat /\ d.dictOff \in Nat /\ d.tmpOut \in Nat /\ d.tmpOutStart \in Nat
      /\ d.tmpOutSize \in Nat /\ d.maxBufferSize \in Nat /\ d.maxBufferSize = d0.maxBufferSize
      /\ d.dict \in {"NULL", "tmp", "dst", "stale"} /\ Len(tmp) = d.maxBufferSize
      /\ 2 * KB64 <= d.maxBufferSize /\ KB64 \in Nat /\ d.tmpOutStart = d0.tmpOutStart
      /\ d.dict = "tmp" => d.dictOff = 0 /\ d.dictSize <= d.maxBufferSize
  BY <1>1, Sizes DEF LShape, Kept
<1>4. new = L!Read(dst, at, n) /\ Len(new) = n
  BY Copies, LCopies
<1> HIDE DEF d, mem, new, from, old
<1>5. copy \in Nat /\ copy <= d.tmpOut
  <2>1. L!Min({KB64 - d.tmpOutSize, d.tmpOut})
          = IF KB64 - d.tmpOutSize <= d.tmpOut THEN KB64 - d.tmpOutSize ELSE d.tmpOut
    BY <1>3, MinOfTwo, LCopies
  <2> QED
    BY <2>1, <1>3
<1>6. SUFFICES /\ Kept(e, d) /\ e.tmpOut = d.tmpOut /\ HistoryOK(e, d)
               /\ w /\ e.dict = "tmp" => e.dictSize = d.tmpOut + d.tmpOutStart + n
  BY <1>1, <1>3 DEF Kept, HistoryOK
<1>7. CASE d.dict = "dst" /\ L!DictEnd(d) = at
  <2>1. e = [d EXCEPT !.dictSize = @ + n]
    BY <1>2, <1>7
  <2>2. /\ Kept(e, d) /\ e.tmpOut = d.tmpOut /\ e.dict = d.dict /\ e.dictOff = d.dictOff
        /\ e.tmpOutBuffer = d.tmpOutBuffer /\ e.dictSize = d.dictSize + n
    BY <2>1, <1>1, DictGrown
  <2> QED
    BY <2>2, <1>3, <1>7 DEF HistoryOK
<1>8. CASE ~(d.dict = "dst" /\ L!DictEnd(d) = at) /\ at + n >= KB64
  <2>1. e = [d EXCEPT !.dict = "dst", !.dictOff = 0, !.dictSize = at + n]
    BY <1>2, <1>8
  <2>2. /\ Kept(e, d) /\ e.tmpOut = d.tmpOut /\ e.dict = "dst" /\ e.dictOff = 0
        /\ e.tmpOutBuffer = d.tmpOutBuffer /\ e.dictSize = at + n
    BY <2>1, <1>1 DEF LShape, Kept
  <2> QED
    BY <2>2, <1>3, <1>8 DEF HistoryOK
<1>9. CASE ~(d.dict = "dst" /\ L!DictEnd(d) = at) /\ ~(at + n >= KB64) /\ w /\ d.dict = "tmp"
  <2>1. e = [d EXCEPT !.dictSize = @ + n]
    BY <1>2, <1>9
  <2>2. d.dictSize = d.tmpOut + d.tmpOutStart /\ d.dictSize + n <= d.maxBufferSize
    BY <1>1, <1>3, <1>9
  <2>3. /\ Kept(e, d) /\ e.tmpOut = d.tmpOut /\ e.dict = d.dict /\ e.dictOff = d.dictOff
        /\ e.tmpOutBuffer = d.tmpOutBuffer /\ e.dictSize = d.dictSize + n
    BY <2>1, <1>1, DictGrown
  <2> QED
    BY <2>2, <2>3, <1>3, <1>9 DEF HistoryOK
<1>10. CASE ~(d.dict = "dst" /\ L!DictEnd(d) = at) /\ ~(at + n >= KB64) /\ w /\ d.dict # "tmp"
  <2> DEFINE b == L!Write(tmp, d.tmpOut - copy, L!Read(mem, from, copy))
  <2> HIDE DEF copy
  <2>1. e = InTmp(b, d.tmpOut + d.tmpOutStart + n)
    BY <1>2, <1>10
  <2>2. Len(L!Read(mem, from, copy)) = copy
    BY <1>5, Copies, LCopies
  <2>3. d.tmpOut + d.tmpOutStart + n <= d.maxBufferSize
    BY <1>1, <1>3, <1>10
  <2>4. Len(b) = Len(tmp)
    <3> DEFINE start == d.tmpOut - copy
               data == L!Read(mem, from, copy)
    <3>1. start \in Nat /\ start + copy <= Len(tmp)
      <4> DEFINE a == d.tmpOut
                 b0 == d.tmpOutStart
                 k == Len(tmp)
      <4>1. /\ a \in Nat /\ b0 \in Nat /\ k \in Nat /\ copy \in Nat /\ copy <= a
            /\ a + b0 + n <= k /\ start = a - copy
        BY <2>3, <1>3, <1>5
      <4> HIDE DEF a, b0, k, start
      <4>2. start \in Nat /\ start + copy <= k
        BY <4>1
      <4> QED
        BY <4>2 DEF k
    <3>2. Len(data) \in Nat /\ start + Len(data) <= Len(tmp) /\ Len(tmp) \in Nat
      BY <3>1, <2>2, <1>3, <1>5
    <3> HIDE DEF start, data, tmp
    <3>3. Len(Write(tmp, start, data)) = Len(tmp)
      BY <3>1, <3>2, Written
    <3> QED
      BY <3>3, LCopies DEF start, data
  <2> HIDE DEF b
  <2>5. /\ Kept(e, d) /\ e.tmpOut = d.tmpOut /\ e.dict = "tmp" /\ e.dictOff = 0
        /\ e.tmpOutBuffer = b /\ e.dictSize = d.tmpOut + d.tmpOutStart + n
    BY <2>1, <1>1 DEF LShape, Kept
  <2> QED
    BY <2>5, <2>3, <2>4, <1>3 DEF HistoryOK
<1>11. CASE /\ ~(d.dict = "dst" /\ L!DictEnd(d) = at) /\ ~(at + n >= KB64) /\ ~w /\ d.dict = "tmp"
            /\ d.dictSize + n > d.maxBufferSize
  <2> DEFINE m == L!Move(tmp, 0, d.dictSize - (KB64 - n), KB64 - n)
             b == L!Write(m, KB64 - n, new)
  <2>1. e = InTmp(b, KB64 - n + n)
    BY <1>2, <1>11
  <2>2. KB64 - n \in Nat /\ KB64 - n + n = KB64
    BY <1>3, <1>11
  <2>3. Len(m) = Len(tmp)
    BY <2>2, <1>3, Moved, LNames
  <2> HIDE DEF m
  <2>4. Len(b) = Len(tmp)
    BY <2>2, <2>3, <1>3, <1>4, Written, LCopies
  <2> HIDE DEF b
  <2>5. /\ Kept(e, d) /\ e.tmpOut = d.tmpOut /\ e.dict = "tmp" /\ e.dictOff = 0
        /\ e.tmpOutBuffer = b /\ e.dictSize = KB64 - n + n
    BY <2>1, <1>1 DEF LShape, Kept
  <2> QED
    BY <2>5, <2>2, <2>4, <1>3, <1>11 DEF HistoryOK
<1>12. CASE /\ ~(d.dict = "dst" /\ L!DictEnd(d) = at) /\ ~(at + n >= KB64) /\ ~w /\ d.dict = "tmp"
            /\ ~(d.dictSize + n > d.maxBufferSize)
  <2> DEFINE b == L!Write(tmp, d.dictSize, new)
  <2>1. e = InTmp(b, d.dictSize + n)
    BY <1>2, <1>12
  <2>2. Len(b) = Len(tmp)
    BY <1>3, <1>4, <1>12, Written, LCopies
  <2> HIDE DEF b
  <2>3. /\ Kept(e, d) /\ e.tmpOut = d.tmpOut /\ e.dict = "tmp" /\ e.dictOff = 0
        /\ e.tmpOutBuffer = b /\ e.dictSize = d.dictSize + n
    BY <2>1, <1>1 DEF LShape, Kept
  <2> QED
    BY <2>3, <2>2, <1>3, <1>12 DEF HistoryOK
<1>13. CASE ~(d.dict = "dst" /\ L!DictEnd(d) = at) /\ ~(at + n >= KB64) /\ ~w /\ d.dict # "tmp"
  <2> DEFINE m == L!Write(tmp, 0, L!Read(mem, old, keep))
             b == L!Write(m, keep, new)
  <2>1. e = InTmp(b, keep + n)
    BY <1>2, <1>13
  <2>2. keep \in Nat /\ keep + n <= KB64
    BY <1>3, <1>13, MinOfTwo, LCopies
  <2> HIDE DEF keep
  <2>3. Len(L!Read(mem, old, keep)) = keep
    BY <2>2, Copies, LCopies
  <2>4. Len(m) = Len(tmp)
    BY <2>2, <2>3, <1>3, Written, LCopies
  <2> HIDE DEF m
  <2>5. Len(b) = Len(tmp)
    BY <2>2, <2>4, <1>3, <1>4, Written, LCopies
  <2> HIDE DEF b
  <2>6. /\ Kept(e, d) /\ e.tmpOut = d.tmpOut /\ e.dict = "tmp" /\ e.dictOff = 0
        /\ e.tmpOutBuffer = b /\ e.dictSize = keep + n
    BY <2>1, <1>1 DEF LShape, Kept
  <2> QED
    BY <2>6, <2>2, <2>5, <1>3, <1>13 DEF HistoryOK
<1> QED
  BY <1>7, <1>8, <1>9, <1>10, <1>11, <1>12, <1>13

(* The buffers of a context whose stage is one of a block.                 *)
LEMMA BlockBuffers ==
  ASSUME NEW f \in Frames, f.fmt = "lz4", NEW d, LContext(f, d), d.dStage \in BlockStages
  PROVE  /\ d.maxBufferSize \in Nat /\ Len(d.tmpOutBuffer) = d.maxBufferSize
         /\ Needed(f) \in Nat /\ Needed(f) <= d.maxBufferSize /\ f.maxBlockSize <= Needed(f)
         /\ f.linked => 2 * KB64 + f.maxBlockSize <= d.maxBufferSize
         /\ f.maxBlockSize + BFSize <= d.tmpInCap /\ d.tmpInCap \in Nat
<1>1. f.maxBlockSize \in Nat /\ f.maxBlockSize > 0 /\ f.linked \in BOOLEAN
  BY LZ4FrameTyped
<1>2. /\ d.maxBufferSize \in Nat /\ Needed(f) <= d.maxBufferSize /\ d.tmpInCap \in Nat
      /\ f.maxBlockSize + BFSize <= d.tmpInCap
  BY DEF LContext, LShape, LDict
<1>3. d.maxBufferSize # 0 => Len(d.tmpOutBuffer) = d.maxBufferSize
  BY DEF LContext, LBuffers
<1> QED
  BY <1>1, <1>2, <1>3, Sizes DEF Needed

LEMMA KeptContext ==
  ASSUME NEW f \in Frames, f.fmt = "lz4", f.linked, NEW d, LContext(f, d),
         d.dStage \in BlockStages, NEW e, Kept(e, d), HistoryOK(e, d),
         d.dStage = "flushOut" =>
           /\ e.tmpOut = d.tmpOut
           /\ e.dict = "tmp" => e.dictSize = d.tmpOut + d.tmpOutStart
  PROVE  LContext(f, e)
<1>1. LShape(e)
  BY DEF LContext, LShape, Kept, HistoryOK
<1>2. LBuffers(e)
  BY DEF LContext, LBuffers, Kept, HistoryOK
<1>3. LDict(f, e)
  BY DEF LContext, LDict, Kept, HistoryOK, HeadStages, BlockStages
<1>4. LFlush(f, e)
  BY DEF LContext, LFlush, Kept, HistoryOK
<1>5. LInput(f, e)
  BY DEF LContext, LInput, Kept
<1> QED
  BY <1>1, <1>2, <1>3, <1>4, <1>5 DEF LContext

(* The end of LZ4F_decompress().                                           *)
LEMMA PreserveOK ==
  ASSUME frame \in Frames, frame.fmt = "lz4", NEW d, LContext(frame, d), NEW dst,
         NEW e, e = L!PreserveHistory(d, dst)
  PROVE  LContext(frame, e) /\ e.dStage = d.dStage
<1> DEFINE mem == L!DictMemory(d, dst)
           copy == IF d.tmpOutSize > KB64 THEN 0 ELSE L!Min({KB64 - d.tmpOutSize, d.tmpOut})
           from == L!DictEnd(d) - d.tmpOutStart - copy
           size == L!Min({d.dictSize, KB64})
           old == L!DictEnd(d) - size
           mine == frame.linked /\ d.dict \notin {"tmp", "NULL"} /\ L!InBlocks(d)
<1>1. e = IF ~mine THEN d
          ELSE IF d.dStage = "flushOut"
          THEN [d EXCEPT !.tmpOutBuffer = L!Write(@, d.tmpOut - copy, L!Read(mem, from, copy)),
                         !.dict = "tmp", !.dictOff = 0, !.dictSize = d.tmpOut + d.tmpOutStart]
          ELSE [d EXCEPT !.tmpOutBuffer = L!Write(@, 0, L!Read(mem, old, size)),
                         !.dict = "tmp", !.dictOff = 0, !.dictSize = size, !.tmpOut = size]
  BY DEF L!PreserveHistory
<1>2. CASE ~mine
  BY <1>1, <1>2
<1>3. CASE mine
  <2>1. frame.linked /\ d.dStage \in BlockStages
    <3>1. d.dStage # "init"
      BY <1>3 DEF LContext, LDict, HeadStages
    <3> QED
      BY <1>3, <3>1 DEF L!InBlocks, BlockStages
  <2>2. /\ d.maxBufferSize \in Nat /\ Len(d.tmpOutBuffer) = d.maxBufferSize
        /\ 2 * KB64 + frame.maxBlockSize <= d.maxBufferSize /\ frame.maxBlockSize \in Nat
    BY <2>1, BlockBuffers, LZ4FrameTyped
  <2>3. LShape(d) /\ LFlush(frame, d)
    BY DEF LContext
  <2>4. /\ d.tmpOut \in Nat /\ d.tmpOutSize \in Nat /\ d.tmpOutStart \in Nat
        /\ d.dictSize \in Nat /\ KB64 \in Nat
    BY <2>3, Sizes DEF LShape
  <2> HIDE DEF mem, from, old, mine
  <2>5. CASE d.dStage = "flushOut"
    <3> DEFINE start == d.tmpOut - copy
               data == L!Read(mem, from, copy)
               b == L!Write(d.tmpOutBuffer, start, data)
    <3>1. copy \in Nat /\ copy <= d.tmpOut
      <4>1. L!Min({KB64 - d.tmpOutSize, d.tmpOut})
              = IF KB64 - d.tmpOutSize <= d.tmpOut THEN KB64 - d.tmpOutSize ELSE d.tmpOut
        BY <2>4, MinOfTwo, LCopies
      <4> QED
        BY <4>1, <2>4
    <3>2. d.tmpOut + d.tmpOutStart <= d.maxBufferSize
      BY <2>2, <2>3, <2>4, <2>5 DEF LFlush
    <3>3. e = [d EXCEPT !.tmpOutBuffer = b, !.dict = "tmp", !.dictOff = 0,
                        !.dictSize = d.tmpOut + d.tmpOutStart]
      BY <1>1, <1>3, <2>5
    <3> HIDE DEF copy
    <3>4. Len(data) = copy
      BY <3>1, Copies, LCopies
    <3>5. start \in Nat /\ start + Len(data) <= Len(d.tmpOutBuffer) /\ Len(data) \in Nat
      BY <3>1, <3>2, <3>4, <2>2, <2>4
    <3> HIDE DEF start, data
    <3>6. Len(b) = Len(d.tmpOutBuffer)
      BY <3>5, <2>2, Written, LCopies
    <3> HIDE DEF b
    <3>7. /\ Kept(e, d) /\ e.tmpOutBuffer = b /\ e.dict = "tmp" /\ e.dictOff = 0
          /\ e.dictSize = d.tmpOut + d.tmpOutStart /\ e.tmpOut = d.tmpOut
      BY <3>3, <2>3 DEF LShape, Kept
    <3>8. HistoryOK(e, d)
      BY <3>2, <3>6, <3>7, <2>4 DEF HistoryOK
    <3> QED
      BY <3>7, <3>8, <2>1, KeptContext DEF Kept
  <2>6. CASE d.dStage # "flushOut"
    <3> DEFINE data == L!Read(mem, old, size)
               b == L!Write(d.tmpOutBuffer, 0, data)
    <3>1. size \in Nat /\ size <= KB64
      BY <2>4, MinOfTwo, LCopies
    <3>2. e = [d EXCEPT !.tmpOutBuffer = b, !.dict = "tmp", !.dictOff = 0,
                        !.dictSize = size, !.tmpOut = size]
      BY <1>1, <1>3, <2>6
    <3> HIDE DEF size
    <3>3. Len(data) = size
      BY <3>1, Copies, LCopies
    <3> HIDE DEF data
    <3>4. Len(b) = Len(d.tmpOutBuffer)
      BY <3>1, <3>3, <2>2, <2>4, Written, LCopies
    <3> HIDE DEF b
    <3>5. /\ Kept(e, d) /\ e.tmpOutBuffer = b /\ e.dict = "tmp" /\ e.dictOff = 0
          /\ e.dictSize = size /\ e.tmpOut = size
      BY <3>2, <2>3 DEF LShape, Kept
    <3>6. HistoryOK(e, d)
      BY <3>1, <3>4, <3>5, <2>2, <2>4 DEF HistoryOK
    <3> QED
      BY <3>5, <3>6, <2>1, <2>6, KeptContext DEF Kept
  <2> QED
    BY <2>5, <2>6
<1> QED
  BY <1>2, <1>3

-----------------------------------------------------------------------------
(* How a stage of LZ4F_decompress() ends.                                  *)

LEMMA IdleOK ==
  ASSUME NEW f, NEW known
  PROVE  CallOK(f, known, NoCall)
BY DEF CallOK, NoCall

LEMMA LContinues ==
  ASSUME LInv, call.busy, NEW d, NEW c, L!Continue(d, c),
         LContext(frame, d), CallOK(frame, fed, c)
  PROVE  LInv'
<1>1. dctx' = d /\ call' = c /\ frame' = frame /\ fed' = fed /\ res' = res
  BY DEF L!Continue
<1>2. res # 0
  BY DEF LInv
<1> QED
  BY <1>1, <1>2 DEF LInv

LEMMA LFails ==
  ASSUME LInv, NEW d, L!Fail(d), LContext(frame, d)
  PROVE  LInv'
<1>1. dctx' = d /\ call' = NoCall /\ frame' = frame /\ fed' = fed /\ res' = -1
  BY DEF L!Fail, L!NoCall, NoCall
<1>2. CallOK(frame, fed, NoCall)
  BY IdleOK
<1>3. -1 \in -1 .. U64
  BY Sizes
<1> QED
  BY <1>1, <1>2, <1>3 DEF LInv

LEMMA LSuspends ==
  ASSUME LInv, NEW d, NEW c, NEW hint \in 0 .. U64, L!Suspend(d, c, hint),
         LContext(frame, d), CallOK(frame, fed, c), c.busy,
         hint = 0 => d.dStage = "getFrameHeader"
  PROVE  LInv'
<1>1. /\ dctx' = L!PreserveHistory(d, c.dst) /\ call' = NoCall /\ frame' = frame
      /\ fed' = c.src /\ res' = hint
  BY DEF L!Suspend, L!NoCall, NoCall
<1>2. LContext(frame, dctx') /\ dctx'.dStage = d.dStage
  BY <1>1, PreserveOK DEF LInv
<1>3. CallOK(frame, c.src, NoCall) /\ ~NoCall.busy
  BY IdleOK DEF NoCall
<1>4. c.src \in 0 .. Len(Streams[frame])
  <2>1. Len(Streams[frame]) \in Nat
    BY StreamTyped DEF LInv
  <2> QED
    BY <2>1 DEF CallOK
<1>5. hint \in -1 .. U64
  BY Sizes
<1> QED
  BY <1>1, <1>2, <1>3, <1>4, <1>5 DEF LInv

(* What is taken from the input of a call.                                 *)
LEMMA LTaken ==
  ASSUME LInv, call.busy, NEW n \in Nat, n <= L!Input
  PROVE  /\ L!Take(n) \in Seq(Tokens(frame)) /\ Len(L!Take(n)) = n
         /\ CallOK(frame, fed, L!Skip(n)) /\ L!Skip(n).busy
         /\ L!Skip(n).dst = call.dst /\ L!Skip(n).room = call.room
<1>1. /\ call.src \in Nat /\ call.end \in Nat /\ call.src <= call.end
      /\ call.end <= Len(Streams[frame]) /\ n <= call.end - call.src
  BY DEF LInv, CallOK, L!Input
<1>2. Streams[frame] \in Seq(Tokens(frame)) /\ Len(Streams[frame]) \in Nat
  BY StreamTyped DEF LInv
<1>3. L!Take(n) = SubSeq(Streams[frame], call.src + 1, call.src + n)
  BY LStreams DEF L!Take
<1>4. call.src + n <= Len(Streams[frame])
  BY <1>1, <1>2
<1>5. L!Take(n) \in Seq(Tokens(frame)) /\ Len(L!Take(n)) = n
  <2> DEFINE s == Streams[frame]
             T == Tokens(frame)
             i == call.src
  <2>1. s \in Seq(T) /\ i \in Nat /\ i + n <= Len(s)
    BY <1>1, <1>2, <1>4
  <2>2. L!Take(n) = SubSeq(s, i + 1, i + n)
    BY <1>3
  <2> HIDE DEF s, T, i
  <2>3. SubSeq(s, i + 1, i + n) \in Seq(T) /\ Len(SubSeq(s, i + 1, i + n)) = n
    BY <2>1, Sliced
  <2> QED
    BY <2>2, <2>3 DEF T
<1>6. CallOK(frame, fed, call) /\ fed \in Nat
  BY <1>2 DEF LInv
<1>7. CallOK(frame, fed, L!Skip(n)) /\ L!Skip(n).busy
      /\ L!Skip(n).dst = call.dst /\ L!Skip(n).room = call.room
  <2> DEFINE c == L!Skip(n)
  <2>1. /\ DOMAIN c = DOMAIN call /\ c.busy = call.busy /\ c.src = call.src + n
        /\ c.end = call.end /\ c.dst = call.dst /\ c.room = call.room /\ c.null = call.null
    BY <1>6 DEF CallOK, L!Skip
  <2> HIDE DEF c
  <2>2. CallOK(frame, fed, c)
    BY <2>1, <1>1, <1>2, <1>6 DEF CallOK
  <2> QED
    BY <2>1, <2>2 DEF c
<1> QED
  BY <1>5, <1>7

LEMMA LInputNat ==
  ASSUME LInv, call.busy
  PROVE  L!Input \in Nat
BY DEF LInv, CallOK, L!Input

(* Bytes are added to the ones in tmpIn.                                   *)
LEMMA LStored ==
  ASSUME LInv, call.busy, NEW want \in Nat, Len(dctx.tmpIn) <= want
  PROVE  /\ L!Missing(want) \in Nat /\ L!Missing(want) <= L!Input
         /\ IsSeq(L!Stored(want)) /\ Len(L!Stored(want)) \in Nat /\ Len(L!Stored(want)) <= want
         /\ dctx.tmpIn \in Seq(Tokens(frame)) => L!Stored(want) \in Seq(Tokens(frame))
<1>1. IsSeq(dctx.tmpIn) /\ Len(dctx.tmpIn) \in Nat
  BY DEF LInv, LContext, LShape, IsSeq
<1>2. L!Input \in Nat
  BY LInputNat
<1> DEFINE m == L!Missing(want)
<1>3. m \in Nat /\ m <= L!Input /\ Len(dctx.tmpIn) + m <= want
  BY <1>1, <1>2, MinOfTwo, LCopies DEF L!Missing
<1> HIDE DEF m
<1>4. L!Take(m) \in Seq(Tokens(frame)) /\ Len(L!Take(m)) = m
  BY <1>3, LTaken
<1>5. IsSeq(L!Take(m))
  BY <1>4, SeqIsSeq
<1>6. L!Stored(want) = dctx.tmpIn \o L!Take(m)
  BY DEF L!Stored, m
<1>7. IsSeq(L!Stored(want)) /\ Len(L!Stored(want)) = Len(dctx.tmpIn) + m
  BY <1>1, <1>4, <1>5, <1>6, Joined
<1>8. dctx.tmpIn \in Seq(Tokens(frame)) => L!Stored(want) \in Seq(Tokens(frame))
  BY <1>4, <1>6, JoinedTyped
<1> QED
  BY <1>1, <1>3, <1>7, <1>8 DEF m

-----------------------------------------------------------------------------
(* A stage that leaves the buffers alone.                                  *)

SameMemory(e, d) ==
  /\ DOMAIN e = DOMAIN d /\ e.maxBufferSize = d.maxBufferSize /\ e.tmpInCap = d.tmpInCap
  /\ e.tmpOutBuffer = d.tmpOutBuffer /\ e.tmpOut = d.tmpOut /\ e.tmpOutSize = d.tmpOutSize
  /\ e.tmpOutStart = d.tmpOutStart
  /\ e.dict = d.dict /\ e.dictOff = d.dictOff /\ e.dictSize = d.dictSize

LEMMA NewInput ==
  ASSUME NEW f, NEW d, LContext(f, d), NEW e, SameMemory(e, d),
         \/ d.dStage \in HeadStages /\ e.dStage \in HeadStages
         \/ d.dStage \in BlockStages /\ e.dStage \in BlockStages \ {"flushOut"},
         e.frameRemainingSize \in 0 .. U64 - 1, e.tmpInTarget \in Nat, IsSeq(e.tmpIn),
         LInput(f, e)
  PROVE  LContext(f, e)
<1>1. LShape(e)
  BY DEF LContext, LShape, SameMemory
<1>2. LBuffers(e)
  BY DEF LContext, LBuffers, SameMemory
<1>3. LDict(f, e)
  BY DEF LContext, LDict, SameMemory, HeadStages, BlockStages
<1>4. LFlush(f, e)
  BY DEF LFlush, HeadStages
<1> QED
  BY <1>1, <1>2, <1>3, <1>4 DEF LContext

LEMMA LTyped ==
  ASSUME LInv
  PROVE  /\ frame \in Frames /\ frame.fmt = "lz4" /\ LContext(frame, dctx) /\ LShape(dctx)
         /\ dctx.frameRemainingSize \in 0 .. U64 - 1 /\ dctx.tmpInTarget \in Nat
         /\ IsSeq(dctx.tmpIn) /\ Len(dctx.tmpIn) \in Nat
         /\ CallOK(frame, fed, call) /\ fed \in Nat /\ fed <= Len(Streams[frame])
<1>1. Len(Streams[frame]) \in Nat
  BY StreamTyped DEF LInv
<1> QED
  BY <1>1 DEF LInv, LContext, LShape, IsSeq

-----------------------------------------------------------------------------
(* The frame header.                                                       *)

LEMMA DecodeHeaderOK ==
  ASSUME LInv, dctx.dStage \in {"getFrameHeader", "storeFrameHeader"},
         NEW bytes \in Seq(Tokens(frame)), NEW stored \in BOOLEAN,
         stored /\ frame.skippable => Len(bytes) <= SkipHeader,
         NEW h, h = L!DecodeHeader(dctx, bytes, stored), h.ok
  PROVE  LContext(frame, h.d) /\ h.used \in Nat /\ h.used <= Len(bytes)
<1> DEFINE t == bytes[1]
           n == bytes[1][4]
           eSkip == [dctx EXCEPT !.tmpIn = bytes, !.tmpInTarget = SkipHeader,
                                 !.dStage = "storeSFrameSize"]
           eSize == [dctx EXCEPT !.dStage = "getSFrameSize"]
           eMore == [dctx EXCEPT !.tmpIn = bytes, !.tmpInTarget = n, !.dStage = "storeFrameHeader"]
           eInit == [dctx EXCEPT !.dStage = "init",
                       !.frameRemainingSize = IF frame.declared > 0 THEN frame.declared ELSE @]
           Ok(e, k) == [ok |-> TRUE, d |-> e, used |-> k]
           Bad == [ok |-> FALSE, d |-> dctx, used |-> 0]
<1>1. h = IF Len(bytes) < minFHSize THEN Bad
          ELSE IF t = <<"skip", 0, 1, SkipHeader>>
          THEN IF stored THEN Ok(eSkip, Len(bytes)) ELSE Ok(eSize, MagicSize)
          ELSE IF t # <<"frame", 0, 1, n>> \/ frame.header = "flags" THEN Bad
          ELSE IF Len(bytes) < n THEN Ok(eMore, Len(bytes))
          ELSE IF frame.header = "checksum" THEN Bad
          ELSE Ok(eInit, n)
  BY LStreams DEF L!DecodeHeader, L!HeaderError, L!HeaderRead
<1>2. /\ LContext(frame, dctx) /\ LShape(dctx) /\ frame \in Frames /\ frame.fmt = "lz4"
      /\ dctx.frameRemainingSize \in 0 .. U64 - 1 /\ dctx.tmpInTarget \in Nat
      /\ IsSeq(dctx.tmpIn)
  BY LTyped
<1>3. Len(bytes) \in Nat /\ IsSeq(bytes)
  BY SeqIsSeq
<1>4. dctx.dStage \in HeadStages
  BY DEF HeadStages
<1>5. /\ HeaderSize(frame) \in Nat /\ HeaderSize(frame) <= maxFHSize
      /\ frame.declared \in 0 .. U64 - 1 /\ frame.skippable \in BOOLEAN
  BY <1>2, LZ4FrameTyped
<1>6. Len(bytes) >= minFHSize
  <2> SUFFICES ASSUME Len(bytes) < minFHSize PROVE FALSE
    BY <1>3, Sizes
  <2>1. h = Bad
    BY <1>1
  <2> QED
    BY <2>1
<1>7. t \in Tokens(frame)
  <2>1. 1 \in DOMAIN bytes
    BY <1>3, <1>6, Sizes
  <2> QED
    BY <2>1, Elements
<1>8. t[1] = "skip" => frame.skippable
  BY <1>7, TokenKinds
<1>9. t[1] = "frame" => ~frame.skippable /\ n = HeaderSize(frame)
  BY <1>7, TokenKinds
<1> HIDE DEF t, n
<1>10. CASE t = <<"skip", 0, 1, SkipHeader>> /\ stored
  <2>1. h.d = eSkip /\ h.used = Len(bytes)
    BY <1>1, <1>3, <1>6, <1>10, Sizes
  <2>2. frame.skippable /\ Len(bytes) <= SkipHeader
    BY <1>8, <1>10
  <2>3. SameMemory(eSkip, dctx) /\ eSkip.dStage = "storeSFrameSize" /\ eSkip.tmpIn = bytes
        /\ eSkip.tmpInTarget = SkipHeader /\ eSkip.frameRemainingSize = dctx.frameRemainingSize
    BY <1>2 DEF LShape, SameMemory
  <2> HIDE DEF eSkip
  <2>4. LInput(frame, eSkip)
    BY <2>2, <2>3 DEF LInput
  <2>5. eSkip.dStage \in HeadStages
    BY <2>3 DEF HeadStages
  <2>6. LContext(frame, eSkip)
    BY <2>3, <2>4, <2>5, <1>2, <1>3, <1>4, NewInput, Sizes
  <2> QED
    BY <2>1, <2>6, <1>3
<1>11. CASE t = <<"skip", 0, 1, SkipHeader>> /\ ~stored
  <2>1. h.d = eSize /\ h.used = MagicSize
    BY <1>1, <1>3, <1>6, <1>11, Sizes
  <2>2. SameMemory(eSize, dctx) /\ eSize.dStage = "getSFrameSize" /\ eSize.tmpIn = dctx.tmpIn
        /\ eSize.tmpInTarget = dctx.tmpInTarget /\ eSize.frameRemainingSize = dctx.frameRemainingSize
    BY <1>2 DEF LShape, SameMemory
  <2> HIDE DEF eSize
  <2>3. LInput(frame, eSize)
    BY <2>2 DEF LInput
  <2>4. eSize.dStage \in HeadStages
    BY <2>2 DEF HeadStages
  <2>5. LContext(frame, eSize)
    BY <2>2, <2>3, <2>4, <1>2, <1>4, NewInput
  <2> QED
    BY <2>1, <2>5, <1>3, <1>6, Sizes
<1>12. CASE t # <<"skip", 0, 1, SkipHeader>>
  <2>1. t = <<"frame", 0, 1, n>>
    <3> SUFFICES ASSUME t # <<"frame", 0, 1, n>> PROVE FALSE
      OBVIOUS
    <3>1. h = Bad
      BY <1>1, <1>3, <1>6, <1>12, Sizes
    <3> QED
      BY <3>1
  <2>2. ~frame.skippable /\ n = HeaderSize(frame) /\ n \in Nat
    BY <2>1, <1>5, <1>9
  <2>3. CASE Len(bytes) < n
    <3>1. h = Ok(eMore, Len(bytes)) \/ h = Bad
      BY <1>1, <1>3, <1>6, <1>12, <2>1, <2>3, Sizes
    <3>2. h.d = eMore /\ h.used = Len(bytes)
      BY <3>1
    <3>3. SameMemory(eMore, dctx) /\ eMore.dStage = "storeFrameHeader" /\ eMore.tmpIn = bytes
          /\ eMore.tmpInTarget = n /\ eMore.frameRemainingSize = dctx.frameRemainingSize
      BY <1>2 DEF LShape, SameMemory
    <3> HIDE DEF eMore
    <3>4. LInput(frame, eMore)
      BY <3>3, <2>2, <2>3, <1>3, <1>5 DEF LInput
    <3>5. eMore.dStage \in HeadStages
      BY <3>3 DEF HeadStages
    <3>6. LContext(frame, eMore)
      BY <3>3, <3>4, <3>5, <2>2, <1>2, <1>3, <1>4, NewInput
    <3> QED
      BY <3>2, <3>6, <1>3
  <2>4. CASE ~(Len(bytes) < n)
    <3>1. h = Ok(eInit, n) \/ h = Bad
      BY <1>1, <1>3, <1>6, <1>12, <2>1, <2>4, Sizes
    <3>2. h.d = eInit /\ h.used = n
      BY <3>1
    <3>3. SameMemory(eInit, dctx) /\ eInit.dStage = "init" /\ eInit.tmpIn = dctx.tmpIn
          /\ eInit.tmpInTarget = dctx.tmpInTarget
          /\ eInit.frameRemainingSize = IF frame.declared > 0 THEN frame.declared
                                        ELSE dctx.frameRemainingSize
      BY <1>2 DEF LShape, SameMemory
    <3> HIDE DEF eInit
    <3>4. LInput(frame, eInit) /\ eInit.frameRemainingSize \in 0 .. U64 - 1
      BY <3>3, <1>2, <1>5 DEF LInput
    <3>5. eInit.dStage \in HeadStages
      BY <3>3 DEF HeadStages
    <3>6. LContext(frame, eInit)
      BY <3>3, <3>4, <3>5, <1>2, <1>4, NewInput
    <3> QED
      BY <3>2, <3>6, <2>2, <2>4, <1>3
  <2> QED
    BY <2>3, <2>4
<1> QED
  BY <1>10, <1>11, <1>12

LEMMA HeaderOK ==
  ASSUME LInv, call.busy, dctx.dStage \in {"getFrameHeader", "storeFrameHeader"},
         NEW bytes \in Seq(Tokens(frame)), NEW stored \in BOOLEAN,
         stored /\ frame.skippable => Len(bytes) <= SkipHeader,
         ~stored => Len(bytes) <= L!Input,
         NEW c, CallOK(frame, fed, c), L!Header(bytes, stored, c)
  PROVE  LInv'
<1> DEFINE h == L!DecodeHeader(dctx, bytes, stored)
<1>1. IF h.ok THEN L!Continue(h.d, IF stored THEN c ELSE L!Skip(h.used)) ELSE L!Fail(dctx)
  BY DEF L!Header
<1>2. LContext(frame, dctx)
  BY LTyped
<1>3. CASE ~h.ok
  <2>1. L!Fail(dctx)
    BY <1>1, <1>3
  <2> QED
    BY <2>1, <1>2, LFails
<1>4. CASE h.ok
  <2>1. LContext(frame, h.d) /\ h.used \in Nat /\ h.used <= Len(bytes)
    BY <1>4, DecodeHeaderOK
  <2> HIDE DEF h
  <2>2. CASE stored
    <3>1. L!Continue(h.d, c)
      BY <1>1, <1>4, <2>2
    <3> QED
      BY <3>1, <2>1, LContinues
  <2>3. CASE ~stored
    <3>1. L!Continue(h.d, L!Skip(h.used))
      BY <1>1, <1>4, <2>3
    <3>2. h.used <= L!Input
      BY <2>1, <2>3, LInputNat
    <3>3. CallOK(frame, fed, L!Skip(h.used))
      BY <2>1, <3>2, LTaken
    <3> QED
      BY <3>1, <3>3, <2>1, LContinues
  <2> QED
    BY <2>2, <2>3
<1> QED
  BY <1>3, <1>4

LEMMA GetFrameHeaderOK ==
  ASSUME LInv, L!GetFrameHeader
  PROVE  LInv'
<1>1. call.busy /\ dctx.dStage = "getFrameHeader"
  BY DEF L!GetFrameHeader, L!Stage
<1>2. /\ LContext(frame, dctx) /\ LShape(dctx) /\ IsSeq(dctx.tmpIn) /\ dctx.tmpInTarget \in Nat
      /\ dctx.frameRemainingSize \in 0 .. U64 - 1 /\ CallOK(frame, fed, call)
  BY LTyped
<1>3. L!Input \in Nat
  BY <1>1, LInputNat
<1>4. CASE L!Header(L!Take(L!Input), FALSE, call)
  <2> DEFINE bytes == L!Take(L!Input)
  <2>1. bytes \in Seq(Tokens(frame)) /\ Len(bytes) <= L!Input
    BY <1>1, <1>3, LTaken
  <2>2. L!Header(bytes, FALSE, call)
    BY <1>4
  <2> HIDE DEF bytes
  <2>3. FALSE \in BOOLEAN /\ (FALSE /\ frame.skippable => Len(bytes) <= SkipHeader)
        /\ (~FALSE => Len(bytes) <= L!Input)
    BY <2>1
  <2>4. dctx.dStage \in {"getFrameHeader", "storeFrameHeader"}
    BY <1>1
  <2> QED
    BY <2>1, <2>2, <2>3, <2>4, <1>1, <1>2, HeaderOK
<1>5. CASE L!Suspend([dctx EXCEPT !.tmpIn = <<>>], call, minFHSize)
  <2> DEFINE e == [dctx EXCEPT !.tmpIn = <<>>]
  <2>1. SameMemory(e, dctx) /\ e.dStage = "getFrameHeader" /\ e.tmpIn = <<>>
        /\ e.tmpInTarget = dctx.tmpInTarget /\ e.frameRemainingSize = dctx.frameRemainingSize
    BY <1>1, <1>2 DEF LShape, SameMemory
  <2> HIDE DEF e
  <2>2. LInput(frame, e) /\ e.dStage \in HeadStages /\ dctx.dStage \in HeadStages
    BY <2>1, <1>1 DEF LInput, HeadStages
  <2>3. LContext(frame, e)
    BY <2>1, <2>2, <1>2, NewInput, EmptyIsSeq
  <2>4. minFHSize \in 0 .. U64 /\ minFHSize # 0
    BY Sizes
  <2>5. L!Suspend(e, call, minFHSize)
    BY <1>5 DEF e
  <2> QED
    BY <2>3, <2>4, <2>5, <1>1, <1>2, LSuspends
<1>6. CASE L!Continue([dctx EXCEPT !.tmpIn = <<>>, !.tmpInTarget = minFHSize,
                                   !.dStage = "storeFrameHeader"], call)
  <2> DEFINE e == [dctx EXCEPT !.tmpIn = <<>>, !.tmpInTarget = minFHSize,
                               !.dStage = "storeFrameHeader"]
  <2>1. SameMemory(e, dctx) /\ e.dStage = "storeFrameHeader" /\ e.tmpIn = <<>>
        /\ e.tmpInTarget = minFHSize /\ e.frameRemainingSize = dctx.frameRemainingSize
    BY <1>1, <1>2 DEF LShape, SameMemory
  <2>2. L!Continue(e, call)
    BY <1>6
  <2> HIDE DEF e
  <2>3. LInput(frame, e)
    BY <2>1, EmptyIsSeq, Sizes DEF LInput
  <2>4. e.dStage \in HeadStages /\ dctx.dStage \in HeadStages
    BY <2>1, <1>1 DEF HeadStages
  <2>5. LContext(frame, e)
    BY <2>1, <2>3, <2>4, <1>2, NewInput, EmptyIsSeq, Sizes
  <2> QED
    BY <2>2, <2>5, <1>1, <1>2, LContinues
<1> QED
  BY <1>4, <1>5, <1>6 DEF L!GetFrameHeader

LEMMA StoreFrameHeaderOK ==
  ASSUME LInv, L!StoreFrameHeader
  PROVE  LInv'
<1> DEFINE want == dctx.tmpInTarget
           got == L!Stored(want)
           c == L!Skip(L!Missing(want))
           e == [dctx EXCEPT !.tmpIn = got]
<1>1. call.busy /\ dctx.dStage = "storeFrameHeader"
  BY DEF L!StoreFrameHeader, L!Stage
<1>2. /\ LContext(frame, dctx) /\ LShape(dctx) /\ want \in Nat /\ Len(dctx.tmpIn) \in Nat
      /\ dctx.frameRemainingSize \in 0 .. U64 - 1
  BY LTyped
<1>3. /\ dctx.tmpIn \in Seq(Tokens(frame)) /\ Len(dctx.tmpIn) <= want
      /\ want = minFHSize \/ (~frame.skippable /\ want <= maxFHSize)
  BY <1>1, <1>2 DEF LContext, LInput
<1>4. /\ L!Missing(want) \in Nat /\ L!Missing(want) <= L!Input
      /\ IsSeq(got) /\ Len(got) \in Nat /\ Len(got) <= want /\ got \in Seq(Tokens(frame))
  BY <1>1, <1>2, <1>3, LStored
<1>5. CallOK(frame, fed, c) /\ c.busy
  BY <1>1, <1>4, LTaken
<1>6. IF Len(got) < want THEN L!Suspend(e, c, want - Len(got) + BHSize) ELSE L!Header(got, TRUE, c)
  BY DEF L!StoreFrameHeader
<1>7. /\ SameMemory(e, dctx) /\ e.dStage = "storeFrameHeader" /\ e.tmpIn = got
      /\ e.tmpInTarget = want /\ e.frameRemainingSize = dctx.frameRemainingSize
  BY <1>1, <1>2 DEF LShape, SameMemory
<1> HIDE DEF e, c, got
<1>8. CASE Len(got) < want
  <2>1. LInput(frame, e)
    BY <1>3, <1>4, <1>7 DEF LInput
  <2>2. e.dStage \in HeadStages /\ dctx.dStage \in HeadStages
    BY <1>1, <1>7 DEF HeadStages
  <2>3. LContext(frame, e)
    BY <2>1, <2>2, <1>2, <1>4, <1>7, NewInput
  <2>4. want - Len(got) + BHSize \in 0 .. U64 /\ want - Len(got) + BHSize # 0
    BY <1>2, <1>3, <1>4, <1>8, Sizes
  <2>5. L!Suspend(e, c, want - Len(got) + BHSize)
    BY <1>6, <1>8
  <2> QED
    BY <2>3, <2>4, <2>5, <1>5, LSuspends
<1>9. CASE ~(Len(got) < want)
  <2>1. L!Header(got, TRUE, c)
    BY <1>6, <1>9
  <2>2. frame.skippable => Len(got) <= SkipHeader
    BY <1>2, <1>3, <1>4, Sizes
  <2> QED
    BY <2>1, <2>2, <1>1, <1>4, <1>5, HeaderOK
<1> QED
  BY <1>8, <1>9

(* The sizes of the blocks are so far apart that a buffer large enough for *)
(* the output of a frame came with one that is large enough for its input. *)
LEMMA InputFits ==
  ASSUME NEW f \in Frames, f.fmt = "lz4", NEW d, LContext(f, d), Needed(f) <= d.maxBufferSize
  PROVE  f.maxBlockSize + BFSize <= d.tmpInCap
<1>1. f.maxBlockSize \in Nat /\ f.maxBlockSize > 0 /\ f.linked \in BOOLEAN
  BY LZ4FrameTyped
<1>2. d.maxBufferSize \in Nat
  BY DEF LContext, LShape
<1>3. Needed(f) >= f.maxBlockSize /\ Needed(f) \in Nat
  BY <1>1, Sizes DEF Needed
<1>4. d.maxBufferSize # 0
  BY <1>1, <1>2, <1>3
<1>5. PICK g \in Frames : /\ g.fmt = "lz4" /\ d.maxBufferSize = Needed(g)
                          /\ d.tmpInCap = g.maxBlockSize + BFSize
  BY <1>4 DEF LContext, LBuffers
<1>6. g.maxBlockSize \in Nat /\ g.linked \in BOOLEAN
  BY <1>5, LZ4FrameTyped
<1>7. Needed(g) <= g.maxBlockSize + 2 * KB64
  BY <1>6, Sizes DEF Needed
<1>8. ~(g.maxBlockSize < f.maxBlockSize)
  <2> SUFFICES ASSUME g.maxBlockSize < f.maxBlockSize PROVE FALSE
    OBVIOUS
  <2>1. g.maxBlockSize + 2 * KB64 < f.maxBlockSize
    BY <1>5, BlockSizesAssumption
  <2>2. Needed(g) \in Nat
    BY <1>6, Sizes DEF Needed
  <2> QED
    BY <2>1, <2>2, <1>1, <1>3, <1>5, <1>6, <1>7, Sizes
<1> QED
  BY <1>1, <1>5, <1>6, <1>8, Sizes

LEMMA StartBlocksOK ==
  ASSUME NEW f \in Frames, f.fmt = "lz4", NEW d, LContext(f, d), d.dStage = "init",
         NEW a, LShape(a), LBuffers(a), a.dict = "NULL", a.dictSize = 0,
         Needed(f) <= a.maxBufferSize, f.maxBlockSize + BFSize <= a.tmpInCap,
         NEW e, e = L!StartBlocks(a)
  PROVE  LContext(f, e)
<1>1. /\ DOMAIN e = DOMAIN a /\ e.dStage = "getBlockHeader"
      /\ e.frameRemainingSize = a.frameRemainingSize /\ e.tmpInTarget = 0 /\ e.tmpIn = <<>>
      /\ e.maxBufferSize = a.maxBufferSize /\ e.tmpInCap = a.tmpInCap
      /\ e.tmpOutBuffer = a.tmpOutBuffer /\ e.tmpOut = 0 /\ e.tmpOutSize = 0
      /\ e.tmpOutStart = 0 /\ e.dict = a.dict /\ e.dictOff = a.dictOff
      /\ e.dictSize = a.dictSize
  BY DEF LShape, L!StartBlocks
<1>2. LShape(e)
  BY <1>1, EmptyIsSeq DEF LShape, BlockStages
<1>3. LBuffers(e)
  BY <1>1 DEF LBuffers
<1>4. LDict(f, e) /\ LFlush(f, e) /\ LInput(f, e)
  BY <1>1 DEF LDict, LFlush, LInput, HeadStages, BlockStages
<1> QED
  BY <1>2, <1>3, <1>4 DEF LContext

LEMMA InitBuffersOK ==
  ASSUME LInv, L!InitBuffers
  PROVE  LInv'
<1>1. call.busy /\ dctx.dStage = "init"
  BY DEF L!InitBuffers, L!Stage
<1>2. /\ LContext(frame, dctx) /\ LShape(dctx) /\ LBuffers(dctx) /\ CallOK(frame, fed, call)
      /\ frame \in Frames /\ frame.fmt = "lz4"
  BY LTyped DEF LContext
<1>3. dctx.dict = "NULL" /\ dctx.dictSize = 0
  BY <1>1, <1>2 DEF LContext, LDict, HeadStages
<1>4. L!BufferNeeded = Needed(frame)
  BY DEF L!BufferNeeded, Needed
<1>5. frame.maxBlockSize \in Nat /\ frame.maxBlockSize > 0 /\ Needed(frame) \in Nat
  BY <1>2, LZ4FrameTyped, Sizes DEF Needed
<1>6. CASE /\ L!BufferNeeded <= dctx.maxBufferSize /\ L!Continue(L!StartBlocks(dctx), call)
  <2>1. frame.maxBlockSize + BFSize <= dctx.tmpInCap
    BY <1>2, <1>4, <1>6, InputFits
  <2>2. LContext(frame, L!StartBlocks(dctx))
    BY <2>1, <1>1, <1>2, <1>3, <1>4, <1>6, StartBlocksOK
  <2> QED
    BY <2>2, <1>1, <1>2, <1>6, LContinues
<1>7. CASE L!Continue(L!StartBlocks(
             [dctx EXCEPT !.tmpInCap = frame.maxBlockSize + BFSize,
                          !.tmpOutBuffer = L!Garbage(L!BufferNeeded),
                          !.maxBufferSize = L!BufferNeeded]), call)
  <2> DEFINE b == Garbage(Needed(frame))
             a == [dctx EXCEPT !.tmpInCap = frame.maxBlockSize + BFSize,
                               !.tmpOutBuffer = b, !.maxBufferSize = Needed(frame)]
  <2>1. Len(b) = Needed(frame)
    BY <1>5, Copies
  <2>2. L!Continue(L!StartBlocks(a), call)
    BY <1>4, <1>7, LCopies
  <2> HIDE DEF b
  <2>3. /\ DOMAIN a = DOMAIN dctx /\ a.tmpInCap = frame.maxBlockSize + BFSize
        /\ a.tmpOutBuffer = b /\ a.maxBufferSize = Needed(frame)
        /\ a.dStage = dctx.dStage /\ a.frameRemainingSize = dctx.frameRemainingSize
        /\ a.tmpInTarget = dctx.tmpInTarget /\ a.tmpIn = dctx.tmpIn /\ a.tmpOut = dctx.tmpOut
        /\ a.tmpOutSize = dctx.tmpOutSize /\ a.tmpOutStart = dctx.tmpOutStart
        /\ a.dict = dctx.dict /\ a.dictOff = dctx.dictOff /\ a.dictSize = dctx.dictSize
    BY <1>2 DEF LShape
  <2> HIDE DEF a
  <2>4. LShape(a)
    BY <2>1, <2>3, <1>2, <1>5, Sizes DEF LShape
  <2>5. LBuffers(a)
    BY <2>1, <2>3, <1>2 DEF LBuffers
  <2>6. LContext(frame, L!StartBlocks(a))
    BY <2>3, <2>4, <2>5, <1>1, <1>2, <1>3, <1>5, StartBlocksOK, Sizes
  <2> QED
    BY <2>2, <2>6, <1>1, <1>2, LContinues
<1> QED
  BY <1>6, <1>7 DEF L!InitBuffers

LEMMA LZ4AllocationFailsOK ==
  ASSUME LInv, L!AllocationFails
  PROVE  LInv'
<1>1. /\ dctx.dStage = "init" /\ call' = NoCall /\ res' = -1 /\ frame' = frame /\ fed' = fed
      /\ \/ dctx' = [dctx EXCEPT !.maxBufferSize = 0, !.tmpInCap = 0]
         \/ dctx' = [dctx EXCEPT !.maxBufferSize = 0, !.tmpOutBuffer = <<>>,
                                 !.tmpInCap = frame.maxBlockSize + BFSize]
  BY DEF L!AllocationFails, L!Stage, L!NoCall, NoCall
<1>2. /\ LContext(frame, dctx) /\ LShape(dctx) /\ frame \in Frames /\ frame.fmt = "lz4"
  BY LTyped
<1>3. frame.maxBlockSize \in Nat
  BY <1>2, LZ4FrameTyped
<1> DEFINE d == dctx'
<1>4. /\ DOMAIN d = DOMAIN dctx /\ d.tmpInCap \in Nat /\ Len(d.tmpOutBuffer) \in Nat
      /\ d.maxBufferSize = 0
      /\ d.dStage = dctx.dStage /\ d.frameRemainingSize = dctx.frameRemainingSize
      /\ d.tmpInTarget = dctx.tmpInTarget /\ d.tmpIn = dctx.tmpIn /\ d.tmpOut = dctx.tmpOut
      /\ d.tmpOutSize = dctx.tmpOutSize /\ d.tmpOutStart = dctx.tmpOutStart
      /\ d.dict = dctx.dict /\ d.dictOff = dctx.dictOff /\ d.dictSize = dctx.dictSize
  <2>1. CASE d = [dctx EXCEPT !.maxBufferSize = 0, !.tmpInCap = 0]
    BY <2>1, <1>2 DEF LShape
  <2>2. CASE d = [dctx EXCEPT !.maxBufferSize = 0, !.tmpOutBuffer = <<>>,
                              !.tmpInCap = frame.maxBlockSize + BFSize]
    <3> DEFINE none == <<>>
               cap == frame.maxBlockSize + BFSize
    <3>1. Len(none) \in Nat /\ cap \in Nat
      BY <1>3, Sizes, EmptyIsSeq
    <3>2. d = [dctx EXCEPT !.maxBufferSize = 0, !.tmpOutBuffer = none, !.tmpInCap = cap]
      BY <2>2
    <3> HIDE DEF none, cap, d
    <3> QED
      BY <3>1, <3>2, <1>2 DEF LShape
  <2> QED
    BY <1>1, <2>1, <2>2
<1> HIDE DEF d
<1>5. LShape(d)
  BY <1>2, <1>4 DEF LShape
<1>6. LBuffers(d)
  BY <1>4 DEF LBuffers
<1>7. LDict(frame, d) /\ LFlush(frame, d) /\ LInput(frame, d)
  BY <1>1, <1>2, <1>4 DEF LContext, LDict, LFlush, LInput, HeadStages, BlockStages
<1>8. LContext(frame, d)
  BY <1>5, <1>6, <1>7 DEF LContext
<1>9. CallOK(frame, fed, NoCall) /\ -1 \in -1 .. U64
  BY IdleOK, Sizes
<1> QED
  BY <1>1, <1>8, <1>9 DEF LInv, d

(* LZ4F_resetDecompressionContext() leaves the history.                    *)
LEMMA LResetOK ==
  ASSUME NEW f, NEW g, NEW d, LContext(f, d), NEW e, e = L!ResetDecompressionContext(d)
  PROVE  LContext(g, e) /\ e.dStage = "getFrameHeader"
<1>1. /\ DOMAIN e = DOMAIN d /\ e.dStage = "getFrameHeader" /\ e.dict = "NULL" /\ e.dictSize = 0
      /\ e.maxBufferSize = d.maxBufferSize /\ e.tmpInCap = d.tmpInCap /\ e.tmpIn = d.tmpIn
      /\ e.tmpOutBuffer = d.tmpOutBuffer /\ e.tmpOut = d.tmpOut /\ e.tmpOutSize = d.tmpOutSize
      /\ e.tmpOutStart = d.tmpOutStart /\ e.dictOff = d.dictOff
      /\ e.frameRemainingSize = d.frameRemainingSize /\ e.tmpInTarget = d.tmpInTarget
  BY DEF LContext, LShape, L!ResetDecompressionContext
<1>2. LShape(e)
  BY <1>1 DEF LContext, LShape, HeadStages
<1>3. LBuffers(e)
  BY <1>1 DEF LContext, LBuffers
<1>4. LDict(g, e) /\ LFlush(g, e) /\ LInput(g, e)
  BY <1>1 DEF LDict, LFlush, LInput, HeadStages, BlockStages
<1> QED
  BY <1>1, <1>2, <1>3, <1>4 DEF LContext

-----------------------------------------------------------------------------
(* Skippable frames.                                                       *)

LEMMA SFrameSizeOK ==
  ASSUME LInv, call.busy, dctx.dStage \in HeadStages, NEW bytes, NEW c, CallOK(frame, fed, c),
         L!SFrameSize(bytes, c)
  PROVE  LInv'
<1> DEFINE e == [dctx EXCEPT !.tmpInTarget = frame.size, !.dStage = "skipSkippable"]
<1>1. /\ LContext(frame, dctx) /\ LShape(dctx) /\ frame \in Frames /\ frame.fmt = "lz4"
      /\ IsSeq(dctx.tmpIn) /\ dctx.frameRemainingSize \in 0 .. U64 - 1
  BY LTyped
<1>2. frame.size \in 0 .. U64
  BY <1>1, LZ4FrameTyped
<1>3. L!Continue(e, c) \/ L!Fail(dctx)
  BY DEF L!SFrameSize
<1>4. SameMemory(e, dctx) /\ e.dStage = "skipSkippable" /\ e.tmpIn = dctx.tmpIn
      /\ e.tmpInTarget = frame.size /\ e.frameRemainingSize = dctx.frameRemainingSize
  BY <1>1 DEF LShape, SameMemory
<1> HIDE DEF e
<1>5. LInput(frame, e) /\ e.dStage \in HeadStages
  BY <1>2, <1>4, Sizes DEF LInput, HeadStages
<1>6. LContext(frame, e)
  BY <1>1, <1>2, <1>4, <1>5, NewInput, Sizes
<1> QED
  BY <1>1, <1>3, <1>6, LContinues, LFails

LEMMA GetSFrameSizeOK ==
  ASSUME LInv, L!GetSFrameSize
  PROVE  LInv'
<1> DEFINE n == SkipHeader - MagicSize
           tokens == [k \in 1 .. MagicSize |-> L!Token]
           e == [dctx EXCEPT !.tmpIn = tokens, !.tmpInTarget = SkipHeader,
                             !.dStage = "storeSFrameSize"]
<1>1. call.busy /\ dctx.dStage = "getSFrameSize" /\ dctx.dStage \in HeadStages
  BY DEF L!GetSFrameSize, L!Stage, HeadStages
<1>2. /\ LContext(frame, dctx) /\ LShape(dctx) /\ dctx.frameRemainingSize \in 0 .. U64 - 1
      /\ CallOK(frame, fed, call)
  BY LTyped
<1>3. n \in Nat /\ L!Input \in Nat
  BY <1>1, LInputNat, Sizes
<1>4. IF L!Input >= n THEN L!SFrameSize(L!Take(n), L!Skip(n)) ELSE L!Continue(e, call)
  BY LStreams DEF L!GetSFrameSize
<1>5. IsSeq(tokens) /\ Len(tokens) = MagicSize
  BY Sizes DEF IsSeq
<1> HIDE DEF tokens
<1>6. SameMemory(e, dctx) /\ e.dStage = "storeSFrameSize" /\ e.tmpIn = tokens
      /\ e.tmpInTarget = SkipHeader /\ e.frameRemainingSize = dctx.frameRemainingSize
  BY <1>2 DEF LShape, SameMemory
<1> HIDE DEF e, n
<1>7. CASE L!Input >= n
  <2>1. CallOK(frame, fed, L!Skip(n))
    BY <1>1, <1>3, <1>7, LTaken
  <2>2. L!SFrameSize(L!Take(n), L!Skip(n))
    BY <1>4, <1>7
  <2> QED
    BY <2>1, <2>2, <1>1, SFrameSizeOK
<1>8. CASE ~(L!Input >= n)
  <2>1. LInput(frame, e)
    BY <1>5, <1>6, Sizes DEF LInput
  <2>2. e.dStage \in HeadStages
    BY <1>6 DEF HeadStages
  <2>3. LContext(frame, e)
    BY <2>1, <2>2, <1>1, <1>2, <1>5, <1>6, NewInput, Sizes
  <2> QED
    BY <2>3, <1>1, <1>2, <1>4, <1>8, LContinues
<1> QED
  BY <1>7, <1>8

LEMMA StoreSFrameSizeOK ==
  ASSUME LInv, L!StoreSFrameSize
  PROVE  LInv'
<1> DEFINE want == dctx.tmpInTarget
           got == L!Stored(want)
           c == L!Skip(L!Missing(want))
           e == [dctx EXCEPT !.tmpIn = got]
<1>1. call.busy /\ dctx.dStage = "storeSFrameSize" /\ dctx.dStage \in HeadStages
  BY DEF L!StoreSFrameSize, L!Stage, HeadStages
<1>2. /\ LContext(frame, dctx) /\ LShape(dctx) /\ want \in Nat /\ Len(dctx.tmpIn) \in Nat
      /\ dctx.frameRemainingSize \in 0 .. U64 - 1
  BY LTyped
<1>3. Len(dctx.tmpIn) <= want /\ want = SkipHeader
  BY <1>1, <1>2 DEF LContext, LInput
<1>4. /\ L!Missing(want) \in Nat /\ L!Missing(want) <= L!Input
      /\ IsSeq(got) /\ Len(got) \in Nat /\ Len(got) <= want
  BY <1>1, <1>2, <1>3, LStored
<1>5. CallOK(frame, fed, c) /\ c.busy
  BY <1>1, <1>4, LTaken
<1>6. IF Len(got) < want THEN L!Suspend(e, c, want - Len(got))
      ELSE L!SFrameSize(SubSeq(got, MagicSize + 1, want), c)
  BY DEF L!StoreSFrameSize
<1>7. /\ SameMemory(e, dctx) /\ e.dStage = "storeSFrameSize" /\ e.tmpIn = got
      /\ e.tmpInTarget = want /\ e.frameRemainingSize = dctx.frameRemainingSize
  BY <1>1, <1>2 DEF LShape, SameMemory
<1> HIDE DEF e, c, got
<1>8. CASE Len(got) < want
  <2>1. LInput(frame, e)
    BY <1>3, <1>4, <1>7 DEF LInput
  <2>2. e.dStage \in HeadStages
    BY <1>1, <1>7 DEF HeadStages
  <2>3. LContext(frame, e)
    BY <2>1, <2>2, <1>1, <1>2, <1>4, <1>7, NewInput
  <2>4. want - Len(got) \in 0 .. U64 /\ want - Len(got) # 0
    BY <1>2, <1>3, <1>4, <1>8, Sizes
  <2>5. L!Suspend(e, c, want - Len(got))
    BY <1>6, <1>8
  <2> QED
    BY <2>3, <2>4, <2>5, <1>5, LSuspends
<1>9. CASE ~(Len(got) < want)
  <2>1. L!SFrameSize(SubSeq(got, MagicSize + 1, want), c)
    BY <1>6, <1>9
  <2> QED
    BY <2>1, <1>1, <1>5, SFrameSizeOK
<1> QED
  BY <1>8, <1>9

LEMMA SkipSkippableOK ==
  ASSUME LInv, L!SkipSkippable
  PROVE  LInv'
<1> DEFINE n == L!Min({dctx.tmpInTarget, L!Input})
           d == [dctx EXCEPT !.tmpInTarget = @ - n]
           e == IF d.tmpInTarget = 0 THEN L!ResetDecompressionContext(d) ELSE d
<1>1. call.busy /\ dctx.dStage = "skipSkippable" /\ dctx.dStage \in HeadStages
  BY DEF L!SkipSkippable, L!Stage, HeadStages
<1>2. /\ LContext(frame, dctx) /\ LShape(dctx) /\ dctx.tmpInTarget \in Nat
      /\ dctx.frameRemainingSize \in 0 .. U64 - 1 /\ IsSeq(dctx.tmpIn)
  BY LTyped
<1>3. dctx.tmpInTarget <= U64
  BY <1>1, <1>2 DEF LContext, LInput
<1>4. L!Input \in Nat
  BY <1>1, LInputNat
<1>5. n \in Nat /\ n <= L!Input /\ n <= dctx.tmpInTarget
  BY <1>2, <1>4, MinOfTwo, LCopies
<1>6. L!Suspend(e, L!Skip(n), d.tmpInTarget)
  BY DEF L!SkipSkippable
<1> HIDE DEF n
<1>7. SameMemory(d, dctx) /\ d.dStage = "skipSkippable" /\ d.tmpIn = dctx.tmpIn
      /\ d.tmpInTarget = dctx.tmpInTarget - n /\ d.frameRemainingSize = dctx.frameRemainingSize
  BY <1>1, <1>2 DEF LShape, SameMemory
<1> HIDE DEF d
<1>8. d.tmpInTarget \in Nat /\ d.tmpInTarget <= U64
  BY <1>2, <1>3, <1>5, <1>7, Sizes
<1>9. LInput(frame, d) /\ d.dStage \in HeadStages
  BY <1>7, <1>8 DEF LInput, HeadStages
<1>10. LContext(frame, d)
  BY <1>1, <1>2, <1>7, <1>8, <1>9, NewInput
<1>11. LContext(frame, e) /\ (d.tmpInTarget = 0 => e.dStage = "getFrameHeader")
  BY <1>10, LResetOK
<1>12. CallOK(frame, fed, L!Skip(n)) /\ L!Skip(n).busy
  BY <1>1, <1>5, LTaken
<1> HIDE DEF e
<1>13. d.tmpInTarget \in 0 .. U64
  BY <1>8, Sizes
<1> QED
  BY <1>6, <1>11, <1>12, <1>13, LSuspends

-----------------------------------------------------------------------------
(* Block headers.                                                          *)

LEMMA DecodeBlockHeaderOK ==
  ASSUME LInv, call.busy, dctx.dStage \in {"getBlockHeader", "storeBlockHeader"},
         NEW bytes \in Seq(Tokens(frame)), NEW c, CallOK(frame, fed, c), c.busy,
         L!DecodeBlockHeader(bytes, c)
  PROVE  LInv'
<1>1. /\ LContext(frame, dctx) /\ LShape(dctx) /\ frame \in Frames /\ frame.fmt = "lz4"
      /\ IsSeq(dctx.tmpIn) /\ dctx.frameRemainingSize \in 0 .. U64 - 1
      /\ dctx.tmpInTarget \in Nat
  BY LTyped
<1>2. dctx.dStage \in BlockStages
  BY DEF BlockStages
<1>3. CASE L!Continue([dctx EXCEPT !.dStage = "getSuffix"], c)
  <2> DEFINE e == [dctx EXCEPT !.dStage = "getSuffix"]
  <2>1. SameMemory(e, dctx) /\ e.dStage = "getSuffix" /\ e.tmpIn = dctx.tmpIn
        /\ e.tmpInTarget = dctx.tmpInTarget /\ e.frameRemainingSize = dctx.frameRemainingSize
    BY <1>1 DEF LShape, SameMemory
  <2>2. L!Continue(e, c)
    BY <1>3
  <2> HIDE DEF e
  <2>3. LInput(frame, e) /\ e.dStage \in BlockStages \ {"flushOut"}
    BY <2>1 DEF LInput, BlockStages
  <2>4. LContext(frame, e)
    BY <2>1, <2>3, <1>1, <1>2, NewInput
  <2> QED
    BY <2>2, <2>4, LContinues
<1>4. CASE L!Fail(dctx)
  BY <1>1, <1>4, LFails
<1> DEFINE blk == frame.blocks[bytes[1][2]]
           crc == LCrc(frame)
           size == blk.size
           next == [dctx EXCEPT !.dStage = "getCBlock", !.tmpInTarget = size + crc]
           copy == [dctx EXCEPT !.dStage = "copyDirect", !.tmpInTarget = size,
                                !.blockSum = <<>>]
<1>5. CASE /\ Reads(bytes, "header") /\ ~(blk.size > frame.maxBlockSize)
           /\ \/ L!Continue(copy, c) \/ L!Continue(next, c)
              \/ L!Suspend(next, c, BHSize + size + crc)
  <2>1. bytes[1][2] \in DOMAIN frame.blocks
    BY <1>5, BlockRead
  <2>2. size \in Nat /\ frame.maxBlockSize \in Nat /\ frame.bcheck \in BOOLEAN
        /\ frame.maxBlockSize + 2 * BFSize + BHSize <= U64
    BY <1>1, <2>1, LZ4FrameTyped
  <2>3. size <= frame.maxBlockSize
    BY <1>5, <2>2
  <2> HIDE DEF size
  <2>4. crc \in Nat /\ crc <= BFSize
    BY <2>2, Sizes DEF LCrc
  <2> HIDE DEF crc
  <2>5. /\ SameMemory(next, dctx) /\ next.dStage = "getCBlock" /\ next.tmpIn = dctx.tmpIn
        /\ next.tmpInTarget = size + crc /\ next.frameRemainingSize = dctx.frameRemainingSize
    BY <1>1 DEF LShape, SameMemory
  <2>6. /\ SameMemory(copy, dctx) /\ copy.dStage = "copyDirect" /\ copy.tmpIn = dctx.tmpIn
        /\ copy.tmpInTarget = size /\ copy.frameRemainingSize = dctx.frameRemainingSize
    BY <1>1 DEF LShape, SameMemory
  <2> HIDE DEF next, copy
  <2>7. LInput(frame, next) /\ LInput(frame, copy)
    BY <2>2, <2>3, <2>4, <2>5, <2>6 DEF LInput, crc
  <2>8. next.dStage \in BlockStages \ {"flushOut"} /\ copy.dStage \in BlockStages \ {"flushOut"}
    BY <2>5, <2>6 DEF BlockStages
  <2>9. size + crc \in Nat
    BY <2>2, <2>4
  <2>10. LContext(frame, next)
    BY <1>1, <1>2, <2>5, <2>7, <2>8, <2>9, NewInput
  <2>11. LContext(frame, copy)
    BY <1>1, <1>2, <2>2, <2>6, <2>7, <2>8, NewInput
  <2>12. BHSize + size + crc \in 0 .. U64 /\ BHSize + size + crc # 0
    BY <2>2, <2>3, <2>4, Sizes
  <2>13. CASE L!Continue(copy, c)
    BY <2>13, <2>11, LContinues
  <2>14. CASE L!Continue(next, c)
    BY <2>14, <2>10, LContinues
  <2>15. CASE L!Suspend(next, c, BHSize + size + crc)
    BY <2>15, <2>10, <2>12, LSuspends
  <2> QED
    BY <1>5, <2>13, <2>14, <2>15
<1>6. L!CrcSize = crc
  BY DEF L!CrcSize, LCrc
<1> QED
  BY <1>3, <1>4, <1>5, <1>6, LNames DEF L!DecodeBlockHeader

LEMMA GetBlockHeaderOK ==
  ASSUME LInv, L!GetBlockHeader
  PROVE  LInv'
<1> DEFINE e == [dctx EXCEPT !.tmpIn = <<>>, !.dStage = "storeBlockHeader"]
<1>1. call.busy /\ dctx.dStage = "getBlockHeader" /\ dctx.dStage \in BlockStages
  BY DEF L!GetBlockHeader, L!Stage, BlockStages
<1>2. /\ LContext(frame, dctx) /\ LShape(dctx) /\ dctx.frameRemainingSize \in 0 .. U64 - 1
      /\ dctx.tmpInTarget \in Nat /\ CallOK(frame, fed, call)
  BY LTyped
<1>3. IF L!Input >= BHSize THEN L!DecodeBlockHeader(L!Take(BHSize), L!Skip(BHSize))
      ELSE L!Continue(e, call)
  BY DEF L!GetBlockHeader
<1>4. L!Input \in Nat /\ BHSize \in Nat
  BY <1>1, LInputNat, Sizes
<1>5. SameMemory(e, dctx) /\ e.dStage = "storeBlockHeader" /\ e.tmpIn = <<>>
      /\ e.tmpInTarget = dctx.tmpInTarget /\ e.frameRemainingSize = dctx.frameRemainingSize
  BY <1>2 DEF LShape, SameMemory
<1> HIDE DEF e
<1>6. CASE L!Input >= BHSize
  <2>1. /\ L!Take(BHSize) \in Seq(Tokens(frame))
        /\ CallOK(frame, fed, L!Skip(BHSize)) /\ L!Skip(BHSize).busy
    BY <1>1, <1>4, <1>6, LTaken
  <2>2. L!DecodeBlockHeader(L!Take(BHSize), L!Skip(BHSize))
    BY <1>3, <1>6
  <2> QED
    BY <2>1, <2>2, <1>1, DecodeBlockHeaderOK
<1>7. CASE ~(L!Input >= BHSize)
  <2>1. LInput(frame, e)
    BY <1>5, EmptyIsSeq, Sizes DEF LInput
  <2>2. e.dStage \in BlockStages \ {"flushOut"}
    BY <1>5 DEF BlockStages
  <2>3. LContext(frame, e)
    BY <2>1, <2>2, <1>1, <1>2, <1>5, NewInput, EmptyIsSeq
  <2> QED
    BY <2>3, <1>1, <1>2, <1>3, <1>7, LContinues
<1> QED
  BY <1>6, <1>7

(* Common to the stages that store BHSize or BFSize bytes.                 *)
LEMMA StoreOn ==
  ASSUME LInv, call.busy, dctx.dStage \in {"storeBlockHeader", "getBlockChecksum", "storeSuffix"},
         NEW want \in Nat, want = IF dctx.dStage = "storeBlockHeader" THEN BHSize ELSE BFSize,
         NEW got, got = L!Stored(want), NEW c, c = L!Skip(L!Missing(want)),
         NEW e, e = [dctx EXCEPT !.tmpIn = got]
  PROVE  /\ CallOK(frame, fed, c) /\ c.busy /\ LContext(frame, e) /\ e.dStage = dctx.dStage
         /\ Len(got) \in Nat /\ Len(got) <= want
         /\ dctx.dStage = "storeBlockHeader" => got \in Seq(Tokens(frame))
<1>1. /\ LContext(frame, dctx) /\ LShape(dctx) /\ dctx.frameRemainingSize \in 0 .. U64 - 1
      /\ dctx.tmpInTarget \in Nat
  BY LTyped
<1>2. /\ Len(dctx.tmpIn) <= want
      /\ dctx.dStage = "storeBlockHeader" => dctx.tmpIn \in Seq(Tokens(frame))
  BY <1>1 DEF LContext, LInput
<1>3. /\ L!Missing(want) \in Nat /\ L!Missing(want) <= L!Input
      /\ IsSeq(got) /\ Len(got) \in Nat /\ Len(got) <= want
      /\ dctx.dStage = "storeBlockHeader" => got \in Seq(Tokens(frame))
  BY <1>2, LStored
<1>4. CallOK(frame, fed, c) /\ c.busy
  BY <1>3, LTaken
<1>5. SameMemory(e, dctx) /\ e.dStage = dctx.dStage /\ e.tmpIn = got
      /\ e.tmpInTarget = dctx.tmpInTarget /\ e.frameRemainingSize = dctx.frameRemainingSize
  BY <1>1 DEF LShape, SameMemory
<1>6. LInput(frame, e)
  BY <1>3, <1>5 DEF LInput
<1>7. dctx.dStage \in BlockStages /\ e.dStage \in BlockStages \ {"flushOut"}
  BY <1>5 DEF BlockStages
<1>8. LContext(frame, e)
  BY <1>1, <1>3, <1>5, <1>6, <1>7, NewInput
<1> QED
  BY <1>3, <1>4, <1>5, <1>8

LEMMA StoreBlockHeaderOK ==
  ASSUME LInv, L!StoreBlockHeader
  PROVE  LInv'
<1> DEFINE got == L!Stored(BHSize)
           c == L!Skip(L!Missing(BHSize))
           e == [dctx EXCEPT !.tmpIn = got]
<1>1. call.busy /\ dctx.dStage = "storeBlockHeader"
  BY DEF L!StoreBlockHeader, L!Stage
<1>2. BHSize \in Nat
  BY Sizes
<1>3. /\ CallOK(frame, fed, c) /\ c.busy /\ LContext(frame, e) /\ e.dStage = dctx.dStage
      /\ Len(got) \in Nat /\ Len(got) <= BHSize /\ got \in Seq(Tokens(frame))
  BY <1>1, <1>2, StoreOn
<1>4. IF Len(got) < BHSize THEN L!Suspend(e, c, BHSize - Len(got))
      ELSE L!DecodeBlockHeader(got, c)
  BY DEF L!StoreBlockHeader
<1> HIDE DEF got, c, e
<1>5. CASE Len(got) < BHSize
  <2>1. BHSize - Len(got) \in 0 .. U64 /\ BHSize - Len(got) # 0
    BY <1>3, <1>5, Sizes
  <2> QED
    BY <2>1, <1>3, <1>4, <1>5, LSuspends
<1>6. CASE ~(Len(got) < BHSize)
  BY <1>1, <1>3, <1>4, <1>6, DecodeBlockHeaderOK
<1> QED
  BY <1>5, <1>6

(* Only the stage is another one.                                          *)
LEMMA OtherStage ==
  ASSUME NEW f, NEW d, LContext(f, d), d.dStage \in BlockStages,
         NEW s \in {"getBlockHeader", "getBlockChecksum", "storeSuffix"},
         NEW e, \/ s = "getBlockHeader" /\ e = [d EXCEPT !.dStage = s]
                \/ e = [d EXCEPT !.tmpIn = <<>>, !.dStage = s]
  PROVE  LContext(f, e)
<1>1. LShape(d) /\ d.frameRemainingSize \in 0 .. U64 - 1 /\ d.tmpInTarget \in Nat /\ IsSeq(d.tmpIn)
  BY DEF LContext, LShape
<1>2. /\ SameMemory(e, d) /\ e.dStage = s /\ e.tmpInTarget = d.tmpInTarget
      /\ e.frameRemainingSize = d.frameRemainingSize
      /\ (s = "getBlockHeader" /\ e.tmpIn = d.tmpIn) \/ e.tmpIn = <<>>
  <2>1. CASE e = [d EXCEPT !.dStage = s] /\ s = "getBlockHeader"
    BY <2>1, <1>1 DEF LShape, SameMemory
  <2>2. CASE e = [d EXCEPT !.tmpIn = <<>>, !.dStage = s]
    BY <2>2, <1>1 DEF LShape, SameMemory
  <2> QED
    BY <2>1, <2>2
<1>3. IsSeq(e.tmpIn)
  BY <1>1, <1>2, EmptyIsSeq
<1>4. LInput(f, e)
  BY <1>2, EmptyIsSeq, Sizes DEF LInput
<1>5. e.dStage \in BlockStages \ {"flushOut"}
  BY <1>2 DEF BlockStages
<1> QED
  BY <1>1, <1>2, <1>3, <1>4, <1>5, NewInput

LEMMA GetBlockChecksumOK ==
  ASSUME LInv, L!GetBlockChecksum
  PROVE  LInv'
<1> DEFINE got == L!Stored(BFSize)
           c == L!Skip(L!Missing(BFSize))
           e == [dctx EXCEPT !.tmpIn = got]
           next == [dctx EXCEPT !.dStage = "getBlockHeader"]
<1>1. call.busy /\ dctx.dStage = "getBlockChecksum"
  BY DEF L!GetBlockChecksum, L!Stage
<1>2. BFSize \in Nat /\ 1 \in 0 .. U64
  BY Sizes
<1>3. CallOK(frame, fed, c) /\ c.busy /\ LContext(frame, e)
  BY <1>1, <1>2, StoreOn
<1>4. L!Suspend(e, c, 1) \/ L!Continue(next, c) \/ L!Fail(dctx)
  BY DEF L!GetBlockChecksum
<1> HIDE DEF got, c, e
<1>5. LContext(frame, dctx) /\ dctx.dStage \in BlockStages
  BY <1>1, LTyped DEF BlockStages
<1>6. LContext(frame, next)
  BY <1>5, OtherStage
<1> HIDE DEF next
<1>7. CASE L!Suspend(e, c, 1)
  BY <1>2, <1>3, <1>7, LSuspends
<1>8. CASE L!Continue(next, c)
  BY <1>1, <1>3, <1>6, <1>8, LContinues
<1>9. CASE L!Fail(dctx)
  BY <1>5, <1>9, LFails
<1> QED
  BY <1>4, <1>7, <1>8, <1>9

LEMMA CheckSuffixOK ==
  ASSUME LInv, NEW bytes, NEW c, CallOK(frame, fed, c), c.busy, L!CheckSuffix(bytes, c)
  PROVE  LInv'
<1> DEFINE e == L!ResetDecompressionContext(dctx)
<1>1. LContext(frame, dctx)
  BY LTyped
<1>2. LContext(frame, e) /\ e.dStage = "getFrameHeader"
  BY <1>1, LResetOK
<1>3. 0 \in 0 .. U64
  BY Sizes
<1>4. L!Suspend(e, c, 0) \/ L!Fail(dctx)
  BY DEF L!CheckSuffix
<1> HIDE DEF e
<1> QED
  BY <1>1, <1>2, <1>3, <1>4, LSuspends, LFails

LEMMA StoreSuffixOK ==
  ASSUME LInv, L!StoreSuffix
  PROVE  LInv'
<1> DEFINE got == L!Stored(BFSize)
           c == L!Skip(L!Missing(BFSize))
           e == [dctx EXCEPT !.tmpIn = got]
<1>1. call.busy /\ dctx.dStage = "storeSuffix"
  BY DEF L!StoreSuffix, L!Stage
<1>2. BFSize \in Nat
  BY Sizes
<1>3. /\ CallOK(frame, fed, c) /\ c.busy /\ LContext(frame, e)
      /\ Len(got) \in Nat /\ Len(got) <= BFSize
  BY <1>1, <1>2, StoreOn
<1>4. IF Len(got) < BFSize THEN L!Suspend(e, c, BFSize - Len(got)) ELSE L!CheckSuffix(got, c)
  BY DEF L!StoreSuffix
<1> HIDE DEF got, c, e
<1>5. CASE Len(got) < BFSize
  <2>1. BFSize - Len(got) \in 0 .. U64 /\ BFSize - Len(got) # 0
    BY <1>3, <1>5, Sizes
  <2> QED
    BY <2>1, <1>3, <1>4, <1>5, LSuspends
<1>6. CASE ~(Len(got) < BFSize)
  BY <1>3, <1>4, <1>6, CheckSuffixOK
<1> QED
  BY <1>5, <1>6

LEMMA GetSuffixOK ==
  ASSUME LInv, L!GetSuffix
  PROVE  LInv'
<1> DEFINE r == L!ResetDecompressionContext(dctx)
           e == [dctx EXCEPT !.tmpIn = <<>>, !.dStage = "storeSuffix"]
<1>1. call.busy /\ dctx.dStage = "getSuffix" /\ dctx.dStage \in BlockStages
  BY DEF L!GetSuffix, L!Stage, BlockStages
<1>2. LContext(frame, dctx) /\ CallOK(frame, fed, call)
  BY LTyped
<1>3. LContext(frame, r) /\ r.dStage = "getFrameHeader"
  BY <1>2, LResetOK
<1>4. LContext(frame, e)
  BY <1>1, <1>2, OtherStage
<1>5. \/ L!Fail(dctx) \/ L!Suspend(r, call, 0) \/ L!Continue(e, call)
      \/ ~(L!Input < BFSize) /\ L!CheckSuffix(L!Take(BFSize), L!Skip(BFSize))
  BY DEF L!GetSuffix
<1> HIDE DEF r, e
<1>6. 0 \in 0 .. U64 /\ BFSize \in Nat /\ L!Input \in Nat
  BY <1>1, LInputNat, Sizes
<1>7. CASE L!Fail(dctx)
  BY <1>2, <1>7, LFails
<1>8. CASE L!Suspend(r, call, 0)
  BY <1>1, <1>2, <1>3, <1>6, <1>8, LSuspends
<1>9. CASE L!Continue(e, call)
  BY <1>1, <1>2, <1>4, <1>9, LContinues
<1>10. CASE ~(L!Input < BFSize) /\ L!CheckSuffix(L!Take(BFSize), L!Skip(BFSize))
  <2>1. BFSize <= L!Input
    BY <1>6, <1>10
  <2>2. CallOK(frame, fed, L!Skip(BFSize)) /\ L!Skip(BFSize).busy
    BY <2>1, <1>1, <1>6, LTaken
  <2> QED
    BY <2>2, <1>10, CheckSuffixOK
<1> QED
  BY <1>5, <1>7, <1>8, <1>9, <1>10

-----------------------------------------------------------------------------
(* Blocks.                                                                 *)

LEMMA ModRange ==
  ASSUME NEW a \in Int, NEW b \in Nat, b > 0
  PROVE  a % b \in 0 .. b - 1
OBVIOUS

LEMMA MinOfThree ==
  ASSUME NEW a \in Nat, NEW b \in Nat, NEW c \in Nat, NEW m, m = Min({a, b, c})
  PROVE  m \in Nat /\ m <= a /\ m <= b /\ m <= c
BY DEF Min

LEMMA Appended ==
  ASSUME NEW f, NEW known, NEW c0, CallOK(f, known, c0), c0.busy, NEW data, IsSeq(data),
         Len(data) <= c0.room - Len(c0.dst),
         NEW c, c = [c0 EXCEPT !.dst = @ \o data]
  PROVE  CallOK(f, known, c) /\ c.busy
<1>1. IsSeq(c0.dst) /\ c0.room \in Nat /\ Len(c0.dst) \in Nat /\ Len(data) \in Nat
  BY DEF CallOK, IsSeq
<1> DEFINE s == c0.dst \o data
<1>2. IsSeq(s) /\ Len(s) = Len(c0.dst) + Len(data)
  BY <1>1, Joined
<1>3. c = [c0 EXCEPT !.dst = s]
  OBVIOUS
<1> HIDE DEF s
<1>4. /\ DOMAIN c = DOMAIN c0 /\ c.busy = c0.busy /\ c.src = c0.src /\ c.end = c0.end
      /\ c.dst = s /\ c.room = c0.room /\ c.null = c0.null
  BY <1>3 DEF CallOK
<1>5. Len(s) <= c0.room
  BY <1>1, <1>2
<1> QED
  BY <1>2, <1>4, <1>5 DEF CallOK

(* The rest of the frame is counted down, whatever is counted.             *)
LEMMA ProducedOK ==
  ASSUME NEW f \in Frames, frame = f, NEW d, LContext(f, d), NEW data, IsSeq(data),
         NEW e, e = L!Produced(d, data)
  PROVE  /\ LContext(f, e) /\ SameMemory(e, d) /\ e.dStage = d.dStage
         /\ e.tmpIn = d.tmpIn /\ e.tmpInTarget = d.tmpInTarget
<1>1. LShape(d) /\ d.frameRemainingSize \in 0 .. U64 - 1
  BY DEF LContext, LShape
<1>2. Len(data) \in Nat
  BY DEF IsSeq
<1> DEFINE r == IF f.declared > 0 THEN (d.frameRemainingSize - Len(data)) % U64
                ELSE d.frameRemainingSize
           x == IF f.ccheck THEN d.xxh \o data ELSE d.xxh
<1>3. r \in 0 .. U64 - 1
  BY <1>1, <1>2, ModRange, Sizes
<1>4. e = [d EXCEPT !.xxh = x, !.frameRemainingSize = r]
  BY DEF L!Produced
<1> HIDE DEF r, x
<1>5. /\ SameMemory(e, d) /\ e.dStage = d.dStage /\ e.tmpIn = d.tmpIn
      /\ e.tmpInTarget = d.tmpInTarget /\ e.frameRemainingSize = r
  BY <1>1, <1>4 DEF LShape, SameMemory
<1>6. LShape(e)
  BY <1>1, <1>3, <1>5 DEF LShape, SameMemory
<1>7. LBuffers(e) /\ LDict(f, e) /\ LFlush(f, e) /\ LInput(f, e)
  BY <1>5 DEF LContext, LBuffers, LDict, LFlush, LInput, SameMemory
<1> QED
  BY <1>5, <1>6, <1>7 DEF LContext

LEMMA UpdateContext ==
  ASSUME NEW f \in Frames, f.fmt = "lz4", f.linked, NEW d, LContext(f, d),
         d.dStage \in BlockStages \ {"flushOut"}, NEW dst, NEW at \in Nat, NEW n \in Nat,
         NEW e, e = L!UpdateDict(d, dst, at, n, FALSE)
  PROVE  LContext(f, e) /\ Kept(e, d)
<1>1. /\ LShape(d) /\ Len(d.tmpOutBuffer) = d.maxBufferSize
      /\ d.dict = "tmp" => d.dictOff = 0 /\ d.dictSize <= d.maxBufferSize
  BY BlockBuffers DEF LContext, LDict
<1>2. 2 * KB64 <= d.maxBufferSize
  <2>1. /\ 2 * KB64 + f.maxBlockSize <= d.maxBufferSize /\ f.maxBlockSize \in Nat
        /\ d.maxBufferSize \in Nat
    BY BlockBuffers, LZ4FrameTyped
  <2> QED
    BY <2>1, Sizes
<1>3. Kept(e, d) /\ HistoryOK(e, d)
  BY <1>1, <1>2, UpdateDictOK
<1> QED
  BY <1>3, KeptContext

LEMMA CopyDirectOK ==
  ASSUME LInv, L!CopyDirect
  PROVE  LInv'
<1> DEFINE n == IF call.null THEN 0 ELSE L!Min({dctx.tmpInTarget, L!Input, L!Room})
           bytes == L!Take(n)
           data == [k \in 1 .. n |-> L!RawUnit(bytes[k])]
           c == [L!Skip(n) EXCEPT !.dst = @ \o data]
           p == L!Produced(dctx, data)
           sum == IF frame.bcheck THEN p.blockSum \o bytes ELSE p.blockSum
           d1 == [p EXCEPT !.tmpInTarget = @ - n, !.blockSum = sum]
           d2 == IF frame.linked /\ ~call.null
                 THEN L!UpdateDict(d1, c.dst, Len(call.dst), n, FALSE) ELSE d1
           hint == d2.tmpInTarget + L!CrcSize + BHSize
<1>1. call.busy /\ dctx.dStage = "copyDirect" /\ dctx.dStage \in BlockStages \ {"flushOut"}
  BY DEF L!CopyDirect, L!Stage, BlockStages
<1>2. IF d2.tmpInTarget > 0 THEN L!Suspend(d2, c, hint)
      ELSE IF frame.bcheck
      THEN L!Continue([d2 EXCEPT !.tmpIn = <<>>, !.dStage = "getBlockChecksum"], c)
      ELSE L!Continue([d2 EXCEPT !.dStage = "getBlockHeader"], c)
  BY DEF L!CopyDirect
<1>3. /\ LContext(frame, dctx) /\ LShape(dctx) /\ frame \in Frames /\ frame.fmt = "lz4"
      /\ dctx.frameRemainingSize \in 0 .. U64 - 1 /\ dctx.tmpInTarget \in Nat
      /\ IsSeq(dctx.tmpIn) /\ CallOK(frame, fed, call)
  BY LTyped
<1>4. dctx.tmpInTarget <= frame.maxBlockSize
  BY <1>1, <1>3 DEF LContext, LInput
<1>5. /\ frame.maxBlockSize \in Nat /\ frame.maxBlockSize + 2 * BFSize + BHSize <= U64
      /\ frame.bcheck \in BOOLEAN /\ frame.linked \in BOOLEAN
  BY <1>3, LZ4FrameTyped
<1>6. /\ L!Input \in Nat /\ L!Room \in Nat /\ L!Room = call.room - Len(call.dst)
      /\ Len(call.dst) \in Nat
  <2>1. call.room \in Nat /\ Len(call.dst) \in Nat /\ Len(call.dst) <= call.room
    BY <1>1, <1>3 DEF CallOK, IsSeq
  <2> QED
    BY <2>1, <1>1, LInputNat DEF L!Room
<1>7. n \in Nat /\ n <= L!Input /\ n <= L!Room /\ n <= dctx.tmpInTarget
  <2> DEFINE m == L!Min({dctx.tmpInTarget, L!Input, L!Room})
  <2>1. m = Min({dctx.tmpInTarget, L!Input, L!Room})
    BY LCopies
  <2>2. m \in Nat /\ m <= L!Input /\ m <= L!Room /\ m <= dctx.tmpInTarget
    BY <2>1, <1>3, <1>6, MinOfThree
  <2> QED
    BY <2>2, <1>3, <1>6
<1> HIDE DEF n
<1>8. /\ CallOK(frame, fed, L!Skip(n)) /\ L!Skip(n).busy /\ L!Skip(n).dst = call.dst
      /\ L!Skip(n).room = call.room
  BY <1>1, <1>7, LTaken
<1>9. IsSeq(data) /\ Len(data) = n
  BY <1>7 DEF IsSeq
<1> HIDE DEF data
<1>10. CallOK(frame, fed, c) /\ c.busy
  <2>1. Len(data) <= L!Skip(n).room - Len(L!Skip(n).dst)
    BY <1>6, <1>7, <1>8, <1>9
  <2> QED
    BY <2>1, <1>8, <1>9, Appended
<1>11. /\ LContext(frame, p) /\ p.dStage = "copyDirect" /\ p.tmpInTarget = dctx.tmpInTarget
       /\ LShape(p) /\ p.frameRemainingSize \in 0 .. U64 - 1 /\ IsSeq(p.tmpIn)
  <2>1. LContext(frame, p) /\ p.dStage = dctx.dStage /\ p.tmpInTarget = dctx.tmpInTarget
    BY <1>3, <1>9, ProducedOK
  <2> HIDE DEF p
  <2> QED
    BY <2>1, <1>1 DEF LContext, LShape
<1> HIDE DEF p, sum, c
<1>12. /\ SameMemory(d1, p) /\ d1.dStage = "copyDirect" /\ d1.tmpIn = p.tmpIn
       /\ d1.tmpInTarget = dctx.tmpInTarget - n /\ d1.frameRemainingSize = p.frameRemainingSize
  BY <1>11 DEF LShape, SameMemory
<1> HIDE DEF d1
<1>13. LContext(frame, d1) /\ d1.dStage \in BlockStages \ {"flushOut"}
  <2>1. d1.tmpInTarget \in Nat /\ d1.tmpInTarget <= frame.maxBlockSize
    BY <1>3, <1>4, <1>5, <1>7, <1>12
  <2>2. LInput(frame, d1)
    BY <2>1, <1>12 DEF LInput
  <2>3. d1.dStage \in BlockStages \ {"flushOut"} /\ p.dStage \in BlockStages
    BY <1>11, <1>12 DEF BlockStages
  <2> QED
    BY <2>1, <2>2, <2>3, <1>11, <1>12, NewInput
<1>14. LContext(frame, d2) /\ d2.dStage = "copyDirect" /\ d2.tmpInTarget = dctx.tmpInTarget - n
  <2>1. CASE frame.linked /\ ~call.null
    <3>1. d2 = L!UpdateDict(d1, c.dst, Len(call.dst), n, FALSE)
      BY <2>1
    <3>2. LContext(frame, d2) /\ Kept(d2, d1)
      BY <3>1, <2>1, <1>3, <1>6, <1>7, <1>13, UpdateContext
    <3> QED
      BY <3>2, <1>12 DEF Kept
  <2>2. CASE ~(frame.linked /\ ~call.null)
    BY <2>2, <1>12, <1>13
  <2> QED
    BY <2>1, <2>2
<1> HIDE DEF d2
<1>15. d2.dStage \in BlockStages
  BY <1>14 DEF BlockStages
<1>16. CASE d2.tmpInTarget > 0
  <2>1. L!CrcSize \in Nat /\ L!CrcSize <= BFSize
    BY <1>5, Sizes DEF L!CrcSize
  <2>2. hint \in 0 .. U64 /\ hint # 0
    BY <2>1, <1>3, <1>4, <1>5, <1>7, <1>14, Sizes
  <2>3. L!Suspend(d2, c, hint)
    BY <1>2, <1>16
  <2> HIDE DEF hint
  <2> QED
    BY <2>2, <2>3, <1>10, <1>14, LSuspends
<1>17. CASE ~(d2.tmpInTarget > 0)
  <2> DEFINE e1 == [d2 EXCEPT !.tmpIn = <<>>, !.dStage = "getBlockChecksum"]
             e2 == [d2 EXCEPT !.dStage = "getBlockHeader"]
  <2>1. LContext(frame, e1) /\ LContext(frame, e2)
    BY <1>14, <1>15, OtherStage
  <2>2. L!Continue(e1, c) \/ L!Continue(e2, c)
    BY <1>2, <1>17
  <2> HIDE DEF e1, e2
  <2> QED
    BY <2>1, <2>2, <1>1, <1>10, LContinues
<1> QED
  BY <1>16, <1>17

(* LZ4_decompress_safe_usingDict() never returns more than a block.        *)
LEMMA DecodeOK ==
  ASSUME frame \in Frames, frame.fmt = "lz4", NEW bytes \in Seq(Tokens(frame)), NEW d, NEW dst,
         NEW r \in L!Decode(bytes, d, dst), r.ok
  PROVE  IsSeq(r.data) /\ Len(r.data) \in Nat /\ Len(r.data) <= frame.maxBlockSize
<1> DEFINE b == bytes[1][2]
           blk == frame.blocks[b]
           window == IF frame.linked THEN L!Min({KB64, L!Before(frame, b)}) ELSE 0
           history == L!Read(L!DictMemory(d, dst), L!DictEnd(d) - window, window)
           good == /\ ~blk.bad /\ d.dictSize >= window
                   /\ history = L!Content(L!Before(frame, b) - window, window)
           fails == ~L!Reads(bytes, "data") \/ blk.units > frame.maxBlockSize
           start == L!Before(frame, b)
<1>1. r \in (IF fails \/ ~good THEN {[ok |-> FALSE, data |-> <<>>]} ELSE {})
             \cup (IF fails THEN {}
                   ELSE {[ok |-> TRUE, data |-> IF good THEN L!Content(start, blk.units)
                                                ELSE L!Garbage(blk.units)]})
  BY DEF L!Decode
<1> HIDE DEF good, start
<1>2. /\ ~fails
      /\ r = [ok |-> TRUE, data |-> IF good THEN L!Content(start, blk.units)
                                    ELSE L!Garbage(blk.units)]
  <2> HIDE DEF fails, blk
  <2> QED
    BY <1>1
<1>3. b \in DOMAIN frame.blocks
  BY <1>2, BlockRead, LNames
<1>4. blk.units \in Nat /\ frame.maxBlockSize \in Nat /\ blk.units <= frame.maxBlockSize
  BY <1>2, <1>3, LZ4FrameTyped
<1> DEFINE u == blk.units
<1>5. r.data = Content(start, u) \/ r.data = Garbage(u)
  BY <1>2, LCopies
<1>6. /\ IsSeq(Content(start, u)) /\ Len(Content(start, u)) = u
      /\ IsSeq(Garbage(u)) /\ Len(Garbage(u)) = u
  BY <1>4, Copies
<1> HIDE DEF u
<1> QED
  BY <1>4, <1>5, <1>6 DEF u

LEMMA DecodeDirectOK ==
  ASSUME LInv, call.busy, dctx.dStage \in {"getCBlock", "storeCBlock"},
         NEW bytes \in Seq(Tokens(frame)), NEW c, CallOK(frame, fed, c), c.busy,
         frame.maxBlockSize <= c.room - Len(c.dst), L!DecodeDirect(bytes, c)
  PROVE  LInv'
<1>1. /\ LContext(frame, dctx) /\ frame \in Frames /\ frame.fmt = "lz4"
  BY LTyped
<1>2. PICK r \in L!Decode(bytes, dctx, c.dst) :
        IF ~r.ok THEN L!Fail(dctx)
        ELSE LET c2 == [c EXCEPT !.dst = @ \o r.data]
                 d1 == [L!Produced(dctx, r.data) EXCEPT !.dStage = "getBlockHeader"]
             IN  L!Continue(IF frame.linked
                            THEN L!UpdateDict(d1, c2.dst, Len(c.dst), Len(r.data), FALSE)
                            ELSE d1, c2)
  BY DEF L!DecodeDirect
<1>3. CASE ~r.ok
  <2>1. L!Fail(dctx)
    BY <1>2, <1>3
  <2> QED
    BY <2>1, <1>1, LFails
<1>4. CASE r.ok
  <2> DEFINE c2 == [c EXCEPT !.dst = @ \o r.data]
             p == L!Produced(dctx, r.data)
             d1 == [p EXCEPT !.dStage = "getBlockHeader"]
             d2 == IF frame.linked
                   THEN L!UpdateDict(d1, c2.dst, Len(c.dst), Len(r.data), FALSE) ELSE d1
  <2>1. L!Continue(d2, c2)
    BY <1>2, <1>4
  <2>2. IsSeq(r.data) /\ Len(r.data) \in Nat /\ Len(r.data) <= frame.maxBlockSize
    BY <1>1, <1>4, DecodeOK
  <2>3. Len(c.dst) \in Nat /\ c.room \in Nat /\ frame.maxBlockSize \in Nat
    BY <1>1, LZ4FrameTyped DEF CallOK, IsSeq
  <2>4. CallOK(frame, fed, c2)
    <3>1. Len(r.data) <= c.room - Len(c.dst)
      BY <2>2, <2>3
    <3> QED
      BY <3>1, <2>2, Appended
  <2>5. LContext(frame, p) /\ p.dStage = dctx.dStage
    BY <1>1, <2>2, ProducedOK
  <2>6. p.dStage \in BlockStages
    BY <2>5 DEF BlockStages
  <2> HIDE DEF p, c2
  <2>7. LContext(frame, d1)
    BY <2>5, <2>6, OtherStage
  <2>8. d1.dStage \in BlockStages \ {"flushOut"}
    BY <2>5 DEF BlockStages, LContext, LShape
  <2> HIDE DEF d1
  <2>9. LContext(frame, d2)
    BY <2>2, <2>3, <2>7, <2>8, <1>1, UpdateContext
  <2> HIDE DEF d2
  <2> QED
    BY <2>1, <2>4, <2>9, LContinues
<1> QED
  BY <1>3, <1>4

LEMMA PlaceTmpOutOK ==
  ASSUME frame \in Frames, frame.fmt = "lz4", NEW d, LContext(frame, d),
         d.dStage \in {"getCBlock", "storeCBlock"}, NEW e, e = L!PlaceTmpOut(d)
  PROVE  /\ LContext(frame, e) /\ e.dStage = d.dStage /\ e.tmpOut \in Nat
         /\ e.tmpOut + frame.maxBlockSize <= e.maxBufferSize
         /\ e.dict = "tmp" => e.dictSize = e.tmpOut
<1>1. d.dStage \in BlockStages
  BY DEF BlockStages
<1>2. /\ d.maxBufferSize \in Nat /\ Len(d.tmpOutBuffer) = d.maxBufferSize
      /\ frame.maxBlockSize \in Nat /\ frame.linked \in BOOLEAN
      /\ frame.maxBlockSize <= d.maxBufferSize
      /\ frame.linked => 2 * KB64 + frame.maxBlockSize <= d.maxBufferSize
  <2>1. frame.maxBlockSize \in Nat /\ frame.linked \in BOOLEAN
    BY LZ4FrameTyped
  <2>2. /\ d.maxBufferSize \in Nat /\ Len(d.tmpOutBuffer) = d.maxBufferSize
        /\ Needed(frame) \in Nat /\ Needed(frame) <= d.maxBufferSize
        /\ frame.maxBlockSize <= Needed(frame)
        /\ frame.linked => 2 * KB64 + frame.maxBlockSize <= d.maxBufferSize
    BY <1>1, BlockBuffers
  <2> QED
    BY <2>1, <2>2
<1>3. /\ LShape(d) /\ d.dictSize \in Nat /\ d.dictOff \in Nat /\ d.tmpOut \in Nat
      /\ d.dict \in {"NULL", "tmp", "dst", "stale"}
      /\ d.dict = "tmp" => d.dictOff = 0 /\ d.dictSize <= d.maxBufferSize
      /\ ~frame.linked => d.dict = "NULL" /\ d.tmpOut = 0
  BY <1>1 DEF LContext, LShape, LDict
<1>4. e = IF ~frame.linked THEN d
          ELSE IF d.dict # "tmp" THEN [d EXCEPT !.tmpOut = L!Min({d.dictSize, KB64})]
          ELSE IF d.dictSize > 2 * KB64
          THEN [d EXCEPT !.tmpOutBuffer = L!Move(@, 0, d.dictSize - KB64, KB64),
                         !.dictSize = KB64, !.tmpOut = KB64]
          ELSE [d EXCEPT !.tmpOut = d.dictSize]
  BY DEF L!PlaceTmpOut
<1>5. CASE ~frame.linked
  <2>1. e = d
    BY <1>4, <1>5
  <2> QED
    BY <2>1, <1>2, <1>3, <1>5
<1>6. CASE frame.linked
  <2> SUFFICES /\ Kept(e, d) /\ HistoryOK(e, d) /\ e.tmpOut <= 2 * KB64
               /\ e.dict = "tmp" => e.dictSize = e.tmpOut
    <3>1. LContext(frame, e)
      BY <1>1, <1>6, KeptContext
    <3>2. e.tmpOut \in Nat /\ e.maxBufferSize = d.maxBufferSize /\ e.dStage = d.dStage
      BY DEF Kept, HistoryOK
    <3>3. e.tmpOut + frame.maxBlockSize <= e.maxBufferSize
      BY <3>2, <1>2, <1>6, Sizes
    <3> QED
      BY <3>1, <3>2, <3>3
  <2>1. CASE d.dict # "tmp"
    <3> DEFINE m == L!Min({d.dictSize, KB64})
    <3>1. m \in Nat /\ m <= KB64
      BY <1>3, MinOfTwo, LCopies, Sizes
    <3>2. e = [d EXCEPT !.tmpOut = m]
      BY <1>4, <1>6, <2>1
    <3> HIDE DEF m
    <3>3. /\ Kept(e, d) /\ e.tmpOut = m /\ e.dict = d.dict /\ e.dictOff = d.dictOff
          /\ e.dictSize = d.dictSize /\ e.tmpOutBuffer = d.tmpOutBuffer
      BY <3>2, <1>3 DEF LShape, Kept
    <3> QED
      BY <3>1, <3>3, <1>3, <2>1, Sizes DEF HistoryOK
  <2>2. CASE d.dict = "tmp" /\ d.dictSize > 2 * KB64
    <3> DEFINE b == L!Move(d.tmpOutBuffer, 0, d.dictSize - KB64, KB64)
    <3>1. Len(b) = Len(d.tmpOutBuffer)
      BY <1>2, <1>6, Moved, LNames, Sizes
    <3>2. e = [d EXCEPT !.tmpOutBuffer = b, !.dictSize = KB64, !.tmpOut = KB64]
      BY <1>4, <1>6, <2>2
    <3> HIDE DEF b
    <3>3. /\ Kept(e, d) /\ e.tmpOut = KB64 /\ e.dict = d.dict /\ e.dictOff = d.dictOff
          /\ e.dictSize = KB64 /\ e.tmpOutBuffer = b
      BY <3>2, <1>3 DEF LShape, Kept
    <3>4. KB64 <= d.maxBufferSize
      BY <1>2, <1>6, Sizes
    <3> QED
      BY <3>1, <3>3, <3>4, <1>3, <2>2, Sizes DEF HistoryOK
  <2>3. CASE d.dict = "tmp" /\ ~(d.dictSize > 2 * KB64)
    <3>1. e = [d EXCEPT !.tmpOut = d.dictSize]
      BY <1>4, <1>6, <2>3
    <3>2. /\ Kept(e, d) /\ e.tmpOut = d.dictSize /\ e.dict = d.dict /\ e.dictOff = d.dictOff
          /\ e.dictSize = d.dictSize /\ e.tmpOutBuffer = d.tmpOutBuffer
      BY <3>1, <1>3 DEF LShape, Kept
    <3> QED
      BY <3>2, <1>3, <2>3, Sizes DEF HistoryOK
  <2> QED
    BY <2>1, <2>2, <2>3
<1> QED
  BY <1>2, <1>5, <1>6

LEMMA DecodeBufferedOK ==
  ASSUME LInv, call.busy, dctx.dStage \in {"getCBlock", "storeCBlock"},
         NEW bytes \in Seq(Tokens(frame)), NEW c, CallOK(frame, fed, c), c.busy,
         L!DecodeBuffered(bytes, c)
  PROVE  LInv'
<1> DEFINE d == L!PlaceTmpOut(dctx)
<1>1. frame \in Frames /\ frame.fmt = "lz4" /\ LContext(frame, dctx)
  BY LTyped
<1>2. /\ LContext(frame, d) /\ d.dStage = dctx.dStage /\ d.tmpOut \in Nat
      /\ d.tmpOut + frame.maxBlockSize <= d.maxBufferSize
      /\ d.dict = "tmp" => d.dictSize = d.tmpOut
  BY <1>1, PlaceTmpOutOK
<1>3. PICK r \in L!Decode(bytes, d, c.dst) :
        IF ~r.ok THEN L!Fail(d)
        ELSE L!Continue([L!Produced(d, r.data) EXCEPT
                           !.tmpOutBuffer = L!Write(@, d.tmpOut,
                              r.data \o L!Garbage(frame.maxBlockSize - Len(r.data))),
                           !.tmpOutSize = Len(r.data), !.tmpOutStart = 0,
                           !.dStage = "flushOut"], c)
  BY DEF L!DecodeBuffered
<1> HIDE DEF d
<1>4. CASE ~r.ok
  <2>1. L!Fail(d)
    BY <1>3, <1>4
  <2> QED
    BY <2>1, <1>2, LFails
<1>5. CASE r.ok
  <2> DEFINE n == Len(r.data)
             fill == frame.maxBlockSize - n
             all == r.data \o L!Garbage(fill)
             p == L!Produced(d, r.data)
             b == L!Write(p.tmpOutBuffer, d.tmpOut, all)
             e == [p EXCEPT !.tmpOutBuffer = b, !.tmpOutSize = n, !.tmpOutStart = 0,
                            !.dStage = "flushOut"]
  <2>1. L!Continue(e, c)
    BY <1>3, <1>5
  <2>2. IsSeq(r.data) /\ n \in Nat /\ n <= frame.maxBlockSize
    BY <1>1, <1>5, DecodeOK
  <2>3. frame.maxBlockSize \in Nat
    BY <1>1, LZ4FrameTyped
  <2>4. Len(all) = frame.maxBlockSize
    <3>1. fill \in Nat /\ n + fill = frame.maxBlockSize
      BY <2>2, <2>3
    <3> HIDE DEF fill
    <3>2. IsSeq(Garbage(fill)) /\ Len(Garbage(fill)) = fill
      BY <3>1, Copies
    <3>3. all = r.data \o Garbage(fill)
      BY LCopies
    <3>4. Len(all) = n + fill
      BY <3>2, <3>3, <2>2, Joined
    <3> QED
      BY <3>1, <3>4
  <2>5. /\ LContext(frame, p) /\ SameMemory(p, d) /\ p.dStage = d.dStage
    BY <1>1, <1>2, <2>2, ProducedOK
  <2>6. d.dStage \in BlockStages
    BY <1>2 DEF BlockStages
  <2>7. Len(d.tmpOutBuffer) = d.maxBufferSize /\ d.maxBufferSize \in Nat
    BY <2>6, <1>1, <1>2, BlockBuffers
  <2> HIDE DEF all, p, n
  <2>8. Len(b) = d.maxBufferSize
    <3>1. p.tmpOutBuffer = d.tmpOutBuffer
      BY <2>5 DEF SameMemory
    <3>2. Len(Write(d.tmpOutBuffer, d.tmpOut, all)) = Len(d.tmpOutBuffer)
      BY <2>3, <2>4, <2>7, <1>2, Written
    <3> QED
      BY <3>1, <3>2, <2>7, LCopies
  <2> HIDE DEF b
  <2>9. LShape(p)
    BY <2>5 DEF LContext
  <2>10. /\ DOMAIN e = DOMAIN p /\ e.dStage = "flushOut" /\ e.tmpOutBuffer = b
         /\ e.tmpOutSize = n /\ e.tmpOutStart = 0 /\ e.tmpOut = p.tmpOut
         /\ e.frameRemainingSize = p.frameRemainingSize /\ e.tmpInTarget = p.tmpInTarget
         /\ e.maxBufferSize = p.maxBufferSize /\ e.tmpInCap = p.tmpInCap /\ e.tmpIn = p.tmpIn
         /\ e.dict = p.dict /\ e.dictOff = p.dictOff /\ e.dictSize = p.dictSize
    BY <2>9 DEF LShape
  <2> HIDE DEF e
  <2>11. LShape(e)
    BY <2>2, <2>7, <2>8, <2>9, <2>10 DEF LShape, BlockStages
  <2>12. LBuffers(e)
    BY <2>5, <2>8, <2>10 DEF LContext, LBuffers, SameMemory
  <2>13. LDict(frame, e)
    BY <2>5, <2>6, <2>10 DEF LContext, LDict, HeadStages, BlockStages
  <2>14. LFlush(frame, e)
    BY <2>2, <2>3, <2>5, <2>10, <1>2 DEF LFlush, SameMemory
  <2>15. LInput(frame, e)
    BY <2>10 DEF LInput
  <2>16. LContext(frame, e)
    BY <2>11, <2>12, <2>13, <2>14, <2>15 DEF LContext
  <2> QED
    BY <2>1, <2>16, LContinues
<1> QED
  BY <1>4, <1>5

LEMMA DecodeCBlockOK ==
  ASSUME LInv, call.busy, dctx.dStage \in {"getCBlock", "storeCBlock"},
         NEW bytes \in Seq(Tokens(frame)), Len(bytes) = dctx.tmpInTarget,
         NEW c, CallOK(frame, fed, c), c.busy, c.dst = call.dst, c.room = call.room,
         L!DecodeCBlock(bytes, c)
  PROVE  LInv'
<1> DEFINE size == dctx.tmpInTarget - L!CrcSize
           data == SubSeq(bytes, 1, size)
<1>1. /\ frame \in Frames /\ frame.fmt = "lz4" /\ LContext(frame, dctx)
      /\ dctx.tmpInTarget \in Nat
  BY LTyped
<1>2. L!CrcSize = LCrc(frame) /\ LCrc(frame) \in Nat
  BY <1>1, LZ4FrameTyped, Sizes DEF L!CrcSize, LCrc
<1>3. LCrc(frame) <= dctx.tmpInTarget
  BY <1>1 DEF LContext, LInput
<1>4. size \in Nat /\ 0 + size <= Len(bytes)
  BY <1>1, <1>2, <1>3
<1>5. L!Fail(dctx) \/ (L!Room >= frame.maxBlockSize /\ L!DecodeDirect(data, c))
        \/ L!DecodeBuffered(data, c)
  BY DEF L!DecodeCBlock
<1> HIDE DEF size
<1>6. data \in Seq(Tokens(frame))
  <2>1. SubSeq(bytes, 0 + 1, 0 + size) \in Seq(Tokens(frame))
    BY <1>4, Sliced
  <2>2. 0 + 1 = 1 /\ 0 + size = size
    BY <1>4
  <2> QED
    BY <2>1, <2>2
<1> HIDE DEF data
<1>7. CASE L!Fail(dctx)
  BY <1>1, <1>7, LFails
<1>8. CASE L!Room >= frame.maxBlockSize /\ L!DecodeDirect(data, c)
  <2>1. c.room \in Nat /\ Len(c.dst) \in Nat /\ frame.maxBlockSize \in Nat
    BY <1>1, LZ4FrameTyped DEF CallOK, IsSeq
  <2>2. frame.maxBlockSize <= c.room - Len(c.dst)
    BY <1>8, <2>1 DEF L!Room
  <2> QED
    BY <1>6, <1>8, <2>2, DecodeDirectOK
<1>9. CASE L!DecodeBuffered(data, c)
  BY <1>6, <1>9, DecodeBufferedOK
<1> QED
  BY <1>5, <1>7, <1>8, <1>9

LEMMA GetCBlockOK ==
  ASSUME LInv, L!GetCBlock
  PROVE  LInv'
<1> DEFINE want == dctx.tmpInTarget
           e == [dctx EXCEPT !.tmpIn = <<>>, !.dStage = "storeCBlock"]
<1>1. call.busy /\ dctx.dStage = "getCBlock" /\ dctx.dStage \in BlockStages
  BY DEF L!GetCBlock, L!Stage, BlockStages
<1>2. /\ LContext(frame, dctx) /\ LShape(dctx) /\ dctx.frameRemainingSize \in 0 .. U64 - 1
      /\ want \in Nat /\ CallOK(frame, fed, call)
  BY LTyped
<1>3. L!Input \in Nat
  BY <1>1, LInputNat
<1>4. IF L!Input < want THEN L!Continue(e, call)
      ELSE L!DecodeCBlock(L!Take(want), L!Skip(want))
  BY DEF L!GetCBlock
<1>5. CASE L!Input < want
  <2>1. SameMemory(e, dctx) /\ e.dStage = "storeCBlock" /\ e.tmpIn = <<>>
        /\ e.tmpInTarget = want /\ e.frameRemainingSize = dctx.frameRemainingSize
    BY <1>2 DEF LShape, SameMemory
  <2> HIDE DEF e
  <2>2. LInput(frame, e)
    BY <1>1, <1>2, <2>1, EmptyIsSeq DEF LContext, LInput
  <2>3. e.dStage \in BlockStages \ {"flushOut"}
    BY <2>1 DEF BlockStages
  <2>4. LContext(frame, e)
    BY <2>1, <2>2, <2>3, <1>1, <1>2, NewInput, EmptyIsSeq
  <2> QED
    BY <2>4, <1>1, <1>2, <1>4, <1>5, LContinues
<1>6. CASE ~(L!Input < want)
  <2>1. want <= L!Input
    BY <1>2, <1>3, <1>6
  <2>2. /\ L!Take(want) \in Seq(Tokens(frame)) /\ Len(L!Take(want)) = want
        /\ CallOK(frame, fed, L!Skip(want)) /\ L!Skip(want).busy
        /\ L!Skip(want).dst = call.dst /\ L!Skip(want).room = call.room
    BY <2>1, <1>1, <1>2, LTaken
  <2>3. L!DecodeCBlock(L!Take(want), L!Skip(want))
    BY <1>4, <1>6
  <2> QED
    BY <2>2, <2>3, <1>1, DecodeCBlockOK
<1> QED
  BY <1>5, <1>6

LEMMA HintFits ==
  ASSUME NEW w \in Nat, NEW g \in Nat, NEW r \in Nat, NEW m \in Nat,
         NEW bf \in Nat, NEW bh \in Nat, NEW u \in Nat,
         g < w, w <= m + r, r <= bf, m + 2 * bf + bh <= u
  PROVE  w - g + r + bh \in 0 .. u /\ w - g + r + bh # 0
OBVIOUS

LEMMA StoreCBlockOK ==
  ASSUME LInv, L!StoreCBlock
  PROVE  LInv'
<1> DEFINE want == dctx.tmpInTarget
           got == L!Stored(want)
           c == L!Skip(L!Missing(want))
           e == [dctx EXCEPT !.tmpIn = got]
           hint == want - Len(got) + L!CrcSize + BHSize
<1>1. call.busy /\ dctx.dStage = "storeCBlock" /\ dctx.dStage \in BlockStages
  BY DEF L!StoreCBlock, L!Stage, BlockStages
<1>2. /\ LContext(frame, dctx) /\ LShape(dctx) /\ want \in Nat /\ Len(dctx.tmpIn) \in Nat
      /\ dctx.frameRemainingSize \in 0 .. U64 - 1 /\ frame \in Frames /\ frame.fmt = "lz4"
  BY LTyped
<1>3. /\ dctx.tmpIn \in Seq(Tokens(frame)) /\ Len(dctx.tmpIn) <= want
      /\ want <= frame.maxBlockSize + LCrc(frame) /\ LCrc(frame) <= want
  BY <1>1, <1>2 DEF LContext, LInput
<1>4. /\ L!Missing(want) \in Nat /\ L!Missing(want) <= L!Input
      /\ IsSeq(got) /\ Len(got) \in Nat /\ Len(got) <= want /\ got \in Seq(Tokens(frame))
  BY <1>1, <1>2, <1>3, LStored
<1>5. CallOK(frame, fed, c) /\ c.busy /\ c.dst = call.dst /\ c.room = call.room
  BY <1>1, <1>4, LTaken
<1>6. IF Len(got) < want THEN L!Suspend(e, c, hint) ELSE L!DecodeCBlock(got, c)
  BY DEF L!StoreCBlock
<1>7. /\ SameMemory(e, dctx) /\ e.dStage = "storeCBlock" /\ e.tmpIn = got
      /\ e.tmpInTarget = want /\ e.frameRemainingSize = dctx.frameRemainingSize
  BY <1>1, <1>2 DEF LShape, SameMemory
<1> HIDE DEF e, c, got
<1>8. CASE Len(got) < want
  <2>1. LInput(frame, e)
    BY <1>3, <1>4, <1>7 DEF LInput
  <2>2. e.dStage \in BlockStages \ {"flushOut"}
    BY <1>7 DEF BlockStages
  <2>3. LContext(frame, e)
    BY <2>1, <2>2, <1>1, <1>2, <1>4, <1>7, NewInput
  <2>4. /\ L!CrcSize = LCrc(frame) /\ LCrc(frame) \in Nat /\ LCrc(frame) <= BFSize
        /\ frame.maxBlockSize \in Nat /\ frame.maxBlockSize + 2 * BFSize + BHSize <= U64
    BY <1>2, LZ4FrameTyped, Sizes DEF L!CrcSize, LCrc
  <2>5. hint \in 0 .. U64 /\ hint # 0
    BY <2>4, <1>2, <1>3, <1>4, <1>8, Sizes, HintFits
  <2>6. L!Suspend(e, c, hint)
    BY <1>6, <1>8
  <2> HIDE DEF hint
  <2> QED
    BY <2>3, <2>5, <2>6, <1>5, LSuspends
<1>9. CASE ~(Len(got) < want)
  <2>1. L!DecodeCBlock(got, c)
    BY <1>6, <1>9
  <2>2. Len(got) = want
    BY <1>2, <1>4, <1>9
  <2> QED
    BY <2>1, <2>2, <1>1, <1>4, <1>5, DecodeCBlockOK
<1> QED
  BY <1>8, <1>9


LEMMA FlushOutOK ==
  ASSUME LInv, L!FlushOut
  PROVE  LInv'
<1> DEFINE rest == dctx.tmpOutSize - dctx.tmpOutStart
           n == IF call.null THEN 0 ELSE L!Min({rest, L!Room})
           data == L!Read(dctx.tmpOutBuffer, dctx.tmpOut + dctx.tmpOutStart, n)
           c == [call EXCEPT !.dst = @ \o data]
           d1 == IF frame.linked /\ ~call.null
                 THEN L!UpdateDict(dctx, c.dst, Len(call.dst), n, TRUE) ELSE dctx
           d2 == [d1 EXCEPT !.tmpOutStart = @ + n]
<1>1. call.busy /\ dctx.dStage = "flushOut" /\ dctx.dStage \in BlockStages
  BY DEF L!FlushOut, L!Stage, BlockStages
<1>2. IF d2.tmpOutStart = d2.tmpOutSize
      THEN L!Continue([d2 EXCEPT !.dStage = "getBlockHeader"], c)
      ELSE L!Suspend(d2, c, BHSize)
  BY DEF L!FlushOut
<1>3. /\ LContext(frame, dctx) /\ LShape(dctx) /\ frame \in Frames /\ frame.fmt = "lz4"
      /\ CallOK(frame, fed, call)
  BY LTyped
<1>4. /\ dctx.tmpOut \in Nat /\ dctx.tmpOutSize \in Nat /\ dctx.tmpOutStart \in Nat
      /\ dctx.tmpOutStart <= dctx.tmpOutSize /\ dctx.tmpOutSize <= frame.maxBlockSize
      /\ dctx.tmpOut + frame.maxBlockSize <= dctx.maxBufferSize
      /\ dctx.dict = "tmp" => dctx.dictSize = dctx.tmpOut + dctx.tmpOutStart
      /\ dctx.dict = "tmp" => dctx.dictOff = 0 /\ dctx.dictSize <= dctx.maxBufferSize
      /\ ~frame.linked => dctx.dict = "NULL"
  BY <1>1, <1>3 DEF LContext, LShape, LFlush, LDict
<1>5. /\ frame.maxBlockSize \in Nat /\ frame.linked \in BOOLEAN
      /\ dctx.maxBufferSize \in Nat /\ Len(dctx.tmpOutBuffer) = dctx.maxBufferSize
      /\ frame.linked => 2 * KB64 <= dctx.maxBufferSize
  <2>1. /\ frame.maxBlockSize \in Nat /\ frame.linked \in BOOLEAN
        /\ dctx.maxBufferSize \in Nat /\ Len(dctx.tmpOutBuffer) = dctx.maxBufferSize
        /\ frame.linked => 2 * KB64 + frame.maxBlockSize <= dctx.maxBufferSize
    BY <1>1, <1>3, BlockBuffers, LZ4FrameTyped
  <2> QED
    BY <2>1, Sizes
<1>6. L!Room \in Nat /\ L!Room = call.room - Len(call.dst) /\ Len(call.dst) \in Nat
  <2>1. call.room \in Nat /\ Len(call.dst) \in Nat /\ Len(call.dst) <= call.room
    BY <1>1, <1>3 DEF CallOK, IsSeq
  <2> QED
    BY <2>1 DEF L!Room
<1>7. n \in Nat /\ n <= L!Room /\ dctx.tmpOutStart + n <= dctx.tmpOutSize
  <2>1. rest \in Nat
    BY <1>4
  <2>2. L!Min({rest, L!Room}) = IF rest <= L!Room THEN rest ELSE L!Room
    BY <2>1, <1>6, MinOfTwo, LCopies
  <2> QED
    BY <2>1, <2>2, <1>4, <1>6
<1> HIDE DEF n
<1>8. IsSeq(data) /\ Len(data) = n
  BY <1>7, Copies, LCopies
<1> HIDE DEF data
<1>9. CallOK(frame, fed, c) /\ c.busy
  <2>1. Len(data) <= call.room - Len(call.dst)
    BY <1>6, <1>7, <1>8
  <2> QED
    BY <2>1, <1>1, <1>3, <1>8, Appended
<1> HIDE DEF c
<1>10. /\ Kept(d1, dctx) /\ HistoryOK(d1, dctx) /\ d1.tmpOut = dctx.tmpOut
       /\ d1.dict = "tmp" => d1.dictSize = dctx.tmpOut + dctx.tmpOutStart + n
       /\ ~frame.linked => d1.dict = "NULL"
  <2>1. CASE frame.linked /\ ~call.null
    <3>1. d1 = L!UpdateDict(dctx, c.dst, Len(call.dst), n, TRUE)
      BY <2>1
    <3>2. dctx.tmpOut + dctx.tmpOutStart + n <= dctx.maxBufferSize
      BY <1>4, <1>5, <1>7
    <3>3. PICK w \in BOOLEAN : w = TRUE
      OBVIOUS
    <3> HIDE DEF d1
    <3>5. w /\ d1 = L!UpdateDict(dctx, c.dst, Len(call.dst), n, w)
      BY <3>1, <3>3
    <3>6. w => /\ dctx.tmpOut + dctx.tmpOutStart + n <= dctx.maxBufferSize
               /\ dctx.dict = "tmp" => dctx.dictSize = dctx.tmpOut + dctx.tmpOutStart
      BY <3>2, <1>4
    <3>7. 2 * KB64 <= dctx.maxBufferSize
      BY <2>1, <1>5
    <3> DEFINE at == Len(call.dst)
    <3>8. at \in Nat /\ d1 = L!UpdateDict(dctx, c.dst, at, n, w)
      BY <3>5, <1>6
    <3> HIDE DEF at
    <3>9. dctx.dict = "tmp" => dctx.dictOff = 0 /\ dctx.dictSize <= dctx.maxBufferSize
      BY <1>4
    <3>10. Len(dctx.tmpOutBuffer) = dctx.maxBufferSize
      BY <1>5
    <3>4. /\ Kept(d1, dctx) /\ HistoryOK(d1, dctx) /\ d1.tmpOut = dctx.tmpOut
          /\ w /\ d1.dict = "tmp" => d1.dictSize = dctx.tmpOut + dctx.tmpOutStart + n
      BY <3>6, <3>7, <3>8, <3>9, <3>10, <1>3, <1>7, UpdateDictOK
    <3> QED
      BY <3>4, <3>5, <2>1
  <2>2. CASE ~(frame.linked /\ ~call.null)
    <3>1. d1 = dctx
      BY <2>2
    <3>2. Kept(dctx, dctx) /\ HistoryOK(dctx, dctx)
      BY <1>3, <1>4 DEF Kept, HistoryOK, LShape
    <3>3. frame.linked => n = 0
      BY <2>2, <1>3 DEF n, CallOK
    <3> HIDE DEF d1
    <3>4. d1.dict = "tmp" => d1.dictSize = dctx.tmpOut + dctx.tmpOutStart + n
      BY <3>1, <3>3, <1>4, <1>5
    <3> QED
      BY <3>1, <3>2, <3>4, <1>4
  <2> QED
    BY <2>1, <2>2
<1> HIDE DEF d1
<1>11. LShape(d1) /\ d1.dStage = "flushOut"
  BY <1>1, <1>3, <1>10 DEF LShape, Kept, HistoryOK
<1>12. /\ DOMAIN d2 = DOMAIN d1 /\ d2.dStage = "flushOut"
       /\ d2.frameRemainingSize = d1.frameRemainingSize /\ d2.tmpInTarget = d1.tmpInTarget
       /\ d2.maxBufferSize = d1.maxBufferSize /\ d2.tmpInCap = d1.tmpInCap
       /\ d2.tmpIn = d1.tmpIn /\ d2.tmpOutSize = d1.tmpOutSize /\ d2.tmpOut = d1.tmpOut
       /\ d2.tmpOutBuffer = d1.tmpOutBuffer /\ d2.dict = d1.dict /\ d2.dictOff = d1.dictOff
       /\ d2.dictSize = d1.dictSize /\ d2.tmpOutStart = d1.tmpOutStart + n
  BY <1>11 DEF LShape
<1> HIDE DEF d2
<1>13. LContext(frame, d2)
  <2>1. LShape(d2)
    BY <1>7, <1>11, <1>12 DEF LShape
  <2>2. LBuffers(d2)
    BY <1>3, <1>10, <1>12 DEF LContext, LBuffers, Kept, HistoryOK
  <2>3. LDict(frame, d2)
    BY <1>1, <1>3, <1>5, <1>10, <1>12 DEF LContext, LDict, Kept, HistoryOK, HeadStages, BlockStages
  <2>4. LFlush(frame, d2)
    <3>1. d2.tmpOutStart = dctx.tmpOutStart + n /\ d2.tmpOutSize = dctx.tmpOutSize
          /\ d2.tmpOut = dctx.tmpOut /\ d2.maxBufferSize = dctx.maxBufferSize
      BY <1>10, <1>12 DEF Kept
    <3>2. d2.dict = "tmp" => d2.dictSize = d2.tmpOut + d2.tmpOutStart
      BY <3>1, <1>4, <1>7, <1>10, <1>12
    <3> QED
      BY <3>1, <3>2, <1>4, <1>7 DEF LFlush
  <2>5. LInput(frame, d2)
    BY <1>12 DEF LInput
  <2> QED
    BY <2>1, <2>2, <2>3, <2>4, <2>5 DEF LContext
<1>14. CASE d2.tmpOutStart = d2.tmpOutSize
  <2> DEFINE e == [d2 EXCEPT !.dStage = "getBlockHeader"]
  <2>1. LContext(frame, e)
    <3>1. d2.dStage \in BlockStages
      BY <1>12 DEF BlockStages
    <3> QED
      BY <3>1, <1>13, OtherStage
  <2>2. L!Continue(e, c)
    BY <1>2, <1>14
  <2> HIDE DEF e
  <2> QED
    BY <2>1, <2>2, <1>1, <1>9, LContinues
<1>15. CASE d2.tmpOutStart # d2.tmpOutSize
  <2>1. L!Suspend(d2, c, BHSize)
    BY <1>2, <1>15
  <2>2. BHSize \in 0 .. U64 /\ BHSize # 0
    BY Sizes
  <2> QED
    BY <2>1, <2>2, <1>9, <1>13, LSuspends
<1> QED
  BY <1>14, <1>15


-----------------------------------------------------------------------------
(* The program that calls LZ4F_decompress().                               *)

LEMMA EnteredCall ==
  ASSUME NEW f \in Frames, NEW k \in 0 .. Len(Streams[f]), NEW n \in Nat, NEW m \in Nat,
         NEW null \in BOOLEAN, NEW c,
         c = [busy |-> TRUE, src |-> k, end |-> Min({k + n, Len(Streams[f])}),
              dst |-> <<>>, room |-> m, null |-> null]
  PROVE  CallOK(f, k, c) /\ c.busy /\ c.src = k
<1>1. Len(Streams[f]) \in Nat
  BY StreamTyped
<1> DEFINE last == Min({k + n, Len(Streams[f])})
<1>2. last \in Nat /\ k <= last /\ last <= Len(Streams[f])
  BY <1>1, MinOfTwo
<1> HIDE DEF last
<1>3. /\ DOMAIN c = {"busy", "src", "end", "dst", "room", "null"}
      /\ c.busy = TRUE /\ c.src = k /\ c.end = last /\ c.dst = <<>> /\ c.room = m
      /\ c.null = null
  BY DEF last
<1>4. IsSeq(c.dst) /\ Len(c.dst) = 0
  BY <1>3, EmptyIsSeq
<1> QED
  BY <1>1, <1>2, <1>3, <1>4 DEF CallOK

LEMMA LEnterOK ==
  ASSUME LInv, NEW n \in Nat, NEW m \in Nat, NEW null \in BOOLEAN, L!Enter(n, m, null)
  PROVE  LInv'
<1> DEFINE w == IF dctx.dict = "dst" THEN "stale" ELSE dctx.dict
           e == [dctx EXCEPT !.dict = w]
<1>1. /\ call' = [busy |-> TRUE, src |-> fed, end |-> Min({fed + n, Len(Streams[frame])}),
                  dst |-> <<>>, room |-> m, null |-> null]
      /\ dctx' = e /\ frame' = frame /\ fed' = fed /\ res' = res /\ res > 0
  BY LCopies, LStreams DEF L!Enter
<1>2. /\ frame \in Frames /\ frame.fmt = "lz4" /\ fed \in 0 .. Len(Streams[frame])
      /\ res \in -1 .. U64 /\ LContext(frame, dctx) /\ LShape(dctx)
  BY DEF LInv, LContext
<1>3. CallOK(frame, fed, call')
  BY <1>1, <1>2, EnteredCall
<1>4. /\ DOMAIN e = DOMAIN dctx /\ e.dStage = dctx.dStage
      /\ e.frameRemainingSize = dctx.frameRemainingSize /\ e.tmpInTarget = dctx.tmpInTarget
      /\ e.maxBufferSize = dctx.maxBufferSize /\ e.tmpInCap = dctx.tmpInCap
      /\ e.tmpIn = dctx.tmpIn /\ e.tmpOutSize = dctx.tmpOutSize /\ e.tmpOut = dctx.tmpOut
      /\ e.tmpOutBuffer = dctx.tmpOutBuffer /\ e.dictOff = dctx.dictOff
      /\ e.dictSize = dctx.dictSize /\ e.tmpOutStart = dctx.tmpOutStart
      /\ e.dict = dctx.dict \/ (dctx.dict = "dst" /\ e.dict = "stale")
  BY <1>2 DEF LShape
<1> HIDE DEF e
<1>5. LContext(frame, e)
  <2>1. LShape(e)
    BY <1>2, <1>4 DEF LShape
  <2>2. LBuffers(e) /\ LInput(frame, e)
    BY <1>2, <1>4 DEF LContext, LBuffers, LInput
  <2>3. LDict(frame, e)
    BY <1>2, <1>4 DEF LContext, LDict
  <2>4. LFlush(frame, e)
    BY <1>2, <1>4 DEF LContext, LFlush
  <2> QED
    BY <2>1, <2>2, <2>3, <2>4 DEF LContext
<1>6. res # 0
  BY <1>1, <1>2
<1> QED
  BY <1>1, <1>2, <1>3, <1>5, <1>6 DEF LInv

LEMMA LCallOK ==
  ASSUME LInv, L!Call
  PROVE  LInv'
<1>1. PICK n \in Feeds, m \in Rooms : L!Enter(n, m, FALSE)
  BY DEF L!Call
<1>2. n \in Nat /\ m \in Nat /\ FALSE \in BOOLEAN
  BY SizesAssumption
<1> QED
  BY <1>1, <1>2, LEnterOK

LEMMA GetFrameInfoOK ==
  ASSUME LInv, L!GetFrameInfo
  PROVE  LInv'
<1>1. CASE L!Enter(0, 0, TRUE)
  <2>1. 0 \in Nat /\ TRUE \in BOOLEAN
    OBVIOUS
  <2> QED
    BY <2>1, <1>1, LEnterOK
<1>2. CASE ~L!Enter(0, 0, TRUE)
  <2> DEFINE size == Streams[frame][1][4]
             bytes == L!Bytes(0, size)
             h == L!DecodeHeader(dctx, bytes, FALSE)
  <2>1. /\ ~call.busy /\ res > 0 /\ dctx.dStage = "getFrameHeader" /\ h.ok
        /\ dctx' = h.d /\ fed' = h.used /\ res' = BHSize
        /\ frame' = frame /\ call' = call
    BY <1>2, LStreams DEF L!GetFrameInfo, L!Idle
  <2>2. /\ frame \in Frames /\ frame.fmt = "lz4" /\ CallOK(frame, fed, call)
        /\ Streams[frame] \in Seq(Tokens(frame)) /\ Len(Streams[frame]) \in Nat
    BY StreamTyped DEF LInv
  <2>3. size \in Nat /\ size <= Len(Streams[frame])
    <3>1. /\ FirstField(frame) \in Nat /\ FirstField(frame) <= Len(Streams[frame])
          /\ Streams[frame][1] =
               <<IF frame.skippable THEN "skip" ELSE "frame", 0, 1, FirstField(frame)>>
      BY <2>2, StreamTyped
    <3>2. size = FirstField(frame)
      BY <3>1
    <3> QED
      BY <3>1, <3>2
  <2> HIDE DEF size
  <2>4. bytes \in Seq(Tokens(frame)) /\ Len(bytes) = size
    <3>1. bytes = SubSeq(Streams[frame], 0 + 1, 0 + size)
      BY <2>3, LStreams DEF L!Bytes
    <3> QED
      BY <3>1, <2>2, <2>3, Sliced
  <2>5. FALSE \in BOOLEAN
    OBVIOUS
  <2> HIDE DEF bytes
  <2>6. LContext(frame, h.d) /\ h.used \in Nat /\ h.used <= Len(bytes)
    BY <2>1, <2>4, <2>5, DecodeHeaderOK
  <2> HIDE DEF h
  <2>7. h.used \in 0 .. Len(Streams[frame]) /\ BHSize \in -1 .. U64 /\ BHSize # 0
    BY <2>2, <2>3, <2>4, <2>6, Sizes
  <2>8. CallOK(frame, h.used, call)
    BY <2>1, <2>2 DEF CallOK
  <2> QED
    BY <2>1, <2>2, <2>6, <2>7, <2>8 DEF LInv
<1> QED
  BY <1>1, <1>2

LEMMA StartFrameOK ==
  ASSUME NEW g, CallOK(g, fed, call), ~call.busy, L!StartFrame \/ Z!StartFrame
  PROVE  /\ frame' \in Frames /\ frame'.fmt = frame.fmt /\ fed' \in 0 .. Len(Streams[frame'])
         /\ res' = 1 /\ call' = call /\ CallOK(frame', fed', call) /\ fed' = 0
<1>1. /\ frame' \in Later /\ frame'.fmt = frame.fmt /\ fed' = 0 /\ res' = 1 /\ call' = call
  BY DEF L!StartFrame, Z!StartFrame
<1>2. frame' \in Frames
  BY <1>1, FramesAssumption
<1>3. Len(Streams[frame']) \in Nat
  BY <1>2, StreamTyped
<1>4. CallOK(frame', fed', call)
  BY DEF CallOK
<1> QED
  BY <1>1, <1>2, <1>3, <1>4

LEMMA LNextFrameOK ==
  ASSUME LInv, L!NextFrame
  PROVE  LInv'
<1>1. ~call.busy /\ res = 0 /\ L!StartFrame /\ dctx' = dctx
  BY DEF L!NextFrame, L!Idle
<1>2. /\ frame.fmt = "lz4" /\ CallOK(frame, fed, call) /\ LContext(frame, dctx)
      /\ dctx.dStage = "getFrameHeader"
  BY <1>1 DEF LInv
<1>3. /\ frame' \in Frames /\ frame'.fmt = frame.fmt /\ fed' \in 0 .. Len(Streams[frame'])
      /\ res' = 1 /\ call' = call /\ CallOK(frame', fed', call)
  BY <1>1, <1>2, StartFrameOK
<1>4. LContext(frame', dctx)
  BY <1>2 DEF LContext, LDict, LFlush, LInput, HeadStages, BlockStages
<1>5. 1 \in -1 .. U64 /\ 1 # 0
  BY Sizes
<1> QED
  BY <1>1, <1>2, <1>3, <1>4, <1>5 DEF LInv

LEMMA LResetContextOK ==
  ASSUME LInv, L!ResetContext
  PROVE  LInv'
<1> DEFINE e == L!ResetDecompressionContext(dctx)
<1>1. ~call.busy /\ L!StartFrame /\ dctx' = e
  BY DEF L!ResetContext, L!Idle
<1>2. frame.fmt = "lz4" /\ CallOK(frame, fed, call) /\ LContext(frame, dctx)
  BY DEF LInv
<1>3. /\ frame' \in Frames /\ frame'.fmt = frame.fmt /\ fed' \in 0 .. Len(Streams[frame'])
      /\ res' = 1 /\ call' = call /\ CallOK(frame', fed', call)
  BY <1>1, <1>2, StartFrameOK
<1>4. LContext(frame', e)
  BY <1>2, LResetOK
<1> HIDE DEF e
<1>5. 1 \in -1 .. U64 /\ 1 # 0
  BY Sizes
<1> QED
  BY <1>1, <1>2, <1>3, <1>4, <1>5 DEF LInv

LEMMA LNextOK ==
  ASSUME LInv, L!Next
  PROVE  LInv'
<1>1. CASE L!Stages
  BY <1>1, GetFrameHeaderOK, StoreFrameHeaderOK, InitBuffersOK, LZ4AllocationFailsOK,
     GetBlockHeaderOK, StoreBlockHeaderOK, CopyDirectOK, GetBlockChecksumOK, GetCBlockOK,
     StoreCBlockOK, FlushOutOK, GetSuffixOK, StoreSuffixOK, GetSFrameSizeOK,
     StoreSFrameSizeOK, SkipSkippableOK DEF L!Stages
<1>2. CASE L!Caller
  BY <1>2, LCallOK, GetFrameInfoOK, LNextFrameOK, LResetContextOK DEF L!Caller
<1> QED
  BY <1>1, <1>2 DEF L!Next

LEMMA LInitOK ==
  ASSUME L!Init
  PROVE  LInv
<1>1. /\ frame \in Frames /\ frame.fmt = "lz4" /\ fed = 0 /\ res = 1 /\ call = NoCall
      /\ dctx = L!NewContext
  BY DEF L!Init, L!Start, L!NoCall, NoCall
<1>2. Len(Streams[frame]) \in Nat
  BY <1>1, StreamTyped
<1>3. CallOK(frame, fed, call)
  BY <1>1, IdleOK
<1>4. LShape(dctx)
  BY <1>1, EmptyIsSeq, Sizes DEF LShape, L!NewContext, HeadStages
<1>5. /\ dctx.dStage = "getFrameHeader" /\ dctx.dict = "NULL" /\ dctx.dictSize = 0
      /\ dctx.maxBufferSize = 0
  BY <1>1 DEF L!NewContext
<1>6. LContext(frame, dctx)
  BY <1>4, <1>5 DEF LContext, LBuffers, LDict, LFlush, LInput, HeadStages, BlockStages
<1> QED
  BY <1>1, <1>2, <1>3, <1>6, Sizes DEF LInv

LEMMA LBounded ==
  ASSUME LInv
  PROVE  L!TypeOK
<1>1. /\ frame \in Frames /\ frame.fmt = "lz4" /\ fed \in 0 .. Len(L!Streams[frame])
      /\ res \in -1 .. U64 /\ CallOK(frame, fed, call) /\ LContext(frame, dctx)
      /\ LShape(dctx) /\ LDict(frame, dctx) /\ LInput(frame, dctx)
  BY LStreams DEF LInv, LContext
<1>2. fed \in Nat
  BY LTyped
<1>3. call.busy => Len(call.dst) <= call.room /\ call.src \in fed .. call.end
  BY <1>1, <1>2 DEF CallOK
<1>4. Len(dctx.tmpOutBuffer) = dctx.maxBufferSize \/ dctx.maxBufferSize = 0
  BY <1>1 DEF LContext, LBuffers
<1>5. dctx.dict = "tmp" => L!DictEnd(dctx) <= dctx.maxBufferSize
  BY <1>1 DEF LDict, LShape, L!DictEnd
<1>6. dctx.dStage \in {"storeFrameHeader", "storeSFrameSize", "getBlockChecksum"}
        => Len(dctx.tmpIn) <= L!maxFHSize
  <2>1. Len(dctx.tmpIn) \in Nat /\ dctx.tmpInTarget \in Nat
    BY LTyped
  <2> QED
    BY <2>1, <1>1, LStreams, Sizes DEF LInput
<1>7. dctx.dStage \in {"storeBlockHeader", "storeCBlock", "storeSuffix"}
        => Len(dctx.tmpIn) <= dctx.tmpInCap
  <2>1. Len(dctx.tmpIn) \in Nat /\ dctx.tmpInTarget \in Nat /\ dctx.tmpInCap \in Nat
    BY <1>1, LTyped DEF LShape
  <2>2. frame.maxBlockSize \in Nat /\ frame.maxBlockSize > 0
    BY <1>1, LZ4FrameTyped
  <2>3. dctx.dStage \in {"storeBlockHeader", "storeCBlock", "storeSuffix"}
          => frame.maxBlockSize + BFSize <= dctx.tmpInCap
    BY <1>1 DEF LDict, BlockStages
  <2>4. LCrc(frame) \in Nat /\ LCrc(frame) <= BFSize
    BY Sizes DEF LCrc
  <2> QED
    BY <2>1, <2>2, <2>3, <2>4, <1>1, Sizes DEF LInput
<1>8. dctx.frameRemainingSize \in 0 .. U64 - 1
  BY LTyped
<1> QED
  BY <1>1, <1>3, <1>4, <1>5, <1>6, <1>7, <1>8 DEF L!TypeOK


-----------------------------------------------------------------------------
(* How a turn of ZSTD_decompressStream() ends.                             *)

LEMMA ZTyped ==
  ASSUME ZInv
  PROVE  /\ frame \in Frames /\ frame.fmt # "lz4" /\ CallOK(frame, fed, call)
         /\ fed \in Nat /\ fed <= Len(Streams[frame]) /\ Len(Streams[frame]) \in Nat
         /\ Streams[frame] \in Seq(Tokens(frame)) /\ ZShape(dctx)
         /\ call.busy => /\ ZStages(frame, dctx, call.src) /\ res > 0 /\ res \in Int
                         /\ call.src \in Nat /\ call.end \in Nat /\ call.room \in Nat
                         /\ call.src <= call.end /\ call.end <= Len(Streams[frame])
                         /\ Len(call.dst) \in Nat /\ Len(call.dst) <= call.room
                         /\ Z!Input \in Nat /\ Z!Input = call.end - call.src
                         /\ Z!Room \in Nat /\ Z!Room = call.room - Len(call.dst)
<1>1. /\ frame \in Frames /\ frame.fmt # "lz4" /\ CallOK(frame, fed, call)
      /\ fed \in 0 .. Len(Streams[frame]) /\ ZShape(dctx)
  BY DEF ZInv
<1>2. Len(Streams[frame]) \in Nat /\ Streams[frame] \in Seq(Tokens(frame))
  BY <1>1, StreamTyped
<1>3. ASSUME call.busy
      PROVE  ZStages(frame, dctx, call.src) /\ res > 0 /\ res \in Int
  BY <1>3 DEF ZInv
<1>4. ASSUME call.busy
      PROVE  /\ call.src \in Nat /\ call.end \in Nat /\ call.room \in Nat
             /\ call.src <= call.end /\ call.end <= Len(Streams[frame])
             /\ Len(call.dst) \in Nat /\ Len(call.dst) <= call.room
  BY <1>1, <1>4 DEF CallOK, IsSeq
<1>5. ASSUME call.busy
      PROVE  /\ Z!Input \in Nat /\ Z!Input = call.end - call.src
             /\ Z!Room \in Nat /\ Z!Room = call.room - Len(call.dst)
  BY <1>4, <1>5 DEF Z!Input, Z!Room
<1> QED
  BY <1>1, <1>2, <1>3, <1>4, <1>5

LEMMA ZTaken ==
  ASSUME ZInv, call.busy, NEW n \in Nat, n <= Z!Input
  PROVE  /\ Z!Take(n) \in Seq(Tokens(frame)) /\ Len(Z!Take(n)) = n
         /\ CallOK(frame, fed, Z!Skip(n)) /\ Z!Skip(n).busy
         /\ Z!Skip(n).src = call.src + n
<1>1. /\ call.src \in Nat /\ call.end \in Nat /\ n <= call.end - call.src
      /\ call.end <= Len(Streams[frame]) /\ CallOK(frame, fed, call) /\ fed \in Nat
      /\ Streams[frame] \in Seq(Tokens(frame)) /\ Len(Streams[frame]) \in Nat
  BY ZTyped
<1>2. call.src + n <= Len(Streams[frame])
  BY <1>1
<1>3. Z!Take(n) = SubSeq(Streams[frame], call.src + 1, call.src + n)
  BY ZStreams DEF Z!Take
<1>4. Z!Take(n) \in Seq(Tokens(frame)) /\ Len(Z!Take(n)) = n
  <2> DEFINE s == Streams[frame]
             T == Tokens(frame)
             i == call.src
  <2>1. s \in Seq(T) /\ i \in Nat /\ i + n <= Len(s)
    BY <1>1, <1>2
  <2>2. Z!Take(n) = SubSeq(s, i + 1, i + n)
    BY <1>3
  <2> HIDE DEF s, T, i
  <2>3. SubSeq(s, i + 1, i + n) \in Seq(T) /\ Len(SubSeq(s, i + 1, i + n)) = n
    BY <2>1, Sliced
  <2> QED
    BY <2>2, <2>3 DEF T
<1> DEFINE c == Z!Skip(n)
<1>5. /\ DOMAIN c = DOMAIN call /\ c.busy = call.busy /\ c.src = call.src + n
      /\ c.end = call.end /\ c.dst = call.dst /\ c.room = call.room /\ c.null = call.null
  BY <1>1 DEF CallOK, Z!Skip
<1> HIDE DEF c
<1>6. CallOK(frame, fed, c)
  BY <1>1, <1>5 DEF CallOK
<1> QED
  BY <1>4, <1>5, <1>6 DEF c

LEMMA ZContinues ==
  ASSUME ZInv, call.busy, NEW d, NEW c, Z!Continue(d, c), ZShape(d),
         CallOK(frame, fed, c), c.busy, ZStages(frame, d, c.src)
  PROVE  ZInv'
<1>1. dctx' = d /\ call' = c /\ frame' = frame /\ fed' = fed /\ res' = res
  BY DEF Z!Continue
<1>2. res > 0 /\ res \in Int
  BY ZTyped
<1> QED
  BY <1>1, <1>2 DEF ZInv

LEMMA ZFails ==
  ASSUME ZInv, NEW d, NEW why, Z!Fail(d, why), ZShape(d)
  PROVE  ZInv'
<1>1. dctx' = d /\ call' = NoCall /\ frame' = frame /\ fed' = fed /\ res' = -1
  BY DEF Z!Fail, Z!NoCall, NoCall
<1>2. CallOK(frame, fed, NoCall) /\ ~NoCall.busy
  BY IdleOK DEF NoCall
<1> QED
  BY <1>1, <1>2 DEF ZInv

LEMMA ZGives ==
  ASSUME ZInv, NEW d, NEW c, NEW src \in Nat, NEW hint \in Int, Z!Give(d, c, src, hint),
         ZShape(d), src <= Len(Streams[frame]), hint >= 0,
         hint = 0 => d.streamStage = "init", hint > 0 => ZStages(frame, d, src)
  PROVE  ZInv'
<1>1. dctx' = d /\ call' = NoCall /\ frame' = frame /\ fed' = src /\ res' = hint
  BY DEF Z!Give, Z!NoCall, NoCall
<1>2. CallOK(frame, src, NoCall) /\ ~NoCall.busy
  BY IdleOK DEF NoCall
<1>3. src \in 0 .. Len(Streams[frame])
  BY ZTyped
<1> QED
  BY <1>1, <1>2, <1>3 DEF ZInv

(* e is d as far as the shape and the stages look at it.                   *)
ZSame(e, d) ==
  /\ DOMAIN e = DOMAIN d /\ e.stage = d.stage /\ e.block = d.block
  /\ e.expected = d.expected /\ e.header = d.header /\ e.inBuff = d.inBuff
  /\ e.inPos = d.inPos /\ e.inBuffSize = d.inBuffSize /\ e.outBuff = d.outBuff
  /\ e.outStart = d.outStart /\ e.outEnd = d.outEnd /\ e.decodedSize = d.decodedSize

LEMMA FinishOK ==
  ASSUME ZInv, call.busy, NEW d0, ZShape(d0), NEW c, CallOK(frame, fed, c), c.busy,
         Z!Finish(d0, c), ZStages(frame, d0, c.src),
         d0.expected > 0 => d0.inPos < d0.expected,
         d0.expected = 0 /\ d0.outStart = d0.outEnd =>
           /\ d0.streamStage = "init" /\ d0.inPos = 0 /\ d0.inBuff = <<>>
           /\ d0.stage = "decompressBlock" => d0.block \in DOMAIN frame.blocks,
         d0.outStart # d0.outEnd => d0.streamStage = "flush"
  PROVE  ZInv'
<1> DEFINE stuck == c.src = fed /\ c.dst = <<>>
           turns == IF stuck THEN d0.noForwardProgress + 1 ELSE 0
           d == [d0 EXCEPT !.noForwardProgress = turns]
           isBlock == d.stage = "decompressBlock" /\ ~Z!IsLast(d.block)
           hint == d.expected + (IF isBlock THEN BlockHeader ELSE 0) - d.inPos
           dHostage == [d EXCEPT !.hostageByte = TRUE]
           dRead == [d EXCEPT !.streamStage = "read"]
           back == IF d.hostageByte THEN c.src ELSE c.src - 1
<1>1. IF d.noForwardProgress >= NoProgressMax THEN Z!Fail(d, "stuck")
      ELSE IF d.expected > 0 THEN Z!Give(d, c, c.src, hint)
      ELSE IF d.outEnd # d.outStart THEN Z!Give(dHostage, c, back, 1)
      ELSE IF ~d.hostageByte THEN Z!Give(d, c, c.src, 0)
      ELSE IF c.src >= c.end THEN Z!Give(dRead, c, c.src, 1)
      ELSE Z!Give(d, c, c.src + 1, 0)
  BY DEF Z!Finish
<1>2. /\ ZSame(d, d0) /\ d.streamStage = d0.streamStage /\ d.hostageByte = d0.hostageByte
  BY DEF ZShape, ZSame
<1> HIDE DEF turns, stuck, d
<1>3. ZShape(d) /\ ZStages(frame, d, c.src)
  BY <1>2 DEF ZShape, ZStages, ZSame
<1>4. /\ c.src \in Nat /\ c.end \in Nat /\ c.src <= c.end /\ c.end <= Len(Streams[frame])
      /\ Len(Streams[frame]) \in Nat
  BY ZTyped DEF CallOK
<1>5. d.expected \in Nat /\ d.inPos \in Nat /\ d.hostageByte \in BOOLEAN
  BY <1>3 DEF ZShape
<1>6. /\ ZSame(dHostage, d) /\ dHostage.streamStage = d.streamStage /\ dHostage.hostageByte = TRUE
      /\ ZSame(dRead, d) /\ dRead.streamStage = "read" /\ dRead.hostageByte = d.hostageByte
  BY <1>3 DEF ZShape, ZSame
<1> HIDE DEF dHostage, dRead
<1>7. CASE d.noForwardProgress >= NoProgressMax
  BY <1>1, <1>3, <1>7, ZFails
<1>8. CASE ~(d.noForwardProgress >= NoProgressMax) /\ d.expected > 0
  <2>1. hint \in Int /\ hint > 0
    BY <1>2, <1>5, <1>8, Sizes DEF ZSame
  <2>2. Z!Give(d, c, c.src, hint)
    BY <1>1, <1>8
  <2> HIDE DEF hint
  <2>3. hint >= 0 /\ ~(hint = 0) /\ c.src <= Len(Streams[frame])
    BY <2>1, <1>4
  <2> QED
    BY <2>1, <2>2, <2>3, <1>3, <1>4, ZGives
<1>9. CASE ~(d.noForwardProgress >= NoProgressMax) /\ ~(d.expected > 0) /\ d.outEnd # d.outStart
  <2>1. Z!Give(dHostage, c, back, 1)
    BY <1>1, <1>9
  <2>2. d.streamStage = "flush"
    BY <1>2, <1>9 DEF ZSame
  <2>3. back \in Nat /\ back <= Len(Streams[frame])
    BY <2>2, <1>3, <1>4, <1>5 DEF ZStages
  <2>4. ZShape(dHostage)
    BY <1>3, <1>6 DEF ZShape, ZSame
  <2> HIDE DEF back
  <2>5. ZStages(frame, dHostage, back)
    BY <2>2, <1>3, <1>6 DEF ZStages, ZSame
  <2>6. 1 \in Int /\ 1 >= 0 /\ ~(1 = 0)
    OBVIOUS
  <2> QED
    BY <2>1, <2>3, <2>4, <2>5, <2>6, ZGives
<1>10. CASE ~(d.noForwardProgress >= NoProgressMax) /\ ~(d.expected > 0) /\ d.outEnd = d.outStart
  <2>1. /\ d.expected = 0 /\ d.streamStage = "init" /\ d.inPos = 0 /\ d.inBuff = <<>>
        /\ d.stage = "decompressBlock" => d.block \in DOMAIN frame.blocks
    BY <1>2, <1>5, <1>10 DEF ZSame
  <2>2. CASE ~d.hostageByte
    <3>1. Z!Give(d, c, c.src, 0)
      BY <1>1, <1>10, <2>2
    <3>2. c.src <= Len(Streams[frame]) /\ 0 \in Int /\ 0 >= 0 /\ ~(0 > 0)
      BY <1>4
    <3> QED
      BY <3>1, <3>2, <2>1, <1>3, <1>4, ZGives
  <2>3. CASE d.hostageByte /\ c.src >= c.end
    <3>1. Z!Give(dRead, c, c.src, 1)
      BY <1>1, <1>10, <2>3
    <3>2. c.src <= Len(Streams[frame]) /\ 1 \in Int /\ 1 >= 0 /\ ~(1 = 0)
      BY <1>4
    <3>3. ZShape(dRead)
      BY <1>3, <1>6 DEF ZShape, ZSame
    <3>4. ZStages(frame, dRead, c.src)
      BY <2>1, <2>3, <1>6, <1>10 DEF ZStages, ZSame
    <3> QED
      BY <3>1, <3>2, <3>3, <3>4, <1>4, ZGives
  <2>4. CASE d.hostageByte /\ ~(c.src >= c.end)
    <3>1. Z!Give(d, c, c.src + 1, 0)
      BY <1>1, <1>10, <2>4
    <3>2. c.src + 1 \in Nat /\ c.src + 1 <= Len(Streams[frame]) /\ 0 \in Int /\ 0 >= 0 /\ ~(0 > 0)
      BY <2>4, <1>4
    <3> QED
      BY <3>1, <3>2, <2>1, <1>3, <1>4, ZGives
  <2> QED
    BY <2>2, <2>3, <2>4, <1>5
<1> QED
  BY <1>7, <1>8, <1>9, <1>10


-----------------------------------------------------------------------------
(* The header of a zstd frame.                                             *)

LEMMA InitStreamOK ==
  ASSUME ZInv, Z!InitStream
  PROVE  ZInv'
<1> DEFINE d == [dctx EXCEPT !.streamStage = "loadHeader", !.header = <<>>, !.inPos = 0,
                             !.inBuff = <<>>, !.outStart = 0, !.outEnd = 0,
                             !.hostageByte = FALSE]
<1>1. call.busy /\ Z!Continue(d, call)
  BY DEF Z!InitStream, Z!Stage
<1>2. ZShape(dctx) /\ CallOK(frame, fed, call) /\ call.src \in Nat
  BY <1>1, ZTyped
<1>3. /\ DOMAIN d = DOMAIN dctx /\ d.streamStage = "loadHeader" /\ d.header = <<>>
      /\ d.inPos = 0 /\ d.inBuff = <<>> /\ d.outStart = 0 /\ d.outEnd = 0
      /\ d.hostageByte = FALSE /\ d.expected = dctx.expected /\ d.inBuffSize = dctx.inBuffSize
      /\ d.outBuff = dctx.outBuff /\ d.decodedSize = dctx.decodedSize
  BY <1>2 DEF ZShape
<1> HIDE DEF d
<1>4. ZHeaderMax \in Nat
  BY Sizes, MaxOfTwo DEF ZHeaderMax
<1>7. d.hostageByte \in BOOLEAN /\ IsSeq(d.header) /\ IsSeq(d.inBuff)
      /\ Len(d.header) = 0 /\ Len(d.inBuff) = 0
  BY <1>3, EmptyIsSeq
<1>5. ZShape(d)
  BY <1>2, <1>3, <1>4, <1>7 DEF ZShape
<1>6. ZStages(frame, d, call.src)
  BY <1>2, <1>3, EmptyIsSeq DEF ZStages
<1> QED
  BY <1>1, <1>2, <1>5, <1>6, ZContinues

LEMMA HeaderLimits ==
  ASSUME frame \in Frames, frame.fmt # "lz4", NEW bytes, Len(bytes) \in Nat,
         NEW h, h = Z!getFrameHeader(bytes)
  PROVE  /\ h \in Int /\ h >= -1 /\ h <= ZHeaderMax /\ ZHeaderMax \in Nat
         /\ h > 0 => Len(bytes) < h
         /\ h = 0 => HeaderPrefix <= Len(bytes)
<1>1. /\ HeaderSize(frame) \in Nat /\ HeaderSize(frame) > 0
      /\ HeaderSize(frame) <= HeaderPrefix + 1 + SizeField
  BY ZstdFrameTyped
<1> DEFINE a == HeaderPrefix + 1 + SizeField
<1>2. /\ a \in Nat /\ HeaderPrefix <= a /\ SkipHeader \in Nat /\ HeaderPrefix \in Nat
      /\ HeaderPrefix > 0 /\ SkipHeader > 0
  BY Sizes
<1>3. HeaderSize(frame) <= a
  BY <1>1
<1>4. ZHeaderMax = Max({SkipHeader, a})
  BY DEF ZHeaderMax
<1> HIDE DEF a
<1>5. ZHeaderMax \in Nat /\ SkipHeader <= ZHeaderMax /\ a <= ZHeaderMax
  BY <1>2, <1>4, MaxOfTwo
<1>6. h = IF Len(bytes) < HeaderPrefix THEN HeaderPrefix
          ELSE IF bytes[1][1] = "skip"
          THEN IF Len(bytes) < SkipHeader THEN SkipHeader ELSE 0
          ELSE IF bytes[1][1] # "frame" \/ frame.header = "magic" THEN -1
          ELSE IF Len(bytes) < HeaderSize(frame) THEN HeaderSize(frame)
          ELSE IF frame.header = "reserved" THEN -1 ELSE 0
  BY ZStreams DEF Z!getFrameHeader
<1> QED
  BY <1>1, <1>2, <1>3, <1>5, <1>6

(* More of the header is there.                                            *)
LEMMA HeaderGrows ==
  ASSUME ZInv, call.busy, dctx.streamStage = "loadHeader", NEW n \in Nat, n <= Z!Input,
         Len(dctx.header) + n <= ZHeaderMax,
         NEW d, d = [dctx EXCEPT !.header = @ \o Z!Take(n)]
  PROVE  ZShape(d) /\ ZStages(frame, d, call.src + n)
<1>1. ZShape(dctx) /\ ZStages(frame, dctx, call.src) /\ call.src \in Nat
  BY ZTyped
<1>2. Z!Take(n) \in Seq(Tokens(frame)) /\ Len(Z!Take(n)) = n
  BY ZTaken
<1>3. IsSeq(dctx.header) /\ Len(dctx.header) \in Nat /\ Len(dctx.header) <= call.src
  BY <1>1 DEF ZShape, ZStages, IsSeq
<1> DEFINE s == dctx.header \o Z!Take(n)
<1>4. IsSeq(s) /\ Len(s) = Len(dctx.header) + n
  BY <1>2, <1>3, SeqIsSeq, Joined
<1>5. d = [dctx EXCEPT !.header = s]
  OBVIOUS
<1> HIDE DEF s
<1>6. /\ DOMAIN d = DOMAIN dctx /\ d.streamStage = dctx.streamStage /\ d.header = s
      /\ d.inPos = dctx.inPos /\ d.inBuff = dctx.inBuff /\ d.outStart = dctx.outStart
      /\ d.outEnd = dctx.outEnd /\ d.hostageByte = dctx.hostageByte
      /\ d.expected = dctx.expected /\ d.inBuffSize = dctx.inBuffSize
      /\ d.outBuff = dctx.outBuff /\ d.decodedSize = dctx.decodedSize
  BY <1>1, <1>5 DEF ZShape
<1>7. ZShape(d)
  BY <1>1, <1>4, <1>6 DEF ZShape
<1>8. Len(d.header) <= call.src + n
  BY <1>1, <1>3, <1>4, <1>6
<1> QED
  BY <1>1, <1>6, <1>7, <1>8 DEF ZStages

LEMMA LoadHeaderOK ==
  ASSUME ZInv, Z!LoadHeader
  PROVE  ZInv'
<1> DEFINE h == Z!getFrameHeader(dctx.header)
           had == Len(dctx.header)
           toLoad == h - had
           dAll == [dctx EXCEPT !.header = @ \o Z!Take(Z!Input)]
           hint == Z!Max({HeaderPrefix + 1, h}) - had - Z!Input + BlockHeader
           dMore == [dctx EXCEPT !.header = @ \o Z!Take(toLoad)]
<1>1. /\ call.busy /\ dctx.streamStage = "loadHeader"
      /\ \/ h = -1 /\ Z!Fail(dctx, fault)
         \/ h > 0 /\ toLoad > Z!Input /\ Z!Give(dAll, call, call.end, hint)
         \/ h > 0 /\ toLoad <= Z!Input /\ Z!Continue(dMore, Z!Skip(toLoad))
  BY DEF Z!LoadHeader, Z!Stage
<1>2. /\ ZShape(dctx) /\ frame \in Frames /\ frame.fmt # "lz4" /\ CallOK(frame, fed, call)
      /\ Z!Input \in Nat /\ Z!Input = call.end - call.src /\ call.src \in Nat
      /\ call.end \in Nat /\ call.end <= Len(Streams[frame])
  BY <1>1, ZTyped
<1>3. had \in Nat
  BY <1>2 DEF ZShape, IsSeq
<1>4. /\ h \in Int /\ h <= ZHeaderMax /\ ZHeaderMax \in Nat
      /\ h > 0 => had < h
  BY <1>2, <1>3, HeaderLimits
<1> HIDE DEF h
<1>5. CASE h = -1 /\ Z!Fail(dctx, fault)
  BY <1>2, <1>5, ZFails
<1>6. CASE h > 0 /\ toLoad > Z!Input /\ Z!Give(dAll, call, call.end, hint)
  <2>1. had + Z!Input <= ZHeaderMax
    BY <1>2, <1>3, <1>4, <1>6
  <2>2. ZShape(dAll) /\ ZStages(frame, dAll, call.src + Z!Input)
    <3>1. Z!Input <= Z!Input
      BY <1>2
    <3> QED
      BY <3>1, <2>1, <1>1, <1>2, HeaderGrows
  <2>3. call.src + Z!Input = call.end
    BY <1>2
  <2>4. h <= Z!Max({HeaderPrefix + 1, h}) /\ Z!Max({HeaderPrefix + 1, h}) \in Int
    BY <1>4, MaxOfTwo, ZCopies, Sizes
  <2>5. hint \in Int /\ hint > 0
    <3> DEFINE m == Z!Max({HeaderPrefix + 1, h})
               k == Z!Input
    <3>1. /\ h \in Int /\ had \in Nat /\ k \in Nat /\ m \in Int /\ h <= m /\ h - had > k
          /\ BlockHeader \in Nat /\ hint = m - had - k + BlockHeader
      BY <2>4, <1>2, <1>3, <1>4, <1>6, Sizes
    <3> HIDE DEF m, k, had, hint
    <3> QED
      BY <3>1
  <2> HIDE DEF dAll, hint
  <2>6. hint >= 0 /\ ~(hint = 0)
    BY <2>5
  <2> QED
    BY <2>2, <2>3, <2>5, <2>6, <1>2, <1>6, ZGives
<1>7. CASE h > 0 /\ toLoad <= Z!Input /\ Z!Continue(dMore, Z!Skip(toLoad))
  <2>1. toLoad \in Nat /\ had + toLoad <= ZHeaderMax
    BY <1>3, <1>4, <1>7
  <2> HIDE DEF toLoad
  <2>2. ZShape(dMore) /\ ZStages(frame, dMore, call.src + toLoad)
    BY <2>1, <1>1, <1>7, HeaderGrows
  <2>3. /\ CallOK(frame, fed, Z!Skip(toLoad)) /\ Z!Skip(toLoad).busy
        /\ Z!Skip(toLoad).src = call.src + toLoad
    BY <2>1, <1>1, <1>7, ZTaken
  <2> HIDE DEF dMore
  <2>4. ZStages(frame, dMore, Z!Skip(toLoad).src)
    BY <2>2, <2>3
  <2> QED
    BY <2>2, <2>3, <2>4, <1>1, <1>7, ZContinues
<1> QED
  BY <1>1, <1>5, <1>6, <1>7

(* ZSTD_decompressBegin()                                                  *)
LEMMA BegunOK ==
  ASSUME NEW d, ZShape(d), NEW e, e = Z!decompressBegin(d)
  PROVE  /\ ZShape(e) /\ e.streamStage = d.streamStage /\ e.stage = "getFrameHeaderSize"
         /\ e.header = d.header /\ e.inPos = d.inPos /\ e.inBuff = d.inBuff
         /\ e.outStart = d.outStart /\ e.outEnd = d.outEnd /\ e.hostageByte = d.hostageByte
         /\ e.inBuffSize = d.inBuffSize /\ e.outBuff = d.outBuff
<1>1. /\ DOMAIN e = DOMAIN d /\ e.streamStage = d.streamStage /\ e.stage = "getFrameHeaderSize"
      /\ e.header = d.header /\ e.inPos = d.inPos /\ e.inBuff = d.inBuff
      /\ e.outStart = d.outStart /\ e.outEnd = d.outEnd /\ e.hostageByte = d.hostageByte
      /\ e.inBuffSize = d.inBuffSize /\ e.outBuff = d.outBuff /\ e.decodedSize = 0
      /\ e.expected = HeaderPrefix
  BY DEF ZShape, Z!decompressBegin
<1>2. ZShape(e)
  BY <1>1, Sizes DEF ZShape
<1> QED
  BY <1>1, <1>2

LEMMA HeaderCompleteOK ==
  ASSUME ZInv, Z!HeaderComplete
  PROVE  /\ call.busy /\ ZShape(dctx) /\ dctx.inPos = 0 /\ dctx.inBuff = <<>>
         /\ dctx.outStart = 0 /\ dctx.outEnd = 0 /\ dctx.hostageByte = FALSE
         /\ call.src \in Nat /\ call.src >= 1 /\ frame \in Frames /\ frame.fmt # "lz4"
<1>1. /\ call.busy /\ dctx.streamStage = "loadHeader"
      /\ Z!getFrameHeader(dctx.header) = 0
  BY DEF Z!HeaderComplete, Z!Stage
<1>2. /\ ZShape(dctx) /\ ZStages(frame, dctx, call.src) /\ call.src \in Nat
      /\ frame \in Frames /\ frame.fmt # "lz4"
  BY <1>1, ZTyped
<1>3. /\ dctx.inPos = 0 /\ dctx.inBuff = <<>> /\ dctx.outStart = 0 /\ dctx.outEnd = 0
      /\ ~dctx.hostageByte /\ Len(dctx.header) <= call.src /\ Len(dctx.header) \in Nat
      /\ dctx.hostageByte \in BOOLEAN
  BY <1>1, <1>2 DEF ZShape, ZStages, IsSeq
<1>4. HeaderPrefix <= Len(dctx.header)
  BY <1>1, <1>2, <1>3, HeaderLimits
<1> QED
  BY <1>1, <1>2, <1>3, <1>4, Sizes


(* ZSTD_decompress_usingDDict() writes no more than the room there is.     *)
LEMMA SinglePassOK ==
  ASSUME ZInv, Z!SinglePass
  PROVE  ZInv'
<1> DEFINE size == Z!Size(frame)
           good == Z!IsIntact(frame)
           b == Z!decompressBegin(dctx)
           d == [b EXCEPT !.streamStage = "init", !.expected = 0]
           data == IF good THEN Z!Content(0, size) ELSE Z!Garbage(size)
           c == [call EXCEPT !.src = Z!StreamLength(frame), !.dst = data]
<1>1. /\ Z!HeaderComplete /\ Z!SinglePassMode
      /\ \/ Z!Fail(b, fault)
         \/ size <= Z!Room /\ size = frame.declared /\ Z!Finish(d, c)
  BY DEF Z!SinglePass
<1>2. /\ call.busy /\ ZShape(dctx) /\ dctx.inPos = 0 /\ dctx.inBuff = <<>>
      /\ dctx.outStart = 0 /\ dctx.outEnd = 0 /\ frame \in Frames /\ frame.fmt # "lz4"
  BY <1>1, HeaderCompleteOK
<1>3. /\ ZShape(b) /\ b.stage = "getFrameHeaderSize" /\ b.inPos = 0 /\ b.inBuff = <<>>
      /\ b.outStart = 0 /\ b.outEnd = 0
  BY <1>2, BegunOK
<1> HIDE DEF b
<1>4. CASE Z!Fail(b, fault)
  BY <1>3, <1>4, ZFails
<1>5. CASE size <= Z!Room /\ size = frame.declared /\ Z!Finish(d, c)
  <2>1. /\ DOMAIN d = DOMAIN b /\ d.streamStage = "init" /\ d.expected = 0
        /\ d.stage = b.stage /\ d.header = b.header /\ d.inPos = b.inPos
        /\ d.inBuff = b.inBuff /\ d.outStart = b.outStart /\ d.outEnd = b.outEnd
        /\ d.hostageByte = b.hostageByte /\ d.inBuffSize = b.inBuffSize
        /\ d.outBuff = b.outBuff /\ d.decodedSize = b.decodedSize
    BY <1>3 DEF ZShape
  <2> HIDE DEF d
  <2>2. ZShape(d)
    BY <2>1, <1>3 DEF ZShape
  <2>3. /\ fed = 0 /\ call.end >= StreamLength(frame) /\ frame.declared >= 0
        /\ Z!StreamLength(frame) = StreamLength(frame)
    BY <1>1, ZStreams DEF Z!SinglePassMode, Z!WholeFrame, Z!StreamLength, StreamLength
  <2>4. size \in Nat
    BY <2>3, <1>2, <1>5, ZstdFrameTyped
  <2> HIDE DEF size
  <2>5. IsSeq(data) /\ Len(data) = size
    BY <2>4, Copies, ZCopies
  <2> HIDE DEF data
  <2>6. /\ StreamLength(frame) \in Nat /\ CallOK(frame, fed, call) /\ call.room \in Nat
        /\ Len(call.dst) \in Nat /\ Z!Room = call.room - Len(call.dst) /\ call.end \in Nat
        /\ call.end <= Len(Streams[frame])
    BY <1>2, StreamTyped, ZTyped
  <2>7. /\ DOMAIN c = DOMAIN call /\ c.busy = call.busy /\ c.src = StreamLength(frame)
        /\ c.end = call.end /\ c.dst = data /\ c.room = call.room /\ c.null = call.null
    BY <2>3, <2>6 DEF CallOK
  <2> HIDE DEF c
  <2>8. Len(data) <= call.room
    BY <2>4, <2>5, <2>6, <1>5
  <2>9. CallOK(frame, fed, c) /\ c.busy
    BY <2>3, <2>5, <2>6, <2>7, <2>8, <1>2 DEF CallOK
  <2>10. ZStages(frame, d, c.src)
    BY <2>1 DEF ZStages
  <2>11. /\ ~(d.expected > 0) /\ d.streamStage = "init" /\ d.inPos = 0 /\ d.inBuff = <<>>
         /\ d.stage # "decompressBlock" /\ d.outStart = d.outEnd
    BY <2>1, <1>3
  <2> QED
    BY <2>2, <2>9, <2>10, <2>11, <1>2, <1>5, FinishOK
<1> QED
  BY <1>1, <1>4, <1>5

(* ZSTD_decodeFrameHeader() and the sizes of the buffers.                  *)
LEMMA WindowsTyped ==
  ASSUME NEW f \in Frames, f.fmt # "lz4"
  PROVE  /\ Z!windowSize(f) \in Nat /\ Z!frameContentSize(f) \in Nat
         /\ Z!blockSizeMax(f) \in Nat
<1>1. /\ f.skippable \in BOOLEAN /\ f.single \in BOOLEAN /\ f.declared \in Int
      /\ f.size \in Nat /\ f.window \in Nat
      /\ f.single => f.declared \in Nat
  BY ZstdFrameTyped
<1>2. Z!windowSize(f) \in Nat
  BY <1>1 DEF Z!windowSize
<1>3. Z!frameContentSize(f) \in Nat
  BY <1>1 DEF Z!frameContentSize, Z!Unknown
<1>4. Z!blockSizeMax(f) \in Nat
  BY <1>1, <1>2, MinOfTwo, ZCopies, Sizes DEF Z!blockSizeMax
<1> QED
  BY <1>2, <1>3, <1>4

LEMMA BuffersTyped ==
  ASSUME frame \in Frames, frame.fmt # "lz4"
  PROVE  Z!neededInBuffSize \in Nat /\ Z!neededOutBuffSize \in Nat
<1>1. /\ Z!windowSize(frame) \in Nat /\ Z!frameContentSize(frame) \in Nat
      /\ Z!blockSizeMax(frame) \in Nat
  BY WindowsTyped
<1>2. Z!neededInBuffSize \in Nat
  BY <1>1, MaxOfTwo, ZCopies, Sizes DEF Z!neededInBuffSize
<1>3. Z!Window \in Nat
  <2> DEFINE w == IF frame.skippable THEN 0 ELSE Z!windowSize(frame)
  <2>1. w \in Nat
    BY <1>1
  <2>2. Z!Window = Max({w, WindowMin})
    BY ZCopies DEF Z!Window
  <2> HIDE DEF w
  <2> QED
    BY <2>1, <2>2, MaxOfTwo, Sizes
<1>4. Z!neededOutBuffSize \in Nat
  <2> DEFINE m == Min({Z!Window, BlockSizeMax})
             k == Z!Window + m + 2 * Overlength
  <2>1. m \in Nat
    BY <1>3, MinOfTwo, Sizes
  <2> HIDE DEF m
  <2>2. k \in Nat
    BY <2>1, <1>3, Sizes
  <2>3. Z!neededOutBuffSize = Min({Z!frameContentSize(frame), k})
    BY ZCopies DEF Z!neededOutBuffSize, Z!decodingBufferSize, m
  <2> HIDE DEF k
  <2> QED
    BY <2>2, <2>3, <1>1, MinOfTwo
<1> QED
  BY <1>2, <1>4

LEMMA MeasuredOK ==
  ASSUME ZInv, Z!HeaderComplete, NEW e, e = Z!Measured
  PROVE  /\ ZShape(e) /\ e.inPos = 0 /\ e.inBuff = <<>> /\ e.outStart = 0 /\ e.outEnd = 0
         /\ e.stage # "decompressBlock"
<1> DEFINE b == Z!decompressBegin(dctx)
           k == IF Z!oversized THEN b.oversizedDuration + 1 ELSE 0
           d == [b EXCEPT !.oversizedDuration = k, !.xxh = <<>>]
           eSkip == [d EXCEPT !.expected = frame.size, !.stage = "skipFrame"]
           eNext == [d EXCEPT !.expected = BlockHeader, !.stage = "decodeBlockHeader"]
<1>1. e = IF frame.skippable THEN eSkip ELSE eNext
  BY DEF Z!Measured, Z!nextBlock
<1>2. /\ ZShape(dctx) /\ dctx.inPos = 0 /\ dctx.inBuff = <<>> /\ dctx.outStart = 0
      /\ dctx.outEnd = 0 /\ frame \in Frames /\ frame.fmt # "lz4"
  BY HeaderCompleteOK
<1>3. /\ ZShape(b) /\ b.inPos = 0 /\ b.inBuff = <<>> /\ b.outStart = 0 /\ b.outEnd = 0
  BY <1>2, BegunOK
<1> HIDE DEF b, k
<1>4. /\ DOMAIN d = DOMAIN b /\ d.streamStage = b.streamStage /\ d.header = b.header
      /\ d.inPos = 0 /\ d.inBuff = <<>> /\ d.outStart = 0 /\ d.outEnd = 0
      /\ d.hostageByte = b.hostageByte /\ d.inBuffSize = b.inBuffSize
      /\ d.outBuff = b.outBuff /\ d.decodedSize = b.decodedSize /\ d.expected = b.expected
  BY <1>3 DEF ZShape
<1> HIDE DEF d
<1>5. ZShape(d)
  BY <1>3, <1>4 DEF ZShape
<1>6. ASSUME NEW x \in {eSkip, eNext}
      PROVE  /\ DOMAIN x = DOMAIN d /\ x.streamStage = d.streamStage /\ x.header = d.header
             /\ x.inPos = 0 /\ x.inBuff = <<>> /\ x.outStart = 0 /\ x.outEnd = 0
             /\ x.hostageByte = d.hostageByte /\ x.inBuffSize = d.inBuffSize
             /\ x.outBuff = d.outBuff /\ x.decodedSize = d.decodedSize
             /\ x.expected \in {frame.size, BlockHeader}
             /\ x.stage \in {"skipFrame", "decodeBlockHeader"}
  BY <1>4, <1>5 DEF ZShape
<1>7. frame.size \in Nat /\ BlockHeader \in Nat
  BY <1>2, ZstdFrameTyped, Sizes
<1>8. e \in {eSkip, eNext}
  BY <1>1
<1> HIDE DEF eSkip, eNext
<1>9. /\ DOMAIN e = DOMAIN d /\ e.streamStage = d.streamStage /\ e.header = d.header
      /\ e.inPos = 0 /\ e.inBuff = <<>> /\ e.outStart = 0 /\ e.outEnd = 0
      /\ e.hostageByte = d.hostageByte /\ e.inBuffSize = d.inBuffSize
      /\ e.outBuff = d.outBuff /\ e.decodedSize = d.decodedSize
      /\ e.expected \in Nat /\ e.stage \in {"skipFrame", "decodeBlockHeader"}
  BY <1>6, <1>7, <1>8
<1>10. ZShape(e)
  BY <1>5, <1>9, <1>4 DEF ZShape
<1> QED
  BY <1>9, <1>10

LEMMA BeginFrameOK ==
  ASSUME ZInv, Z!BeginFrame
  PROVE  ZInv'
<1> DEFINE b == Z!decompressBegin(dctx)
           m == Z!Measured
           k == Z!neededOutBuffSize
           d1 == [m EXCEPT !.streamStage = "read"]
           d2 == [m EXCEPT !.streamStage = "read", !.inBuffSize = Z!neededInBuffSize,
                           !.outBuff = Z!Garbage(k)]
<1>1. /\ Z!HeaderComplete
      /\ Z!Fail(b, fault) \/ Z!Continue(d1, call) \/ Z!Continue(d2, call)
  BY DEF Z!BeginFrame
<1>2. /\ call.busy /\ ZShape(dctx) /\ call.src \in Nat /\ call.src >= 1
      /\ frame \in Frames /\ frame.fmt # "lz4" /\ CallOK(frame, fed, call)
  BY <1>1, HeaderCompleteOK, ZTyped
<1>3. CASE Z!Fail(b, fault)
  <2>1. ZShape(b)
    BY <1>2, BegunOK
  <2> HIDE DEF b
  <2> QED
    BY <2>1, <1>3, ZFails
<1>4. /\ ZShape(m) /\ m.inPos = 0 /\ m.inBuff = <<>> /\ m.outStart = 0 /\ m.outEnd = 0
      /\ m.stage # "decompressBlock"
  BY <1>1, MeasuredOK
<1>5. Z!neededInBuffSize \in Nat /\ k \in Nat
  BY <1>2, BuffersTyped
<1> HIDE DEF m, k
<1>6. Len(Z!Garbage(k)) = k /\ DOMAIN Z!Garbage(k) = 1 .. k
  BY <1>5, ZCopies DEF Garbage
<1>7. /\ DOMAIN d1 = DOMAIN m /\ d1.streamStage = "read" /\ d1.header = m.header
      /\ d1.inPos = 0 /\ d1.inBuff = <<>> /\ d1.outStart = 0 /\ d1.outEnd = 0
      /\ d1.hostageByte = m.hostageByte /\ d1.inBuffSize = m.inBuffSize
      /\ d1.outBuff = m.outBuff /\ d1.decodedSize = m.decodedSize
      /\ d1.expected = m.expected /\ d1.stage = m.stage
  BY <1>4 DEF ZShape
<1>8. /\ DOMAIN d2 = DOMAIN m /\ d2.streamStage = "read" /\ d2.header = m.header
      /\ d2.inPos = 0 /\ d2.inBuff = <<>> /\ d2.outStart = 0 /\ d2.outEnd = 0
      /\ d2.hostageByte = m.hostageByte /\ d2.inBuffSize = Z!neededInBuffSize
      /\ d2.outBuff = Z!Garbage(k) /\ d2.decodedSize = m.decodedSize
      /\ d2.expected = m.expected /\ d2.stage = m.stage
  BY <1>4 DEF ZShape
<1> HIDE DEF d1, d2
<1>9. ZShape(d1) /\ ZStages(frame, d1, call.src)
  <2>1. ZShape(d1)
    BY <1>4, <1>7 DEF ZShape
  <2> QED
    BY <2>1, <1>2, <1>4, <1>7 DEF ZShape, ZStages
<1>10. ZShape(d2) /\ ZStages(frame, d2, call.src)
  <2>1. ZShape(d2)
    BY <1>4, <1>5, <1>6, <1>8, EmptyIsSeq DEF ZShape
  <2> QED
    BY <2>1, <1>2, <1>4, <1>8 DEF ZShape, ZStages
<1>11. CASE Z!Continue(d1, call)
  BY <1>2, <1>9, <1>11, ZContinues
<1>12. CASE Z!Continue(d2, call)
  BY <1>2, <1>10, <1>12, ZContinues
<1> QED
  BY <1>1, <1>3, <1>11, <1>12

LEMMA ZstdAllocationFailsOK ==
  ASSUME ZInv, Z!AllocationFails
  PROVE  ZInv'
<1> DEFINE m == Z!Measured
           d == [m EXCEPT !.inBuffSize = 0, !.outBuff = <<>>]
<1>1. Z!HeaderComplete /\ Z!Fail(d, "oom")
  BY DEF Z!AllocationFails
<1>2. ZShape(m) /\ m.inPos = 0 /\ m.inBuff = <<>> /\ m.outStart = 0 /\ m.outEnd = 0
  BY <1>1, MeasuredOK
<1> HIDE DEF m
<1>3. /\ DOMAIN d = DOMAIN m /\ d.streamStage = m.streamStage /\ d.header = m.header
      /\ d.inPos = 0 /\ d.inBuff = <<>> /\ d.outStart = 0 /\ d.outEnd = 0
      /\ d.hostageByte = m.hostageByte /\ d.inBuffSize = 0 /\ d.outBuff = <<>>
      /\ d.decodedSize = m.decodedSize /\ d.expected = m.expected
  BY <1>2 DEF ZShape
<1>4. Len(d.outBuff) = 0 /\ DOMAIN d.outBuff = 1 .. 0
  BY <1>3
<1> HIDE DEF d
<1>5. ZShape(d)
  BY <1>2, <1>3, <1>4, EmptyIsSeq DEF ZShape
<1> QED
  BY <1>1, <1>5, ZFails


-----------------------------------------------------------------------------
(* ZSTD_decompressContinue()                                               *)

(* e is d but for where the decoder is in the frame.                       *)
Steady(e, d) ==
  /\ DOMAIN e = DOMAIN d /\ e.streamStage = d.streamStage /\ e.header = d.header
  /\ e.inBuff = d.inBuff /\ e.inPos = d.inPos /\ e.inBuffSize = d.inBuffSize
  /\ e.outStart = d.outStart /\ e.outEnd = d.outEnd /\ e.hostageByte = d.hostageByte
  /\ Len(e.outBuff) = Len(d.outBuff) /\ DOMAIN e.outBuff = DOMAIN d.outBuff

AtBlock(d) == d.stage = "decompressBlock" => d.block \in DOMAIN frame.blocks

(* What a stage may return: the bytes it claims to have written are in the *)
(* ring.                                                                   *)
ResultOK(r, d) ==
  /\ ZShape(r.d)
  /\ r.ok => /\ Steady(r.d, d) /\ AtBlock(r.d)
             /\ r.n \in Nat /\ d.outStart + r.n <= Len(d.outBuff)

LEMMA SteadyShape ==
  ASSUME NEW d, ZShape(d), NEW e, Steady(e, d), e.expected \in Nat, e.decodedSize \in Nat
  PROVE  ZShape(e)
BY DEF ZShape, Steady

LEMMA SteadyTrans ==
  ASSUME NEW a, NEW b, NEW c, Steady(a, b), Steady(b, c)
  PROVE  Steady(a, c)
BY DEF Steady

LEMMA ErrorOK ==
  ASSUME NEW d, NEW e, ZShape(e), NEW r \in Z!Error(e)
  PROVE  ResultOK(r, d)
<1>1. r = [ok |-> FALSE, d |-> e, n |-> 0]
  BY DEF Z!Error
<1>2. ~r.ok /\ r.d = e
  BY <1>1
<1> QED
  BY <1>2 DEF ResultOK

LEMMA DoneOK ==
  ASSUME NEW d, NEW e, ZShape(e), Steady(e, d), AtBlock(e), NEW n \in Nat,
         d.outStart + n <= Len(d.outBuff), NEW r \in Z!Done(e, n)
  PROVE  ResultOK(r, d)
<1>1. r = [ok |-> TRUE, d |-> e, n |-> n]
  BY DEF Z!Done
<1>2. r.d = e /\ r.n = n
  BY <1>1
<1> QED
  BY <1>2 DEF ResultOK

LEMMA NothingWritten ==
  ASSUME NEW d, ZShape(d)
  PROVE  0 \in Nat /\ d.outStart + 0 <= Len(d.outBuff)
BY DEF ZShape

LEMMA ContinuityOK ==
  ASSUME NEW d, ZShape(d), NEW dst, NEW size, NEW e, e = Z!checkContinuity(d, dst, size)
  PROVE  /\ Steady(e, d) /\ ZShape(e) /\ e.stage = d.stage /\ e.block = d.block
         /\ e.expected = d.expected /\ e.decodedSize = d.decodedSize /\ e.outBuff = d.outBuff
<1> DEFINE v == dst - (d.previousDstEnd - d.prefixStart)
           x == [d EXCEPT !.dictEnd = d.previousDstEnd, !.virtualStart = v,
                          !.prefixStart = dst, !.previousDstEnd = dst]
<1>1. e = d \/ e = x
  BY DEF Z!checkContinuity
<1> HIDE DEF v
<1>2. /\ DOMAIN x = DOMAIN d /\ x.streamStage = d.streamStage /\ x.header = d.header
      /\ x.inBuff = d.inBuff /\ x.inPos = d.inPos /\ x.inBuffSize = d.inBuffSize
      /\ x.outStart = d.outStart /\ x.outEnd = d.outEnd /\ x.hostageByte = d.hostageByte
      /\ x.outBuff = d.outBuff /\ x.stage = d.stage /\ x.block = d.block
      /\ x.expected = d.expected /\ x.decodedSize = d.decodedSize
  BY DEF ZShape
<1> HIDE DEF x
<1>3. /\ Steady(e, d) /\ e.stage = d.stage /\ e.block = d.block
      /\ e.expected = d.expected /\ e.decodedSize = d.decodedSize /\ e.outBuff = d.outBuff
  BY <1>1, <1>2 DEF Steady
<1>4. e.expected \in Nat /\ e.decodedSize \in Nat
  BY <1>3 DEF ZShape
<1> QED
  BY <1>3, <1>4, SteadyShape

(* The next stage is set, with the bytes it expects.                       *)
LEMMA StageSet ==
  ASSUME NEW d, ZShape(d), NEW n \in Nat, NEW s, s # "decompressBlock",
         NEW e, e = [d EXCEPT !.expected = n, !.stage = s]
  PROVE  Steady(e, d) /\ ZShape(e) /\ AtBlock(e)
<1>1. /\ DOMAIN e = DOMAIN d /\ e.streamStage = d.streamStage /\ e.header = d.header
      /\ e.inBuff = d.inBuff /\ e.inPos = d.inPos /\ e.inBuffSize = d.inBuffSize
      /\ e.outStart = d.outStart /\ e.outEnd = d.outEnd /\ e.hostageByte = d.hostageByte
      /\ e.outBuff = d.outBuff /\ e.stage = s /\ e.expected = n
      /\ e.decodedSize = d.decodedSize
  BY DEF ZShape
<1>2. Steady(e, d) /\ AtBlock(e)
  BY <1>1 DEF Steady, AtBlock
<1>3. e.expected \in Nat /\ e.decodedSize \in Nat
  BY <1>1 DEF ZShape
<1> QED
  BY <1>2, <1>3, SteadyShape

LEMMA BlocksGoOn ==
  ASSUME NEW d, ZShape(d), NEW e, e = Z!endOfBlocks(d) \/ e = Z!nextBlock(d)
  PROVE  Steady(e, d) /\ ZShape(e) /\ AtBlock(e)
<1> DEFINE e1 == [d EXCEPT !.expected = CheckSize, !.stage = "checkChecksum"]
           e2 == [d EXCEPT !.expected = 0, !.stage = "getFrameHeaderSize"]
           e3 == [d EXCEPT !.expected = BlockHeader, !.stage = "decodeBlockHeader"]
<1>1. e = e1 \/ e = e2 \/ e = e3
  BY DEF Z!endOfBlocks, Z!nextBlock
<1>2. CheckSize \in Nat /\ BlockHeader \in Nat /\ 0 \in Nat
  BY Sizes
<1>3. CASE e = e1
  BY <1>2, <1>3, StageSet
<1>4. CASE e = e2
  BY <1>2, <1>4, StageSet
<1>5. CASE e = e3
  BY <1>2, <1>5, StageSet
<1> QED
  BY <1>1, <1>3, <1>4, <1>5

LEMMA ZBlockHeaderOK ==
  ASSUME frame \in Frames, frame.fmt # "lz4", NEW d, ZShape(d),
         NEW bytes \in Seq(Tokens(frame)), NEW r \in Z!decodeBlockHeader(d, bytes)
  PROVE  ResultOK(r, d)
<1> DEFINE b == bytes[1][2]
           blk == frame.blocks[b]
           bad == ~Z!Reads(bytes, "header") \/ blk.type = "reserved"
                    \/ blk.size > Z!blockSizeMax(frame)
           e == [d EXCEPT !.expected = blk.size, !.block = b, !.stage = "decompressBlock"]
           g == IF Z!IsLast(b) THEN Z!endOfBlocks(d) ELSE Z!nextBlock(d)
<1>1. r \in IF bad THEN Z!Error(d) ELSE IF blk.size > 0 THEN Z!Done(e, 0) ELSE Z!Done(g, 0)
  BY DEF Z!decodeBlockHeader
<1>2. 0 \in Nat /\ d.outStart + 0 <= Len(d.outBuff)
  BY NothingWritten
<1>3. CASE bad
  BY <1>1, <1>3, ErrorOK
<1>4. CASE ~bad
  <2>1. Reads(bytes, "header")
    BY <1>4, ZNames
  <2>2. b \in DOMAIN frame.blocks
    BY <2>1, BlockRead
  <2>3. blk.size \in Nat
    BY <2>2, ZstdFrameTyped
  <2> DEFINE z == blk.size
  <2> HIDE DEF b, g
  <2>4. CASE blk.size > 0
    <3>1. e = [d EXCEPT !.expected = z, !.block = b, !.stage = "decompressBlock"] /\ z \in Nat
      BY <2>3
    <3> HIDE DEF z
    <3>2. /\ DOMAIN e = DOMAIN d /\ e.streamStage = d.streamStage /\ e.header = d.header
          /\ e.inBuff = d.inBuff /\ e.inPos = d.inPos /\ e.inBuffSize = d.inBuffSize
          /\ e.outStart = d.outStart /\ e.outEnd = d.outEnd
          /\ e.hostageByte = d.hostageByte /\ e.outBuff = d.outBuff
          /\ e.block = b /\ e.expected = z /\ e.decodedSize = d.decodedSize
      BY <3>1 DEF ZShape
    <3>3. r \in Z!Done(e, 0)
      BY <1>1, <1>4, <2>4
    <3> HIDE DEF e
    <3>4. Steady(e, d) /\ AtBlock(e)
      BY <3>2, <2>2 DEF Steady, AtBlock
    <3>5. ZShape(e)
      <4>1. e.expected \in Nat /\ e.decodedSize \in Nat
        BY <3>1, <3>2 DEF ZShape
      <4> QED
        BY <4>1, <3>4, SteadyShape
    <3> QED
      BY <3>3, <3>4, <3>5, <1>2, DoneOK
  <2>5. CASE ~(blk.size > 0)
    <3>1. r \in Z!Done(g, 0)
      BY <1>1, <1>4, <2>5
    <3>2. Steady(g, d) /\ ZShape(g) /\ AtBlock(g)
      BY BlocksGoOn DEF g
    <3> QED
      BY <3>1, <3>2, <1>2, DoneOK
  <2> QED
    BY <2>4, <2>5
<1> QED
  BY <1>3, <1>4


(* ZSTD_copyRawBlock(), ZSTD_setRleBlock() and                             *)
(* ZSTD_decompressBlock_internal() stay within what is left of the ring.   *)
LEMMA BlockFits ==
  ASSUME NEW d, ZShape(d), NEW blk, blk.units \in Nat, NEW n \in Nat,
         NEW x \in Z!decompressBlock(d, blk) \cup Z!copyBlock(d, blk, n), x.ok
  PROVE  /\ IsSeq(x.data) /\ Len(x.data) \in Nat /\ d.outStart + Len(x.data) <= Len(d.outBuff)
         /\ x \in Z!copyBlock(d, blk, n) => Len(x.data) = n
<1>1. /\ d.outStart \in Nat /\ Len(d.outBuff) \in Nat /\ d.decodedSize \in Nat
      /\ Z!outBuffSize(d) = Len(d.outBuff)
  BY DEF ZShape, Z!outBuffSize
<1>2. \A k \in Nat : /\ IsSeq(Z!Garbage(k)) /\ Len(Z!Garbage(k)) = k
                     /\ IsSeq(Z!Content(d.decodedSize, k)) /\ Len(Z!Content(d.decodedSize, k)) = k
  BY Copies, ZCopies
<1>3. ASSUME x \in Z!copyBlock(d, blk, n)
      PROVE  IsSeq(x.data) /\ Len(x.data) = n /\ d.outStart + n <= Len(d.outBuff)
  <2>1. ~(n > Len(d.outBuff) - d.outStart)
    BY <1>1, <1>3 DEF Z!copyBlock
  <2>2. x = [ok |-> TRUE, data |-> IF blk.bad THEN Z!Garbage(n) ELSE Z!Content(d.decodedSize, n)]
    BY <1>1, <1>3, <2>1 DEF Z!copyBlock
  <2>3. x.data = Z!Garbage(n) \/ x.data = Z!Content(d.decodedSize, n)
    BY <2>2
  <2>4. IsSeq(x.data) /\ Len(x.data) = n
    BY <2>3, <1>2
  <2> QED
    BY <2>1, <2>4, <1>1
<1>4. ASSUME x \in Z!decompressBlock(d, blk)
      PROVE  IsSeq(x.data) /\ Len(x.data) = blk.units /\ d.outStart + blk.units <= Len(d.outBuff)
  <2> DEFINE reach(i) == 1 .. Z!Min({Z!windowSize(frame), d.decodedSize + i})
             good == ~blk.bad /\ \A i \in 0 .. blk.units - 1, k \in 1 .. Z!windowSize(frame) :
                                    k \in reach(i) => Z!Remembers(d, i, k)
             full == blk.units > Z!outBuffSize(d) - d.outStart
             fails == {[ok |-> FALSE, data |-> <<>>]}
             fine == {[ok |-> TRUE, data |-> IF good THEN Z!Content(d.decodedSize, blk.units)
                                             ELSE Z!Garbage(blk.units)]}
  <2>1. x \in IF full THEN fails ELSE (IF good THEN {} ELSE fails) \cup fine
    BY <1>4 DEF Z!decompressBlock
  <2> HIDE DEF good
  <2>2. ~full /\ x \in fine
    BY <2>1
  <2>3. x.data = Z!Garbage(blk.units) \/ x.data = Z!Content(d.decodedSize, blk.units)
    BY <2>2
  <2>4. IsSeq(x.data) /\ Len(x.data) = blk.units
    BY <2>3, <1>2
  <2> QED
    BY <2>2, <2>4, <1>1
<1> QED
  BY <1>3, <1>4

LEMMA DecodeBlockOK ==
  ASSUME frame \in Frames, frame.fmt # "lz4", NEW d, ZShape(d), d.block \in DOMAIN frame.blocks,
         NEW bytes, Len(bytes) \in Nat, Len(bytes) <= d.expected,
         NEW r \in Z!decodeBlock(d, bytes)
  PROVE  ResultOK(r, d)
<1> DEFINE blk == frame.blocks[d.block]
           n == Len(bytes)
           raw == blk.type = "raw"
           size == IF raw THEN n ELSE blk.units
           results == IF blk.type = "compressed" THEN Z!decompressBlock(d, blk)
                      ELSE Z!copyBlock(d, blk, size)
           Ring(data) == [k \in DOMAIN d.outBuff |->
                            IF k - 1 \in d.outStart .. d.outStart + Len(data) - 1
                            THEN data[k - d.outStart]
                            ELSE IF blk.type = "compressed"
                                    /\ k - 1 \in Z!Touched(d, d.outStart, Len(data))
                            THEN 0 ELSE d.outBuff[k]]
           rest == IF raw THEN d.expected - n ELSE 0
           Sum(data) == IF frame.ccheck THEN d.xxh \o data ELSE d.xxh
           Decoded(data) == [d EXCEPT !.outBuff = Ring(data), !.expected = rest,
                                      !.decodedSize = @ + Len(data), !.xxh = Sum(data),
                                      !.previousDstEnd = d.outStart + Len(data)]
           Finished(e) ==
             IF e.expected > 0 THEN Z!Done(e, n)
             ELSE IF ~Z!IsLast(d.block) THEN Z!Done(Z!nextBlock(e), e.decodedSize - d.decodedSize)
             ELSE IF Z!frameContentSize(frame) \notin {Z!Unknown, e.decodedSize} THEN Z!Error(e)
             ELSE Z!Done(Z!endOfBlocks(e), e.decodedSize - d.decodedSize)
           Of(x) == IF ~x.ok \/ Len(x.data) > Z!blockSizeMax(frame) THEN Z!Error(d)
                    ELSE Finished(Decoded(x.data))
<1>1. r \in UNION {Of(x) : x \in results}
  BY DEF Z!decodeBlock
<1> HIDE DEF Of, results
<1>2. PICK x \in results : r \in Of(x)
  BY <1>1
<1> USE DEF Of, results
<1>3. /\ d.expected \in Nat /\ d.outStart \in Nat /\ Len(d.outBuff) \in Nat
      /\ d.decodedSize \in Nat /\ DOMAIN d.outBuff = 1 .. Len(d.outBuff)
  BY DEF ZShape
<1>4. blk.units \in Nat /\ size \in Nat /\ rest \in Nat
  BY <1>3, ZstdFrameTyped
<1>5. CASE ~x.ok \/ Len(x.data) > Z!blockSizeMax(frame)
  BY <1>2, <1>5, ErrorOK
<1>6. CASE ~(~x.ok \/ Len(x.data) > Z!blockSizeMax(frame))
  <2> DEFINE data == x.data
             e == Decoded(data)
             out0 == Ring(data)
             sum == Sum(data)
             end == d.outStart + Len(data)
  <2>1. r \in Finished(e)
    BY <1>2, <1>6
  <2>2. /\ IsSeq(data) /\ Len(data) \in Nat /\ d.outStart + Len(data) <= Len(d.outBuff)
        /\ rest > 0 => Len(data) = n
    <3>1. x \in Z!decompressBlock(d, blk) \cup Z!copyBlock(d, blk, size) /\ x.ok
      BY <1>6
    <3>2. rest > 0 => x \in Z!copyBlock(d, blk, size) /\ size = n
      OBVIOUS
    <3> HIDE DEF blk, size, rest, results
    <3> QED
      BY <3>1, <3>2, <1>4, BlockFits
  <2>3. DOMAIN out0 = 1 .. Len(d.outBuff) /\ Len(out0) = Len(d.outBuff)
    BY <1>3
  <2>4. e = [d EXCEPT !.outBuff = out0, !.expected = rest, !.decodedSize = d.decodedSize + Len(data),
                      !.xxh = sum, !.previousDstEnd = end]
    OBVIOUS
  <2> HIDE DEF out0, sum, end, rest, data, Decoded, Ring, Sum, blk
  <2>5. /\ DOMAIN e = DOMAIN d /\ e.streamStage = d.streamStage /\ e.header = d.header
        /\ e.inBuff = d.inBuff /\ e.inPos = d.inPos /\ e.inBuffSize = d.inBuffSize
        /\ e.outStart = d.outStart /\ e.outEnd = d.outEnd /\ e.hostageByte = d.hostageByte
        /\ e.outBuff = out0 /\ e.stage = d.stage /\ e.block = d.block /\ e.expected = rest
        /\ e.decodedSize = d.decodedSize + Len(data)
    BY <2>4 DEF ZShape
  <2> HIDE DEF e
  <2>6. Steady(e, d) /\ AtBlock(e)
    BY <2>3, <2>5, <1>3 DEF Steady, AtBlock
  <2>7. ZShape(e)
    <3>1. e.expected \in Nat /\ e.decodedSize \in Nat
      BY <2>2, <2>5, <1>3, <1>4
    <3> QED
      BY <3>1, <2>6, SteadyShape
  <2>8. CASE e.expected > 0
    <3>1. r \in Z!Done(e, n)
      BY <2>1, <2>8
    <3>2. n \in Nat /\ d.outStart + n <= Len(d.outBuff)
      BY <2>2, <2>5, <2>8
    <3> HIDE DEF n
    <3> QED
      BY <3>1, <3>2, <2>6, <2>7, DoneOK
  <2>9. CASE ~(e.expected > 0)
    <3> DEFINE m == e.decodedSize - d.decodedSize
               g1 == Z!nextBlock(e)
               g2 == Z!endOfBlocks(e)
    <3>1. r \in Z!Done(g1, m) \/ r \in Z!Error(e) \/ r \in Z!Done(g2, m)
      BY <2>1, <2>9
    <3>2. m = Len(data)
      BY <2>2, <2>5, <1>3
    <3>3. m \in Nat /\ d.outStart + m <= Len(d.outBuff)
      BY <3>2, <2>2
    <3>4. Steady(g1, e) /\ ZShape(g1) /\ AtBlock(g1) /\ Steady(g2, e) /\ ZShape(g2) /\ AtBlock(g2)
      BY <2>7, BlocksGoOn
    <3> HIDE DEF m, g1, g2
    <3>5. Steady(g1, d) /\ Steady(g2, d)
      BY <3>4, <2>6, SteadyTrans
    <3>6. CASE r \in Z!Error(e)
      BY <3>6, <2>7, ErrorOK
    <3>7. CASE r \in Z!Done(g1, m)
      BY <3>3, <3>4, <3>5, <3>7, DoneOK
    <3>8. CASE r \in Z!Done(g2, m)
      BY <3>3, <3>4, <3>5, <3>8, DoneOK
    <3> QED
      BY <3>1, <3>6, <3>7, <3>8
  <2> QED
    BY <2>8, <2>9
<1> QED
  BY <1>5, <1>6

LEMMA StageDone ==
  ASSUME NEW d, ZShape(d),
         NEW r \in Z!Done([d EXCEPT !.expected = 0, !.stage = "getFrameHeaderSize"], 0)
  PROVE  ResultOK(r, d)
<1> DEFINE e == [d EXCEPT !.expected = 0, !.stage = "getFrameHeaderSize"]
<1>1. 0 \in Nat /\ d.outStart + 0 <= Len(d.outBuff)
  BY NothingWritten
<1>2. Steady(e, d) /\ ZShape(e) /\ AtBlock(e)
  BY <1>1, StageSet
<1>3. r \in Z!Done(e, 0)
  OBVIOUS
<1> HIDE DEF e
<1> QED
  BY <1>1, <1>2, <1>3, DoneOK

(* The bytes that are handed over are a field that was read, and no more   *)
(* than was expected.                                                      *)
LEMMA DecompressContinueOK ==
  ASSUME frame \in Frames, frame.fmt # "lz4", NEW d0, ZShape(d0), AtBlock(d0),
         NEW bytes \in Seq(Tokens(frame)),
         d0.stage = "decompressBlock" => Len(bytes) <= d0.expected,
         NEW r \in Z!decompressContinue(d0, bytes)
  PROVE  ResultOK(r, d0)
<1> DEFINE size == IF Z!isSkipFrame(d0) THEN 0 ELSE Z!outBuffSize(d0) - d0.outStart
           d == Z!checkContinuity(d0, d0.outStart, size)
           last == [d EXCEPT !.expected = 0, !.stage = "getFrameHeaderSize"]
<1>1. r \in CASE d.stage = "decodeBlockHeader" -> Z!decodeBlockHeader(d, bytes)
              [] d.stage = "decompressBlock" -> Z!decodeBlock(d, bytes)
              [] d.stage = "checkChecksum" -> Z!checkChecksum(d, bytes)
              [] OTHER -> Z!Done(last, 0)
  BY DEF Z!decompressContinue
<1>2. /\ Steady(d, d0) /\ ZShape(d) /\ d.stage = d0.stage /\ d.block = d0.block
      /\ d.expected = d0.expected
  BY ContinuityOK
<1> HIDE DEF d
<1>3. ResultOK(r, d)
  <2>1. CASE d.stage = "decodeBlockHeader"
    <3>1. r \in Z!decodeBlockHeader(d, bytes)
      BY <1>1, <2>1
    <3> QED
      BY <3>1, <1>2, ZBlockHeaderOK
  <2>2. CASE d.stage = "decompressBlock"
    <3>1. r \in Z!decodeBlock(d, bytes)
      BY <1>1, <2>2
    <3>2. d.block \in DOMAIN frame.blocks /\ Len(bytes) <= d.expected /\ Len(bytes) \in Nat
      BY <1>2, <2>2 DEF AtBlock
    <3> QED
      BY <3>1, <3>2, <1>2, DecodeBlockOK
  <2>3. CASE d.stage = "checkChecksum"
    <3>1. r \in Z!checkChecksum(d, bytes)
      BY <1>1, <2>3
    <3>2. r \in Z!Error(d) \/ r \in Z!Done(last, 0)
      BY <3>1 DEF Z!checkChecksum
    <3> QED
      BY <3>2, <1>2, ErrorOK, StageDone
  <2>4. CASE d.stage \notin {"decodeBlockHeader", "decompressBlock", "checkChecksum"}
    <3>1. r \in Z!Done(last, 0)
      BY <1>1, <2>4
    <3> QED
      BY <3>1, <1>2, StageDone
  <2> QED
    BY <2>1, <2>2, <2>3, <2>4
<1>4. r.ok => Steady(r.d, d0)
  BY <1>2, <1>3, SteadyTrans DEF ResultOK
<1> QED
  BY <1>2, <1>3, <1>4 DEF ResultOK, Steady


-----------------------------------------------------------------------------
(* zdss_read, zdss_load, zdss_flush                                        *)

LEMMA ContinueStreamOK ==
  ASSUME ZInv, call.busy, NEW d, ZShape(d), AtBlock(d), d.inPos = 0, d.inBuff = <<>>,
         d.outStart = d.outEnd, NEW bytes \in Seq(Tokens(frame)),
         d.stage = "decompressBlock" => Len(bytes) <= d.expected,
         NEW c, CallOK(frame, fed, c), c.busy, d.hostageByte \/ c.src >= 1,
         Z!decompressContinueStream(d, bytes, c)
  PROVE  ZInv'
<1>1. PICK r \in Z!decompressContinue(d, bytes) :
        IF ~r.ok THEN Z!Fail(r.d, fault)
        ELSE IF r.n = 0 /\ ~Z!isSkipFrame(d)
        THEN Z!Continue([r.d EXCEPT !.streamStage = "read"], c)
        ELSE Z!Continue([r.d EXCEPT !.outEnd = r.d.outStart + r.n, !.streamStage = "flush"], c)
  BY DEF Z!decompressContinueStream
<1>2. frame \in Frames /\ frame.fmt # "lz4"
  BY ZTyped
<1>3. ResultOK(r, d)
  BY <1>2, DecompressContinueOK
<1> DEFINE g == r.d
           end == g.outStart + r.n
           d1 == [g EXCEPT !.streamStage = "read"]
           d2 == [g EXCEPT !.outEnd = end, !.streamStage = "flush"]
<1>4. CASE ~r.ok
  <2>1. ZShape(g) /\ Z!Fail(g, fault)
    BY <1>1, <1>3, <1>4 DEF ResultOK
  <2> QED
    BY <2>1, ZFails
<1>5. CASE r.ok
  <2>1. /\ ZShape(g) /\ Steady(g, d) /\ AtBlock(g) /\ r.n \in Nat
        /\ d.outStart + r.n <= Len(d.outBuff)
    BY <1>3, <1>5 DEF ResultOK
  <2>2. Z!Continue(d1, c) \/ Z!Continue(d2, c)
    BY <1>1, <1>5
  <2> HIDE DEF g
  <2>3. /\ g.outStart = d.outStart /\ g.outEnd = d.outEnd /\ g.inPos = 0 /\ g.inBuff = <<>>
        /\ g.hostageByte = d.hostageByte /\ Len(g.outBuff) = Len(d.outBuff)
        /\ d.outStart \in Nat /\ g.expected \in Nat
    BY <2>1 DEF Steady, ZShape
  <2>4. end \in Nat /\ g.outStart <= end /\ end <= Len(g.outBuff)
    BY <2>1, <2>3
  <2> HIDE DEF end
  <2>5. /\ ZSame(d1, g) /\ d1.streamStage = "read" /\ d1.hostageByte = g.hostageByte
    BY <2>1 DEF ZShape, ZSame
  <2>6. /\ DOMAIN d2 = DOMAIN g /\ d2.streamStage = "flush" /\ d2.outEnd = end
        /\ d2.stage = g.stage /\ d2.block = g.block /\ d2.expected = g.expected
        /\ d2.header = g.header /\ d2.inBuff = g.inBuff /\ d2.inPos = g.inPos
        /\ d2.inBuffSize = g.inBuffSize /\ d2.outBuff = g.outBuff
        /\ d2.outStart = g.outStart /\ d2.decodedSize = g.decodedSize
        /\ d2.hostageByte = g.hostageByte
    BY <2>1 DEF ZShape
  <2> HIDE DEF d1, d2
  <2>7. ZShape(d1) /\ ZShape(d2)
    <3>1. ZShape(d1)
      BY <2>1, <2>5 DEF ZShape, ZSame
    <3>2. ZShape(d2)
      BY <2>1, <2>4, <2>6 DEF ZShape
    <3> QED
      BY <3>1, <3>2
  <2>8. ZStages(frame, d1, c.src)
    BY <2>1, <2>3, <2>5 DEF ZStages, ZSame, AtBlock
  <2>9. ZStages(frame, d2, c.src)
    BY <2>1, <2>3, <2>6 DEF ZStages, AtBlock
  <2> QED
    BY <2>2, <2>7, <2>8, <2>9, ZContinues
<1> QED
  BY <1>4, <1>5

LEMMA NextSrcSize ==
  ASSUME NEW d, ZShape(d), NEW input \in Nat, NEW m, m = Z!nextSrcSize(d, input)
  PROVE  m \in Nat /\ m <= d.expected /\ (m = 0 => d.expected = 0)
<1>1. d.expected \in Nat
  BY DEF ZShape
<1> DEFINE k == Z!Max({input, 1})
<1>2. k \in Nat /\ k >= 1
  BY MaxOfTwo, ZCopies
<1>3. m = Z!Min({k, d.expected}) \/ m = d.expected
  BY DEF Z!nextSrcSize
<1> HIDE DEF k
<1>4. Z!Min({k, d.expected}) = IF k <= d.expected THEN k ELSE d.expected
  BY <1>1, <1>2, MinOfTwo, ZCopies
<1> QED
  BY <1>1, <1>2, <1>3, <1>4

LEMMA ReadInputOK ==
  ASSUME ZInv, Z!ReadInput
  PROVE  ZInv'
<1> DEFINE needed == Z!nextSrcSize(dctx, Z!Input)
           dInit == [dctx EXCEPT !.streamStage = "init"]
           dLoad == [dctx EXCEPT !.streamStage = "load"]
<1>1. /\ call.busy /\ dctx.streamStage = "read"
      /\ IF needed = 0 THEN Z!Finish(dInit, call)
         ELSE IF Z!Input >= needed
         THEN Z!decompressContinueStream(dctx, Z!Take(needed), Z!Skip(needed))
         ELSE IF Z!Input = 0 THEN Z!Finish(dctx, call)
         ELSE Z!Continue(dLoad, call)
  BY DEF Z!ReadInput, Z!Stage
<1>2. /\ ZShape(dctx) /\ ZStages(frame, dctx, call.src) /\ CallOK(frame, fed, call)
      /\ Z!Input \in Nat /\ call.src \in Nat
  BY <1>1, ZTyped
<1>3. needed \in Nat /\ needed <= dctx.expected /\ (needed = 0 => dctx.expected = 0)
  BY <1>2, NextSrcSize
<1> HIDE DEF needed
<1>4. /\ dctx.inPos = 0 /\ dctx.inBuff = <<>> /\ dctx.outStart = dctx.outEnd
      /\ dctx.hostageByte \/ call.src >= 1
      /\ AtBlock(dctx) /\ dctx.expected \in Nat /\ dctx.hostageByte \in BOOLEAN
  BY <1>1, <1>2 DEF ZStages, ZShape, AtBlock
<1>5. /\ ZSame(dInit, dctx) /\ dInit.streamStage = "init" /\ dInit.hostageByte = dctx.hostageByte
      /\ ZSame(dLoad, dctx) /\ dLoad.streamStage = "load" /\ dLoad.hostageByte = dctx.hostageByte
  BY <1>2 DEF ZShape, ZSame
<1> HIDE DEF dInit, dLoad
<1>6. CASE needed = 0
  <2>1. Z!Finish(dInit, call) /\ dctx.expected = 0
    BY <1>1, <1>3, <1>6
  <2>2. ZShape(dInit)
    BY <1>2, <1>5 DEF ZShape, ZSame
  <2>3. ZStages(frame, dInit, call.src)
    BY <1>5 DEF ZStages
  <2>4. /\ ~(dInit.expected > 0) /\ dInit.inPos = 0 /\ dInit.inBuff = <<>>
        /\ dInit.outStart = dInit.outEnd
        /\ dInit.stage = "decompressBlock" => dInit.block \in DOMAIN frame.blocks
    BY <2>1, <1>4, <1>5 DEF ZSame, AtBlock
  <2> QED
    BY <2>1, <2>2, <2>3, <2>4, <1>1, <1>2, <1>5, FinishOK
<1>7. CASE needed # 0 /\ Z!Input >= needed
  <2>1. Z!decompressContinueStream(dctx, Z!Take(needed), Z!Skip(needed))
    BY <1>1, <1>7
  <2>2. needed <= Z!Input
    BY <1>2, <1>3, <1>7
  <2>3. /\ Z!Take(needed) \in Seq(Tokens(frame)) /\ Len(Z!Take(needed)) = needed
        /\ CallOK(frame, fed, Z!Skip(needed)) /\ Z!Skip(needed).busy
        /\ Z!Skip(needed).src = call.src + needed
    BY <2>2, <1>1, <1>3, ZTaken
  <2>4. dctx.hostageByte \/ Z!Skip(needed).src >= 1
    BY <2>3, <1>2, <1>3, <1>4
  <2>5. Len(Z!Take(needed)) <= dctx.expected
    BY <2>3, <1>3
  <2> QED
    BY <2>1, <2>3, <2>4, <2>5, <1>1, <1>2, <1>4, ContinueStreamOK
<1>8. CASE needed # 0 /\ ~(Z!Input >= needed) /\ Z!Input = 0
  <2>1. Z!Finish(dctx, call)
    BY <1>1, <1>8
  <2>2. ~(dctx.expected = 0) /\ dctx.inPos < dctx.expected
    BY <1>3, <1>4, <1>8
  <2> QED
    BY <2>1, <2>2, <1>1, <1>2, <1>4, FinishOK
<1>9. CASE needed # 0 /\ ~(Z!Input >= needed) /\ Z!Input # 0
  <2>1. Z!Continue(dLoad, call)
    BY <1>1, <1>9
  <2>2. ZShape(dLoad)
    BY <1>2, <1>5 DEF ZShape, ZSame
  <2>3. /\ dLoad.inBuff \in Seq(Tokens(frame)) /\ Len(dLoad.inBuff) = 0 /\ dLoad.inPos = 0
        /\ dLoad.expected \in Nat
    BY <1>4, <1>5 DEF ZSame
  <2>4. ZStages(frame, dLoad, call.src)
    BY <2>3, <1>4, <1>5 DEF ZStages, ZSame, AtBlock
  <2> QED
    BY <2>1, <2>2, <2>4, <1>1, <1>2, ZContinues
<1> QED
  BY <1>6, <1>7, <1>8, <1>9

LEMMA LoadInputOK ==
  ASSUME ZInv, Z!LoadInput
  PROVE  ZInv'
<1> DEFINE toLoad == dctx.expected - dctx.inPos
           n == Z!Min({toLoad, Z!Input})
           skip == Z!isSkipFrame(dctx)
           in == IF skip THEN dctx.inBuff ELSE dctx.inBuff \o Z!Take(n)
           pos == dctx.inPos + n
           d == [dctx EXCEPT !.inPos = pos, !.inBuff = in]
           e == [d EXCEPT !.inPos = 0, !.inBuff = <<>>]
           c == Z!Skip(n)
<1>1. /\ call.busy /\ dctx.streamStage = "load"
      /\ IF ~skip /\ toLoad > dctx.inBuffSize - dctx.inPos THEN Z!Fail(dctx, fault)
         ELSE IF n < toLoad THEN Z!Finish(d, c)
         ELSE Z!decompressContinueStream(e, d.inBuff, c)
  BY DEF Z!LoadInput, Z!Stage
<1>2. /\ ZShape(dctx) /\ ZStages(frame, dctx, call.src) /\ CallOK(frame, fed, call)
      /\ Z!Input \in Nat /\ call.src \in Nat
  BY <1>1, ZTyped
<1>3. /\ dctx.inPos \in Nat /\ dctx.expected \in Nat /\ dctx.inPos <= dctx.expected
      /\ dctx.inBuffSize \in Nat /\ dctx.outStart = dctx.outEnd /\ AtBlock(dctx)
      /\ dctx.hostageByte \/ call.src >= 1
      /\ dctx.inBuff \in Seq(Tokens(frame))
      /\ Len(dctx.inBuff) = (IF dctx.stage = "skipFrame" THEN 0 ELSE dctx.inPos)
      /\ Len(dctx.inBuff) <= dctx.inBuffSize
  BY <1>1, <1>2 DEF ZStages, ZShape, AtBlock
<1>4. n \in Nat /\ n <= Z!Input /\ n <= toLoad /\ toLoad \in Nat
  <2>1. toLoad \in Nat
    BY <1>3
  <2> QED
    BY <2>1, <1>2, MinOfTwo, ZCopies
<1> HIDE DEF n
<1>5. /\ Z!Take(n) \in Seq(Tokens(frame)) /\ Len(Z!Take(n)) = n /\ CallOK(frame, fed, c)
      /\ c.busy /\ c.src = call.src + n
  BY <1>1, <1>4, ZTaken
<1>6. skip <=> dctx.stage = "skipFrame"
  BY DEF Z!isSkipFrame
<1>7. pos \in Nat /\ pos <= dctx.expected
  BY <1>3, <1>4
<1>8. /\ in \in Seq(Tokens(frame)) /\ Len(in) = (IF dctx.stage = "skipFrame" THEN 0 ELSE pos)
      /\ Len(in) \in Nat
  <2>1. CASE dctx.stage = "skipFrame"
    BY <2>1, <1>3, <1>6
  <2>2. CASE dctx.stage # "skipFrame"
    <3>1. in = dctx.inBuff \o Z!Take(n)
      BY <2>2, <1>6
    <3>2. in \in Seq(Tokens(frame)) /\ Len(in) = Len(dctx.inBuff) + n
      <4> HIDE DEF in
      <4>1. IsSeq(dctx.inBuff) /\ IsSeq(Z!Take(n))
        BY <1>3, <1>5, SeqIsSeq
      <4>2. Len(in) = Len(dctx.inBuff) + n
        BY <4>1, <3>1, <1>5, Joined
      <4>3. in \in Seq(Tokens(frame))
        BY <3>1, <1>3, <1>5, JoinedTyped
      <4> QED
        BY <4>2, <4>3
    <3> HIDE DEF in
    <3> QED
      BY <3>2, <2>2, <1>3, <1>4
  <2> QED
    BY <2>1, <2>2
<1>9. /\ DOMAIN d = DOMAIN dctx /\ d.streamStage = "load" /\ d.stage = dctx.stage
      /\ d.block = dctx.block /\ d.expected = dctx.expected /\ d.header = dctx.header
      /\ d.inBuff = in /\ d.inPos = pos /\ d.inBuffSize = dctx.inBuffSize
      /\ d.outBuff = dctx.outBuff /\ d.outStart = dctx.outStart /\ d.outEnd = dctx.outEnd
      /\ d.decodedSize = dctx.decodedSize /\ d.hostageByte = dctx.hostageByte
  BY <1>1, <1>2 DEF ZShape
<1>10. /\ DOMAIN e = DOMAIN dctx /\ e.streamStage = "load" /\ e.stage = dctx.stage
       /\ e.block = dctx.block /\ e.expected = dctx.expected /\ e.header = dctx.header
       /\ e.inBuff = <<>> /\ e.inPos = 0 /\ e.inBuffSize = dctx.inBuffSize
       /\ e.outBuff = dctx.outBuff /\ e.outStart = dctx.outStart /\ e.outEnd = dctx.outEnd
       /\ e.decodedSize = dctx.decodedSize /\ e.hostageByte = dctx.hostageByte
  BY <1>1, <1>2 DEF ZShape
<1> HIDE DEF in, e, c
<1>11. CASE ~skip /\ toLoad > dctx.inBuffSize - dctx.inPos
  BY <1>1, <1>2, <1>11, ZFails
<1>12. CASE ~(~skip /\ toLoad > dctx.inBuffSize - dctx.inPos) /\ n < toLoad
  <2>1. Z!Finish(d, c)
    BY <1>1, <1>12
  <2> HIDE DEF d
  <2>2. Len(in) <= dctx.inBuffSize
    <3>1. CASE dctx.stage = "skipFrame"
      BY <3>1, <1>3, <1>8
    <3>2. CASE dctx.stage # "skipFrame"
      BY <3>2, <1>3, <1>4, <1>6, <1>8, <1>12
    <3> QED
      BY <3>1, <3>2
  <2>3. ZShape(d)
    <3>1. IsSeq(in)
      BY <1>8, SeqIsSeq
    <3> HIDE DEF pos
    <3> QED
      BY <3>1, <2>2, <1>2, <1>7, <1>9 DEF ZShape
  <2>4. d.hostageByte \/ c.src >= 1
    BY <1>2, <1>3, <1>4, <1>5, <1>9
  <2>5. d.inPos < d.expected
    BY <1>3, <1>4, <1>9, <1>12
  <2> HIDE DEF pos
  <2>6. ZStages(frame, d, c.src)
    BY <2>4, <1>3, <1>7, <1>8, <1>9 DEF ZStages, AtBlock
  <2>7. ~(d.expected = 0) /\ d.outStart = d.outEnd
    BY <2>5, <1>3, <1>7, <1>9
  <2> QED
    BY <2>1, <2>3, <2>5, <2>6, <2>7, <1>1, <1>5, FinishOK
<1>13. CASE ~(~skip /\ toLoad > dctx.inBuffSize - dctx.inPos) /\ ~(n < toLoad)
  <2>1. Z!decompressContinueStream(e, in, c)
    BY <1>1, <1>9, <1>13
  <2>2. ZShape(e)
    BY <1>2, <1>10, EmptyIsSeq DEF ZShape
  <2>3. AtBlock(e) /\ e.outStart = e.outEnd
    BY <1>3, <1>10 DEF AtBlock
  <2>4. e.stage = "decompressBlock" => Len(in) <= e.expected
    BY <1>7, <1>8, <1>10
  <2>5. e.hostageByte \/ c.src >= 1
    BY <1>2, <1>3, <1>4, <1>5, <1>10
  <2> QED
    BY <2>1, <2>2, <2>3, <2>4, <2>5, <1>1, <1>5, <1>8, <1>10, ContinueStreamOK
<1> QED
  BY <1>11, <1>12, <1>13


LEMMA FlushOutputOK ==
  ASSUME ZInv, Z!FlushOutput
  PROVE  ZInv'
<1> DEFINE toFlush == dctx.outEnd - dctx.outStart
           n == Z!Min({toFlush, Z!Room})
           data == Z!Read(dctx.outBuff, dctx.outStart, n)
           c == [call EXCEPT !.dst = @ \o data]
           from == dctx.outStart + n
           d == [dctx EXCEPT !.outStart = from]
           again == Z!RingRestarts(d)
           start == IF again THEN 0 ELSE d.outStart
           end == IF again THEN 0 ELSE d.outEnd
           e == [d EXCEPT !.streamStage = "read", !.outStart = start, !.outEnd = end]
<1>1. /\ call.busy /\ dctx.streamStage = "flush"
      /\ IF n < toFlush THEN Z!Finish(d, c) ELSE Z!Continue(e, c)
  BY DEF Z!FlushOutput, Z!Stage
<1>2. /\ ZShape(dctx) /\ ZStages(frame, dctx, call.src) /\ CallOK(frame, fed, call)
      /\ call.src \in Nat /\ Z!Room \in Nat /\ Z!Room = call.room - Len(call.dst)
      /\ call.room \in Nat /\ Len(call.dst) \in Nat
  BY <1>1, ZTyped
<1>3. /\ dctx.outStart \in Nat /\ dctx.outEnd \in Nat /\ dctx.outStart <= dctx.outEnd
      /\ dctx.outEnd <= Len(dctx.outBuff) /\ Len(dctx.outBuff) \in Nat
      /\ dctx.inPos = 0 /\ dctx.inBuff = <<>> /\ dctx.expected \in Nat /\ AtBlock(dctx)
      /\ dctx.hostageByte \/ call.src >= 1
  BY <1>1, <1>2 DEF ZShape, ZStages, AtBlock
<1>4. n \in Nat /\ n <= Z!Room /\ n <= toFlush /\ toFlush \in Nat
  <2>1. toFlush \in Nat
    BY <1>3
  <2> QED
    BY <2>1, <1>2, MinOfTwo, ZCopies
<1> HIDE DEF n
<1>5. IsSeq(data) /\ Len(data) = n
  BY <1>4, Copies, ZCopies
<1> HIDE DEF data
<1>6. CallOK(frame, fed, c) /\ c.busy /\ c.src = call.src
  <2>1. Len(data) <= call.room - Len(call.dst)
    BY <1>2, <1>4, <1>5
  <2>2. CallOK(frame, fed, c) /\ c.busy
    BY <2>1, <1>1, <1>2, <1>5, Appended
  <2>3. c.src = call.src
    BY <1>2 DEF CallOK
  <2> QED
    BY <2>2, <2>3
<1>7. /\ DOMAIN d = DOMAIN dctx /\ d.streamStage = "flush" /\ d.stage = dctx.stage
      /\ d.block = dctx.block /\ d.expected = dctx.expected /\ d.header = dctx.header
      /\ d.inBuff = dctx.inBuff /\ d.inPos = dctx.inPos /\ d.inBuffSize = dctx.inBuffSize
      /\ d.outBuff = dctx.outBuff /\ d.outStart = from /\ d.outEnd = dctx.outEnd
      /\ d.decodedSize = dctx.decodedSize /\ d.hostageByte = dctx.hostageByte
  BY <1>1, <1>2 DEF ZShape
<1> HIDE DEF d, c
<1>8. from \in Nat /\ from <= dctx.outEnd /\ (n < toFlush <=> from # dctx.outEnd)
  BY <1>3, <1>4
<1> HIDE DEF from
<1>9. ZShape(d)
  BY <1>2, <1>7, <1>8 DEF ZShape
<1>10. CASE n < toFlush
  <2>1. Z!Finish(d, c)
    BY <1>1, <1>10
  <2>2. ZStages(frame, d, c.src)
    BY <1>3, <1>6, <1>7 DEF ZStages, AtBlock
  <2>3. d.outStart # d.outEnd /\ d.streamStage = "flush"
    BY <1>7, <1>8, <1>10
  <2>4. d.expected > 0 => d.inPos < d.expected
    BY <1>3, <1>7
  <2> QED
    BY <2>1, <2>2, <2>3, <2>4, <1>1, <1>6, <1>9, FinishOK
<1>11. CASE ~(n < toFlush)
  <2>1. Z!Continue(e, c)
    BY <1>1, <1>11
  <2>2. start \in Nat /\ start = end /\ end <= Len(d.outBuff)
    BY <1>3, <1>7, <1>8, <1>11
  <2> HIDE DEF start, end
  <2>3. /\ DOMAIN e = DOMAIN d /\ e.streamStage = "read" /\ e.stage = d.stage
        /\ e.block = d.block /\ e.expected = d.expected /\ e.header = d.header
        /\ e.inBuff = d.inBuff /\ e.inPos = d.inPos /\ e.inBuffSize = d.inBuffSize
        /\ e.outBuff = d.outBuff /\ e.outStart = start /\ e.outEnd = end
        /\ e.decodedSize = d.decodedSize /\ e.hostageByte = d.hostageByte
    BY <1>9 DEF ZShape
  <2> HIDE DEF e
  <2>4. ZShape(e)
    BY <2>2, <2>3, <1>9 DEF ZShape
  <2>5. ZStages(frame, e, c.src)
    BY <2>2, <2>3, <1>3, <1>6, <1>7 DEF ZStages, AtBlock
  <2> QED
    BY <2>1, <2>4, <2>5, <1>1, <1>6, ZContinues
<1> QED
  BY <1>10, <1>11

-----------------------------------------------------------------------------
(* The program that calls ZSTD_decompressStream().                         *)

LEMMA ZEnterOK ==
  ASSUME ZInv, NEW n \in Nat, NEW m \in Nat, Z!Enter(n, m)
  PROVE  ZInv'
<1> DEFINE last == Min({fed + n, Len(Streams[frame])})
<1>1. /\ call' = [busy |-> TRUE, src |-> fed, end |-> last, dst |-> <<>>, room |-> m,
                  null |-> FALSE]
      /\ res > 0 /\ frame' = frame /\ fed' = fed /\ res' = res /\ dctx' = dctx /\ ~call.busy
  BY ZCopies, ZStreams DEF Z!Enter, Z!Idle, Z!NoCall
<1>2. fed \in Nat /\ fed <= Len(Streams[frame]) /\ Len(Streams[frame]) \in Nat
  BY ZTyped
<1>3. last \in Nat /\ fed <= last /\ last <= Len(Streams[frame])
  BY <1>2, MinOfTwo
<1> HIDE DEF last
<1>4. /\ DOMAIN call' = {"busy", "src", "end", "dst", "room", "null"}
      /\ call'.src = fed /\ call'.end = last /\ call'.dst = <<>> /\ call'.room = m
  BY <1>1
<1>5. call'.busy /\ call'.busy \in BOOLEAN /\ call'.null \in BOOLEAN
  BY <1>1
<1>6. IsSeq(call'.dst) /\ Len(call'.dst) = 0
  BY <1>4, EmptyIsSeq
<1>7. CallOK(frame, fed, call')
  BY <1>2, <1>3, <1>4, <1>5, <1>6 DEF CallOK
<1> QED
  BY <1>1, <1>4, <1>5, <1>7 DEF ZInv

LEMMA ZCallOK ==
  ASSUME ZInv, Z!Call
  PROVE  ZInv'
<1>1. PICK n \in Feeds, m \in Rooms : Z!Enter(n, m)
  BY DEF Z!Call
<1>2. n \in Nat /\ m \in Nat
  BY SizesAssumption
<1> QED
  BY <1>1, <1>2, ZEnterOK

LEMMA ZNextFrameOK ==
  ASSUME ZInv, Z!NextFrame
  PROVE  ZInv'
<1>1. ~call.busy /\ res = 0 /\ Z!StartFrame /\ dctx' = dctx
  BY DEF Z!NextFrame, Z!Idle
<1>2. /\ frame.fmt # "lz4" /\ CallOK(frame, fed, call) /\ ZShape(dctx)
      /\ dctx.streamStage = "init"
  BY <1>1 DEF ZInv
<1>3. /\ frame' \in Frames /\ frame'.fmt = frame.fmt /\ fed' \in 0 .. Len(Streams[frame'])
      /\ res' = 1 /\ call' = call /\ CallOK(frame', fed', call)
  BY <1>1, <1>2, StartFrameOK
<1>4. ZStages(frame', dctx, fed')
  BY <1>2 DEF ZStages
<1> QED
  BY <1>1, <1>2, <1>3, <1>4 DEF ZInv

LEMMA ResetSessionOK ==
  ASSUME ZInv, Z!ResetSession
  PROVE  ZInv'
<1> DEFINE d == Z!Reset(dctx)
<1>1. ~call.busy /\ Z!StartFrame /\ dctx' = d
  BY DEF Z!ResetSession, Z!Idle
<1>2. frame.fmt # "lz4" /\ CallOK(frame, fed, call) /\ ZShape(dctx)
  BY DEF ZInv
<1>3. /\ frame' \in Frames /\ frame'.fmt = frame.fmt /\ fed' \in 0 .. Len(Streams[frame'])
      /\ res' = 1 /\ call' = call /\ CallOK(frame', fed', call)
  BY <1>1, <1>2, StartFrameOK
<1>4. ZSame(d, dctx) /\ d.streamStage = "init" /\ d.hostageByte = dctx.hostageByte
  BY <1>2 DEF ZShape, ZSame, Z!Reset
<1> HIDE DEF d
<1>5. ZShape(d) /\ ZStages(frame', d, fed')
  BY <1>2, <1>4 DEF ZShape, ZStages, ZSame
<1> QED
  BY <1>1, <1>2, <1>3, <1>4, <1>5 DEF ZInv

LEMMA ZNextOK ==
  ASSUME ZInv, Z!Next
  PROVE  ZInv'
<1>1. CASE Z!Stages
  BY <1>1, InitStreamOK, LoadHeaderOK, SinglePassOK, BeginFrameOK, ZstdAllocationFailsOK,
     ReadInputOK, LoadInputOK, FlushOutputOK DEF Z!Stages
<1>2. CASE Z!Caller
  BY <1>2, ZCallOK, ZNextFrameOK, ResetSessionOK DEF Z!Caller
<1> QED
  BY <1>1, <1>2 DEF Z!Next

LEMMA ZInitOK ==
  ASSUME Z!Init
  PROVE  ZInv
<1>1. /\ frame \in Frames /\ frame.fmt = "zstd" /\ fed = 0 /\ res = 1 /\ call = NoCall
      /\ dctx = Z!NewContext
  BY DEF Z!Init, Z!Start, Z!NoCall, NoCall
<1>2. Len(Streams[frame]) \in Nat
  BY <1>1, StreamTyped
<1>3. CallOK(frame, fed, call) /\ ~call.busy
  BY <1>1, IdleOK DEF NoCall
<1>4. ZHeaderMax \in Nat
  BY Sizes, MaxOfTwo DEF ZHeaderMax
<1>5. /\ DOMAIN dctx = {"streamStage", "stage", "expected", "block", "header", "inBuff",
                 "inPos", "inBuffSize", "outBuff", "outStart", "outEnd", "prefixStart",
                 "previousDstEnd", "dictEnd", "virtualStart", "decodedSize", "xxh",
                 "hostageByte", "noForwardProgress", "oversizedDuration"}
      /\ dctx.streamStage = "init" /\ dctx.expected = 0 /\ dctx.header = <<>>
      /\ dctx.inBuff = <<>> /\ dctx.inPos = 0 /\ dctx.inBuffSize = 0 /\ dctx.outBuff = <<>>
      /\ dctx.outStart = 0 /\ dctx.outEnd = 0 /\ dctx.decodedSize = 0
      /\ dctx.hostageByte = FALSE
  BY <1>1 DEF Z!NewContext
<1>6. Len(dctx.outBuff) = 0 /\ DOMAIN dctx.outBuff = 1 .. 0
  BY <1>5
<1>9. dctx.hostageByte \in BOOLEAN
  BY <1>5
<1>7. ZShape(dctx)
  BY <1>4, <1>5, <1>6, <1>9, EmptyIsSeq DEF ZShape
<1>8. ZStages(frame, dctx, fed)
  BY <1>5 DEF ZStages
<1> QED
  BY <1>1, <1>2, <1>3, <1>5, <1>7, <1>8 DEF ZInv

LEMMA ZBounded ==
  ASSUME ZInv
  PROVE  Z!TypeOK
<1>1. /\ frame \in Frames /\ fed \in 0 .. Len(Z!Streams[frame]) /\ res >= -1 /\ fed \in Nat
      /\ CallOK(frame, fed, call) /\ ZShape(dctx)
  BY ZTyped, ZStreams DEF ZInv
<1>2. call.busy => Len(call.dst) <= call.room /\ call.src \in fed .. call.end
  BY <1>1 DEF CallOK
<1>3. Len(dctx.header) <= Z!Max({Z!SkipHeader, HeaderPrefix + 1 + SizeField})
  BY <1>1, ZCopies, ZStreams DEF ZShape, ZHeaderMax
<1>4. /\ Len(dctx.inBuff) <= dctx.inBuffSize /\ dctx.outStart \in 0 .. dctx.outEnd
      /\ dctx.outEnd <= Z!outBuffSize(dctx)
  BY <1>1 DEF ZShape, Z!outBuffSize
<1> QED
  BY <1>1, <1>2, <1>3, <1>4 DEF Z!TypeOK

-----------------------------------------------------------------------------
(* Both decoders.                                                          *)

LEMMA StillLZ4 ==
  ASSUME LInv'
  PROVE  CodecInv'
BY DEF CodecInv, LInv, IsLZ4

LEMMA StillZstd ==
  ASSUME ZInv'
  PROVE  CodecInv'
BY DEF CodecInv, ZInv, IsLZ4

LEMMA CodecInit ==
  ASSUME Init
  PROVE  CodecInv
<1>1. ASSUME L!Init PROVE CodecInv
  <2>1. LInv
    BY <1>1, LInitOK
  <2> QED
    BY <2>1 DEF CodecInv, LInv, IsLZ4
<1>2. ASSUME Z!Init PROVE CodecInv
  <2>1. ZInv
    BY <1>2, ZInitOK
  <2> QED
    BY <2>1 DEF CodecInv, ZInv, IsLZ4
<1> QED
  BY <1>1, <1>2 DEF Init

LEMMA CodecStep ==
  ASSUME CodecInv, [Next]_vars
  PROVE  CodecInv'
<1>1. CASE IsLZ4 /\ L!Next
  BY <1>1, LNextOK, StillLZ4 DEF CodecInv
<1>2. CASE ~IsLZ4 /\ Z!Next
  BY <1>2, ZNextOK, StillZstd DEF CodecInv
<1>3. CASE UNCHANGED vars
  BY <1>3 DEF vars, CodecInv, LInv, ZInv, IsLZ4
<1> QED
  BY <1>1, <1>2, <1>3 DEF Next

(* No call of LZ4F_decompress() or ZSTD_decompressStream() stores behind   *)
(* the end of one of the decoder's buffers (tmpIn, header and              *)
(* tmpOutBuffer; headerBuffer, inBuff and outBuff) or of the caller's, or  *)
(* consumes more than it was offered: for every set of frames, damaged or  *)
(* not, every way to cut input and output into calls, every reset and      *)
(* every allocation that fails, and every size of block, window and        *)
(* history the assumptions admit.                                          *)
THEOREM BuffersStayBounded == Spec => []BuffersBounded
<1>1. Init => CodecInv
  BY CodecInit
<1>2. CodecInv /\ [Next]_vars => CodecInv'
  BY CodecStep
<1>3. CodecInv => BuffersBounded
  BY LBounded, ZBounded DEF CodecInv, BuffersBounded
<1> QED
  BY <1>1, <1>2, <1>3, PTL DEF Spec

-----------------------------------------------------------------------------
(* Progress.  A call in progress goes on, breaks off with an error, or     *)
(* returns to a caller who has no input or no room left.                   *)

GoesOn == call'.busy /\ call'.null = call.null /\ call'.room = call.room /\ out' = out

BreaksOff == call' = NoCall /\ res' = -1 /\ out' = out

Returns ==
  \E dst : /\ IsSeq(dst) /\ call' = NoCall /\ out' = out \o dst /\ fed' \in Int
           /\ res' > 0 => fed' >= call.end \/ Len(dst) >= call.room

(* A call without a buffer, which LZ4F_getFrameInfo() makes, has no room.  *)
CallerInv == IsSeq(out) /\ (call.busy /\ call.null => call.room = 0)

(* c is the call in progress with some input taken or some output added.   *)
Onward(c) ==
  /\ DOMAIN c = {"busy", "src", "end", "dst", "room", "null"}
  /\ c.busy /\ c.null = call.null /\ c.room = call.room /\ c.end = call.end /\ IsSeq(c.dst)

Progresses ==
  call.busy /\ ~call'.busy /\ res' > 0 /\ call.end > fed /\ call.room > 0
    => fed' > fed \/ Len(out') > Len(out)

LEMMA TurnOK ==
  ASSUME CallerInv, CallOK(frame, fed, call), fed \in Nat, call.busy,
         GoesOn \/ BreaksOff \/ Returns
  PROVE  CallerInv' /\ Progresses
<1>1. CASE GoesOn
  BY <1>1 DEF GoesOn, CallerInv, Progresses
<1>2. CASE BreaksOff
  <2>1. ~call'.busy /\ ~(res' > 0) /\ out' = out
    BY <1>2 DEF BreaksOff, NoCall
  <2> QED
    BY <2>1 DEF CallerInv, Progresses
<1>3. CASE Returns
  <2>1. PICK dst : /\ IsSeq(dst) /\ call' = NoCall /\ out' = out \o dst /\ fed' \in Int
                   /\ res' > 0 => fed' >= call.end \/ Len(dst) >= call.room
    BY <1>3 DEF Returns
  <2>2. IsSeq(out') /\ Len(out') = Len(out) + Len(dst)
    BY <2>1, Joined DEF CallerInv
  <2>3. Len(out) \in Nat /\ Len(dst) \in Nat /\ call.end \in Nat /\ call.room \in Nat
    BY <2>1 DEF CallerInv, IsSeq, CallOK
  <2>4. ~call'.busy
    BY <2>1 DEF NoCall
  <2> QED
    BY <2>1, <2>2, <2>3, <2>4 DEF CallerInv, Progresses
<1> QED
  BY <1>1, <1>2, <1>3

LEMMA OnwardAsIs ==
  ASSUME NEW f, NEW known, CallOK(f, known, call), call.busy
  PROVE  Onward(call)
BY DEF CallOK, Onward

LEMMA LOnward ==
  ASSUME NEW f, NEW known, CallOK(f, known, call), call.busy, NEW n
  PROVE  Onward(L!Skip(n)) /\ L!Skip(n).src = call.src + n /\ L!Skip(n).dst = call.dst
BY DEF CallOK, Onward, L!Skip

LEMMA OnwardAdds ==
  ASSUME NEW c0, Onward(c0), NEW data, IsSeq(data), NEW c, c = [c0 EXCEPT !.dst = @ \o data]
  PROVE  Onward(c) /\ c.src = c0.src /\ c.dst = c0.dst \o data
         /\ Len(c.dst) = Len(c0.dst) + Len(data)
<1> DEFINE s == c0.dst \o data
<1>1. IsSeq(s) /\ Len(s) = Len(c0.dst) + Len(data)
  BY Joined DEF Onward
<1>2. c = [c0 EXCEPT !.dst = s]
  OBVIOUS
<1>3. s = c0.dst \o data
  OBVIOUS
<1> HIDE DEF s
<1>4. /\ DOMAIN c = DOMAIN c0 /\ c.busy = c0.busy /\ c.src = c0.src /\ c.end = c0.end
      /\ c.dst = s /\ c.room = c0.room /\ c.null = c0.null
  BY <1>2 DEF Onward
<1> QED
  BY <1>1, <1>3, <1>4 DEF Onward

LEMMA LGoesOn ==
  ASSUME NEW d, NEW c, Onward(c), L!Continue(d, c)
  PROVE  GoesOn
BY DEF L!Continue, GoesOn, Onward

LEMMA LBreaksOff ==
  ASSUME NEW d, L!Fail(d)
  PROVE  BreaksOff
BY DEF L!Fail, BreaksOff, L!NoCall, NoCall

LEMMA LReturns ==
  ASSUME NEW d, NEW c, NEW hint, L!Suspend(d, c, hint), IsSeq(c.dst), c.src \in Int,
         hint > 0 => c.src >= call.end \/ Len(c.dst) >= call.room
  PROVE  Returns
<1>1. /\ call' = NoCall /\ out' = out \o c.dst /\ fed' = c.src /\ res' = hint
  BY DEF L!Suspend, L!NoCall, NoCall
<1> QED
  BY <1>1 DEF Returns

LEMMA LCallTyped ==
  ASSUME LInv, call.busy
  PROVE  /\ CallOK(frame, fed, call) /\ Onward(call) /\ IsSeq(call.dst)
         /\ call.src \in Nat /\ call.end \in Nat /\ call.room \in Nat /\ Len(call.dst) \in Nat
         /\ call.src <= call.end /\ Len(call.dst) <= call.room
         /\ L!Input \in Nat /\ L!Input = call.end - call.src
         /\ L!Room \in Nat /\ L!Room = call.room - Len(call.dst)
<1>1. CallOK(frame, fed, call)
  BY LTyped
<1>2. /\ call.src \in Nat /\ call.end \in Nat /\ call.room \in Nat /\ IsSeq(call.dst)
      /\ call.src <= call.end /\ Len(call.dst) <= call.room
  BY <1>1 DEF CallOK
<1>3. Len(call.dst) \in Nat
  BY <1>2 DEF IsSeq
<1> QED
  BY <1>1, <1>2, <1>3, OnwardAsIs DEF L!Input, L!Room

(* A stage that still misses bytes has taken all the input.                *)
LEMMA LMissing ==
  ASSUME LInv, call.busy, NEW want \in Nat, Len(dctx.tmpIn) <= want,
         NEW c, c = L!Skip(L!Missing(want))
  PROVE  /\ Onward(c) /\ c.dst = call.dst /\ IsSeq(c.dst) /\ c.src \in Int
         /\ Len(L!Stored(want)) < want => c.src >= call.end
<1> DEFINE m == L!Missing(want)
<1>1. /\ CallOK(frame, fed, call) /\ call.src \in Nat /\ call.end \in Nat
      /\ L!Input \in Nat /\ L!Input = call.end - call.src
  BY LCallTyped
<1>2. Onward(c) /\ c.src = call.src + m /\ c.dst = call.dst
  BY <1>1, LOnward
<1>3. Len(dctx.tmpIn) \in Nat /\ IsSeq(dctx.tmpIn)
  BY LTyped
<1>4. m = IF want - Len(dctx.tmpIn) <= L!Input THEN want - Len(dctx.tmpIn) ELSE L!Input
  BY <1>1, <1>3, MinOfTwo, LCopies DEF L!Missing
<1>5. m \in Nat /\ m <= L!Input
  BY <1>1, <1>3, <1>4
<1>6. L!Stored(want) = dctx.tmpIn \o L!Take(m)
  BY DEF L!Stored
<1> HIDE DEF m
<1>7. L!Take(m) \in Seq(Tokens(frame)) /\ Len(L!Take(m)) = m
  BY <1>5, LTaken
<1>8. IsSeq(L!Take(m))
  BY <1>7, SeqIsSeq
<1>9. Len(L!Stored(want)) = Len(dctx.tmpIn) + m
  BY <1>3, <1>6, <1>7, <1>8, Joined
<1>10. Len(L!Stored(want)) < want => c.src >= call.end
  BY <1>1, <1>2, <1>3, <1>4, <1>9
<1>11. IsSeq(c.dst)
  BY <1>2 DEF Onward
<1> QED
  BY <1>1, <1>2, <1>5, <1>10, <1>11

Outcome == GoesOn \/ BreaksOff \/ Returns

LEMMA LHeld ==
  ASSUME LInv, call.busy, NEW want \in Nat, Len(dctx.tmpIn) <= want, NEW e, NEW hint,
         Len(L!Stored(want)) < want, L!Suspend(e, L!Skip(L!Missing(want)), hint)
  PROVE  Outcome
<1> DEFINE c == L!Skip(L!Missing(want))
<1>1. IsSeq(c.dst) /\ c.src \in Int /\ c.src >= call.end
  BY LMissing
<1>2. L!Suspend(e, c, hint)
  OBVIOUS
<1> HIDE DEF c
<1>3. Returns
  BY <1>1, <1>2, LReturns
<1> QED
  BY <1>3 DEF Outcome

LEMMA LHeader ==
  ASSUME LInv, call.busy, NEW bytes, NEW stored, NEW c, Onward(c), L!Header(bytes, stored, c)
  PROVE  Outcome
<1> DEFINE h == L!DecodeHeader(dctx, bytes, stored)
<1>1. IF h.ok THEN L!Continue(h.d, IF stored THEN c ELSE L!Skip(h.used)) ELSE L!Fail(dctx)
  BY DEF L!Header
<1> HIDE DEF h
<1>2. CallOK(frame, fed, call)
  BY LCallTyped
<1>3. Onward(L!Skip(h.used))
  BY <1>2, LOnward
<1>4. L!Fail(dctx) \/ L!Continue(h.d, c) \/ L!Continue(h.d, L!Skip(h.used))
  BY <1>1
<1> QED
  BY <1>3, <1>4, LGoesOn, LBreaksOff DEF Outcome

LEMMA LHeaderStages ==
  ASSUME LInv, L!GetFrameHeader \/ L!StoreFrameHeader
  PROVE  Outcome
<1>1. CASE L!GetFrameHeader
  <2>1. call.busy
    BY <1>1 DEF L!GetFrameHeader, L!Stage
  <2>2. /\ Onward(call) /\ IsSeq(call.dst) /\ call.src \in Nat /\ call.end \in Nat
        /\ L!Input = call.end - call.src
    BY <2>1, LCallTyped
  <2>3. CASE L!Header(L!Take(L!Input), FALSE, call)
    BY <2>1, <2>2, <2>3, LHeader
  <2>4. CASE L!Input = 0 /\ L!Suspend([dctx EXCEPT !.tmpIn = <<>>], call, minFHSize)
    <3>1. call.src >= call.end /\ call.src \in Int
      BY <2>2, <2>4
    <3> DEFINE e == [dctx EXCEPT !.tmpIn = <<>>]
    <3>2. L!Suspend(e, call, minFHSize)
      BY <2>4
    <3> HIDE DEF e
    <3> QED
      BY <2>2, <3>1, <3>2, LReturns DEF Outcome
  <2>5. CASE L!Continue([dctx EXCEPT !.tmpIn = <<>>, !.tmpInTarget = minFHSize,
                                     !.dStage = "storeFrameHeader"], call)
    BY <2>2, <2>5, LGoesOn DEF Outcome
  <2> QED
    BY <1>1, <2>3, <2>4, <2>5 DEF L!GetFrameHeader
<1>2. CASE L!StoreFrameHeader
  <2> DEFINE want == dctx.tmpInTarget
             got == L!Stored(want)
             c == L!Skip(L!Missing(want))
  <2>1. call.busy /\ dctx.dStage = "storeFrameHeader"
    BY <1>2 DEF L!StoreFrameHeader, L!Stage
  <2>2. LContext(frame, dctx) /\ want \in Nat
    BY LTyped
  <2>3. Len(dctx.tmpIn) <= want
    BY <2>1, <2>2 DEF LContext, LInput
  <2>4. IF Len(got) < want
        THEN L!Suspend([dctx EXCEPT !.tmpIn = got], c, want - Len(got) + BHSize)
        ELSE L!Header(got, TRUE, c)
    BY <1>2 DEF L!StoreFrameHeader
  <2>5. CASE Len(got) < want
    BY <2>1, <2>2, <2>3, <2>4, <2>5, LHeld
  <2>6. CASE ~(Len(got) < want)
    <3>1. Onward(c)
      BY <2>1, LCallTyped, LOnward
    <3> QED
      BY <2>1, <2>4, <2>6, <3>1, LHeader
  <2> QED
    BY <2>5, <2>6
<1> QED
  BY <1>1, <1>2

LEMMA LBuffersTurn ==
  ASSUME LInv, L!InitBuffers \/ L!AllocationFails
  PROVE  Outcome
<1>1. call.busy
  BY DEF L!InitBuffers, L!AllocationFails, L!Stage
<1>2. Onward(call)
  BY <1>1, LCallTyped
<1>3. CASE L!InitBuffers
  <2>1. \E d : L!Continue(d, call)
    BY <1>3 DEF L!InitBuffers
  <2> QED
    BY <2>1, <1>2, LGoesOn DEF Outcome
<1>4. CASE L!AllocationFails
  <2>1. BreaksOff
    BY <1>4 DEF L!AllocationFails, BreaksOff, L!NoCall, NoCall
  <2> QED
    BY <2>1 DEF Outcome
<1> QED
  BY <1>3, <1>4

LEMMA LBlockHeader ==
  ASSUME LInv, call.busy, NEW bytes, NEW n, NEW c, c = L!Skip(n),
         L!DecodeBlockHeader(bytes, c), n \in Int
  PROVE  Outcome
<1>1. /\ CallOK(frame, fed, call) /\ IsSeq(call.dst) /\ call.src \in Nat
      /\ Len(call.dst) \in Nat /\ call.room \in Nat /\ L!Room = call.room - Len(call.dst)
  BY LCallTyped
<1>2. Onward(c) /\ c.src = call.src + n /\ c.dst = call.dst /\ c.end = call.end
  BY <1>1, LOnward DEF Onward
<1>3. \/ \E d : L!Continue(d, c)
      \/ L!Fail(dctx)
      \/ (L!Room = 0 \/ c.src = c.end) /\ \E d, hint : L!Suspend(d, c, hint)
  BY DEF L!DecodeBlockHeader
<1>4. CASE \E d : L!Continue(d, c)
  BY <1>2, <1>4, LGoesOn DEF Outcome
<1>5. CASE L!Fail(dctx)
  BY <1>5, LBreaksOff DEF Outcome
<1>6. CASE (L!Room = 0 \/ c.src = c.end) /\ \E d, hint : L!Suspend(d, c, hint)
  <2>1. c.src \in Int /\ IsSeq(c.dst) /\ (c.src >= call.end \/ Len(c.dst) >= call.room)
    BY <1>1, <1>2, <1>6
  <2> QED
    BY <1>6, <2>1, LReturns DEF Outcome
<1> QED
  BY <1>3, <1>4, <1>5, <1>6

LEMMA LBlockHeaderStages ==
  ASSUME LInv, L!GetBlockHeader \/ L!StoreBlockHeader
  PROVE  Outcome
<1>1. BHSize \in Nat /\ BHSize \in Int
  BY Sizes
<1>2. CASE L!GetBlockHeader
  <2>1. call.busy
    BY <1>2 DEF L!GetBlockHeader, L!Stage
  <2>2. Onward(call)
    BY <2>1, LCallTyped
  <2>3. \/ L!DecodeBlockHeader(L!Take(BHSize), L!Skip(BHSize))
        \/ \E d : L!Continue(d, call)
    BY <1>2 DEF L!GetBlockHeader
  <2> QED
    BY <1>1, <2>1, <2>2, <2>3, LBlockHeader, LGoesOn DEF Outcome
<1>3. CASE L!StoreBlockHeader
  <2> DEFINE got == L!Stored(BHSize)
             c == L!Skip(L!Missing(BHSize))
  <2>1. call.busy /\ dctx.dStage = "storeBlockHeader"
    BY <1>3 DEF L!StoreBlockHeader, L!Stage
  <2>2. LContext(frame, dctx)
    BY LTyped
  <2>3. Len(dctx.tmpIn) <= BHSize
    BY <2>1, <2>2 DEF LContext, LInput
  <2>4. IF Len(got) < BHSize
        THEN L!Suspend([dctx EXCEPT !.tmpIn = got], c, BHSize - Len(got))
        ELSE L!DecodeBlockHeader(got, c)
    BY <1>3 DEF L!StoreBlockHeader
  <2>5. L!Missing(BHSize) \in Int
    BY <1>1, <2>1, <2>3, LStored
  <2>6. CASE Len(got) < BHSize
    BY <1>1, <2>1, <2>3, <2>4, <2>6, LHeld
  <2>7. CASE ~(Len(got) < BHSize)
    BY <2>1, <2>4, <2>5, <2>7, LBlockHeader
  <2> QED
    BY <2>6, <2>7
<1> QED
  BY <1>2, <1>3

LEMMA LChecks ==
  ASSUME LInv, L!GetBlockChecksum \/ L!StoreSuffix \/ L!GetSuffix
  PROVE  Outcome
<1> DEFINE got == L!Stored(BFSize)
           c == L!Skip(L!Missing(BFSize))
<1>1. BFSize \in Nat
  BY Sizes
<1>2. call.busy
  BY DEF L!GetBlockChecksum, L!StoreSuffix, L!GetSuffix, L!Stage
<1>3. Onward(c) /\ Onward(L!Skip(BFSize)) /\ Onward(call) /\ call.src \in Int
      /\ L!Skip(BFSize).src \in Int /\ LContext(frame, dctx)
  BY <1>1, <1>2, LCallTyped, LOnward, LTyped
<1>4. ASSUME NEW e, NEW c1 \in {c, call, L!Skip(BFSize)}, L!Suspend(e, c1, 0), c1.src \in Int
      PROVE  Outcome
  <2>1. IsSeq(c1.dst)
    BY <1>3 DEF Onward
  <2>2. 0 > 0 => c1.src >= call.end \/ Len(c1.dst) >= call.room
    OBVIOUS
  <2> QED
    BY <1>4, <2>1, <2>2, LReturns DEF Outcome
<1>5. ASSUME Len(dctx.tmpIn) <= BFSize PROVE c.src \in Int
  BY <1>1, <1>2, <1>5, LMissing
<1>6. ASSUME NEW bytes, NEW c1 \in {c, L!Skip(BFSize)}, L!CheckSuffix(bytes, c1), c1.src \in Int
      PROVE  Outcome
  <2>1. L!Suspend(L!ResetDecompressionContext(dctx), c1, 0) \/ L!Fail(dctx)
    BY <1>6 DEF L!CheckSuffix
  <2> QED
    BY <1>4, <1>6, <2>1, LBreaksOff DEF Outcome
<1>7. CASE L!GetBlockChecksum
  <2>1. dctx.dStage = "getBlockChecksum"
    BY <1>7 DEF L!GetBlockChecksum, L!Stage
  <2>2. Len(dctx.tmpIn) <= BFSize
    BY <2>1, <1>3 DEF LContext, LInput
  <2>3. \/ Len(got) < BFSize /\ L!Suspend([dctx EXCEPT !.tmpIn = got], c, 1)
        \/ L!Continue([dctx EXCEPT !.dStage = "getBlockHeader"], c)
        \/ L!Fail(dctx)
    BY <1>7 DEF L!GetBlockChecksum
  <2> QED
    BY <1>1, <1>2, <1>3, <2>2, <2>3, LHeld, LGoesOn, LBreaksOff DEF Outcome
<1>8. CASE L!StoreSuffix
  <2>1. dctx.dStage = "storeSuffix"
    BY <1>8 DEF L!StoreSuffix, L!Stage
  <2>2. Len(dctx.tmpIn) <= BFSize
    BY <2>1, <1>3 DEF LContext, LInput
  <2>3. \/ Len(got) < BFSize /\ L!Suspend([dctx EXCEPT !.tmpIn = got], c, BFSize - Len(got))
        \/ L!CheckSuffix(got, c)
    BY <1>8 DEF L!StoreSuffix
  <2> QED
    BY <1>1, <1>2, <1>5, <1>6, <2>2, <2>3, LHeld
<1>9. CASE L!GetSuffix
  <2>1. \/ L!Fail(dctx)
        \/ L!Suspend(L!ResetDecompressionContext(dctx), call, 0)
        \/ L!Continue([dctx EXCEPT !.tmpIn = <<>>, !.dStage = "storeSuffix"], call)
        \/ L!CheckSuffix(L!Take(BFSize), L!Skip(BFSize))
    BY <1>9 DEF L!GetSuffix
  <2> QED
    BY <1>3, <1>4, <1>6, <2>1, LGoesOn, LBreaksOff DEF Outcome
<1> QED
  BY <1>7, <1>8, <1>9

LEMMA LSkips ==
  ASSUME LInv, L!GetSFrameSize \/ L!StoreSFrameSize \/ L!SkipSkippable
  PROVE  Outcome
<1>1. call.busy
  BY DEF L!GetSFrameSize, L!StoreSFrameSize, L!SkipSkippable, L!Stage
<1>2. /\ CallOK(frame, fed, call) /\ Onward(call) /\ call.src \in Nat /\ call.end \in Nat
      /\ L!Input \in Nat /\ L!Input = call.end - call.src
  BY <1>1, LCallTyped
<1>3. ASSUME NEW n PROVE Onward(L!Skip(n)) /\ L!Skip(n).src = call.src + n
  BY <1>1, <1>2, LOnward
<1>4. ASSUME NEW bytes, NEW n, L!SFrameSize(bytes, L!Skip(n))
      PROVE  Outcome
  <2>1. (\E d : L!Continue(d, L!Skip(n))) \/ L!Fail(dctx)
    BY <1>4 DEF L!SFrameSize
  <2>2. Onward(L!Skip(n))
    BY <1>3
  <2> QED
    BY <2>1, <2>2, LGoesOn, LBreaksOff DEF Outcome
<1>5. dctx.tmpInTarget \in Nat /\ LContext(frame, dctx)
  BY LTyped
<1>6. CASE L!GetSFrameSize
  <2>1. (\E bytes, n : L!SFrameSize(bytes, L!Skip(n))) \/ \E d : L!Continue(d, call)
    BY <1>6 DEF L!GetSFrameSize
  <2> QED
    BY <1>2, <1>4, <2>1, LGoesOn DEF Outcome
<1>7. CASE L!StoreSFrameSize
  <2> DEFINE want == dctx.tmpInTarget
             got == L!Stored(want)
  <2>1. dctx.dStage = "storeSFrameSize"
    BY <1>7 DEF L!StoreSFrameSize, L!Stage
  <2>2. Len(dctx.tmpIn) <= want
    BY <2>1, <1>5 DEF LContext, LInput
  <2>3. \/ Len(got) < want
           /\ L!Suspend([dctx EXCEPT !.tmpIn = got], L!Skip(L!Missing(want)), want - Len(got))
        \/ \E bytes, n : L!SFrameSize(bytes, L!Skip(n))
    BY <1>7 DEF L!StoreSFrameSize
  <2> QED
    BY <1>1, <1>4, <1>5, <2>2, <2>3, LHeld
<1>8. CASE L!SkipSkippable
  <2> DEFINE target == dctx.tmpInTarget
             n == L!Min({target, L!Input})
             d == [dctx EXCEPT !.tmpInTarget = @ - n]
             c == L!Skip(n)
  <2>1. n = IF target <= L!Input THEN target ELSE L!Input
    BY <1>2, <1>5, MinOfTwo, LCopies
  <2>2. L!Suspend(IF d.tmpInTarget = 0 THEN L!ResetDecompressionContext(d) ELSE d, c,
                  d.tmpInTarget)
    BY <1>8 DEF L!SkipSkippable
  <2>3. d.tmpInTarget = target - n
    BY LTyped DEF LShape
  <2>4. Onward(c) /\ c.src = call.src + n
    BY <1>3
  <2> HIDE DEF d, c, n
  <2>5. c.src \in Int /\ (d.tmpInTarget > 0 => c.src >= call.end) /\ IsSeq(c.dst)
    BY <2>1, <2>3, <2>4, <1>2, <1>5 DEF Onward
  <2> QED
    BY <2>2, <2>5, LReturns DEF Outcome
<1> QED
  BY <1>6, <1>7, <1>8

LEMMA LeastOfThree ==
  ASSUME NEW a \in Nat, NEW b \in Nat, NEW c \in Nat, NEW m, m = Min({a, b, c})
  PROVE  m = a \/ m = b \/ m = c
BY DEF Min

(* The history has nothing to do with what a block still has to deliver.   *)
LEMMA UpdateKeeps ==
  ASSUME NEW d, LShape(d), NEW dst, NEW at, NEW n, NEW w, NEW e, e = L!UpdateDict(d, dst, at, n, w)
  PROVE  /\ DOMAIN e = DOMAIN d /\ e.tmpInTarget = d.tmpInTarget
         /\ e.tmpOutStart = d.tmpOutStart /\ e.tmpOutSize = d.tmpOutSize
<1> DEFINE d1 == IF d.dictSize = 0 THEN [d EXCEPT !.dict = "dst", !.dictOff = at] ELSE d
           Like(x) == /\ DOMAIN x = DOMAIN d /\ x.tmpInTarget = d.tmpInTarget
                      /\ x.tmpOutStart = d.tmpOutStart /\ x.tmpOutSize = d.tmpOutSize
<1>1. Like(d1)
  BY DEF LShape
<1>2. \/ \E s : e = [d1 EXCEPT !.dictSize = s]
      \/ \E s : e = [d1 EXCEPT !.dict = "dst", !.dictOff = 0, !.dictSize = s]
      \/ \E b, s : e = [d1 EXCEPT !.tmpOutBuffer = b, !.dict = "tmp", !.dictOff = 0,
                                  !.dictSize = s]
  <2> HIDE DEF d1
  <2> QED
    BY DEF L!UpdateDict, d1
<1> HIDE DEF d1
<1>3. Like(e)
  BY <1>1, <1>2 DEF LShape
<1> QED
  BY <1>3

LEMMA LCopyTurn ==
  ASSUME LInv, CallerInv, L!CopyDirect
  PROVE  Outcome
<1> DEFINE n == IF call.null THEN 0 ELSE L!Min({dctx.tmpInTarget, L!Input, L!Room})
           bytes == L!Take(n)
           data == [k \in 1 .. n |-> L!RawUnit(bytes[k])]
           c == [L!Skip(n) EXCEPT !.dst = @ \o data]
           p == L!Produced(dctx, data)
           sum == IF frame.bcheck THEN p.blockSum \o bytes ELSE p.blockSum
           d1 == [p EXCEPT !.tmpInTarget = @ - n, !.blockSum = sum]
           d2 == IF frame.linked /\ ~call.null
                 THEN L!UpdateDict(d1, c.dst, Len(call.dst), n, FALSE) ELSE d1
<1>1. call.busy
  BY DEF L!CopyDirect, L!Stage
<1>2. /\ frame \in Frames /\ LContext(frame, dctx) /\ dctx.tmpInTarget \in Nat
  BY LTyped
<1>3. /\ CallOK(frame, fed, call) /\ call.src \in Nat /\ call.end \in Nat /\ call.room \in Nat
      /\ L!Input \in Nat /\ L!Input = call.end - call.src /\ Len(call.dst) \in Nat
      /\ L!Room \in Nat /\ L!Room = call.room - Len(call.dst)
  BY <1>1, LCallTyped
<1>4. \/ d2.tmpInTarget > 0 /\ \E d, hint : L!Suspend(d, c, hint)
      \/ \E d : L!Continue(d, c)
  BY DEF L!CopyDirect
<1>5. /\ n \in Nat
      /\ (call.null /\ call.room = 0) \/ n = dctx.tmpInTarget \/ n = L!Input \/ n = L!Room
  <2> DEFINE m == L!Min({dctx.tmpInTarget, L!Input, L!Room})
  <2>1. m = Min({dctx.tmpInTarget, L!Input, L!Room})
    BY LCopies
  <2>2. m \in Nat /\ (m = dctx.tmpInTarget \/ m = L!Input \/ m = L!Room)
    BY <2>1, <1>2, <1>3, MinOfThree, LeastOfThree
  <2>3. call.null => call.room = 0
    BY <1>1 DEF CallerInv
  <2> QED
    BY <2>2, <2>3
<1> HIDE DEF n
<1>6. IsSeq(data) /\ Len(data) = n
  BY <1>5 DEF IsSeq
<1> HIDE DEF data
<1>7. Onward(L!Skip(n)) /\ L!Skip(n).src = call.src + n /\ L!Skip(n).dst = call.dst
  BY <1>1, <1>3, LOnward
<1>8. Onward(c) /\ c.src = call.src + n /\ Len(c.dst) = Len(call.dst) + n /\ IsSeq(c.dst)
  <2> DEFINE c0 == L!Skip(n)
  <2>1. Onward(c0) /\ c0.src = call.src + n /\ c0.dst = call.dst
    BY <1>7
  <2>2. c = [c0 EXCEPT !.dst = @ \o data]
    OBVIOUS
  <2> HIDE DEF c, c0
  <2>3. Onward(c) /\ c.src = c0.src /\ Len(c.dst) = Len(c0.dst) + Len(data)
    BY <1>6, <2>1, <2>2, OnwardAdds
  <2> QED
    BY <2>1, <2>3, <1>6 DEF Onward
<1>9. CASE \E d : L!Continue(d, c)
  BY <1>8, <1>9, LGoesOn DEF Outcome
<1>10. CASE d2.tmpInTarget > 0 /\ \E d, hint : L!Suspend(d, c, hint)
  <2>1. LShape(p) /\ p.tmpInTarget = dctx.tmpInTarget
    BY <1>2, <1>6, ProducedOK DEF LContext
  <2> HIDE DEF p, sum, c
  <2>2. LShape(d1) /\ d1.tmpInTarget = dctx.tmpInTarget - n
    <3>1. d1.tmpInTarget = dctx.tmpInTarget - n
      BY <2>1 DEF LShape
    <3>2. n <= dctx.tmpInTarget
      <4> DEFINE m == L!Min({dctx.tmpInTarget, L!Input, L!Room})
      <4>1. m = Min({dctx.tmpInTarget, L!Input, L!Room})
        BY LCopies
      <4>2. m <= dctx.tmpInTarget
        BY <4>1, <1>2, <1>3, MinOfThree
      <4> QED
        BY <4>2, <1>2 DEF n
    <3>3. dctx.tmpInTarget - n \in Nat
      BY <1>2, <1>5, <3>2
    <3>4. SameMemory(d1, p) /\ d1.dStage = p.dStage /\ d1.tmpIn = p.tmpIn
          /\ d1.frameRemainingSize = p.frameRemainingSize
      BY <2>1 DEF LShape, SameMemory
    <3> HIDE DEF d1
    <3> QED
      BY <2>1, <3>1, <3>3, <3>4 DEF LShape, SameMemory
  <2> HIDE DEF d1
  <2>3. d2.tmpInTarget = dctx.tmpInTarget - n
    <3>1. CASE frame.linked /\ ~call.null
      <4>1. d2 = L!UpdateDict(d1, c.dst, Len(call.dst), n, FALSE)
        BY <3>1
      <4>2. PICK w \in BOOLEAN : w = FALSE
        OBVIOUS
      <4> HIDE DEF d2
      <4>3. d2 = L!UpdateDict(d1, c.dst, Len(call.dst), n, w)
        BY <4>1, <4>2
      <4> QED
        BY <4>3, <2>2, UpdateKeeps
    <3>2. CASE ~(frame.linked /\ ~call.null)
      BY <3>2, <2>2
    <3> QED
      BY <3>1, <3>2
  <2> HIDE DEF d2
  <2>4. n # dctx.tmpInTarget
    BY <1>10, <2>3, <1>2
  <2>5. c.src >= call.end \/ Len(c.dst) >= call.room
    BY <1>3, <1>5, <1>8, <2>4
  <2>6. c.src \in Int
    BY <1>3, <1>5, <1>8
  <2> QED
    BY <1>8, <1>10, <2>5, <2>6, LReturns DEF Outcome
<1> QED
  BY <1>4, <1>9, <1>10

LEMMA LDecodeTurn ==
  ASSUME LInv, call.busy, NEW bytes \in Seq(Tokens(frame)), Len(bytes) = dctx.tmpInTarget,
         dctx.dStage \in {"getCBlock", "storeCBlock"},
         NEW c, Onward(c), L!DecodeCBlock(bytes, c)
  PROVE  Outcome
<1> DEFINE size == dctx.tmpInTarget - L!CrcSize
           data == SubSeq(bytes, 1, size)
<1>1. /\ frame \in Frames /\ frame.fmt = "lz4" /\ LContext(frame, dctx)
      /\ dctx.tmpInTarget \in Nat
  BY LTyped
<1>2. L!CrcSize = LCrc(frame) /\ LCrc(frame) \in Nat
  BY <1>1, LZ4FrameTyped, Sizes DEF L!CrcSize, LCrc
<1>3. LCrc(frame) <= dctx.tmpInTarget
  BY <1>1 DEF LContext, LInput
<1>4. size \in Nat /\ 0 + size <= Len(bytes)
  BY <1>1, <1>2, <1>3
<1>5. L!Fail(dctx) \/ L!DecodeDirect(data, c) \/ L!DecodeBuffered(data, c)
  BY DEF L!DecodeCBlock
<1> HIDE DEF size
<1>6. data \in Seq(Tokens(frame))
  <2>1. SubSeq(bytes, 0 + 1, 0 + size) \in Seq(Tokens(frame))
    BY <1>4, Sliced
  <2>2. 0 + 1 = 1 /\ 0 + size = size
    BY <1>4
  <2> QED
    BY <2>1, <2>2
<1> HIDE DEF data
<1>7. CASE L!Fail(dctx)
  BY <1>7, LBreaksOff DEF Outcome
<1>8. CASE L!DecodeDirect(data, c)
  <2>1. PICK r \in L!Decode(data, dctx, c.dst) :
          IF ~r.ok THEN L!Fail(dctx)
          ELSE \E d : L!Continue(d, [c EXCEPT !.dst = @ \o r.data])
    BY <1>8 DEF L!DecodeDirect
  <2>2. CASE ~r.ok
    BY <2>1, <2>2, LBreaksOff DEF Outcome
  <2>3. CASE r.ok
    <3> DEFINE c2 == [c EXCEPT !.dst = @ \o r.data]
    <3>1. PICK d : L!Continue(d, c2)
      BY <2>1, <2>3
    <3>2. IsSeq(r.data)
      BY <1>1, <1>6, <2>3, DecodeOK
    <3>3. Onward(c2)
      BY <3>2, OnwardAdds
    <3> HIDE DEF c2
    <3> QED
      BY <3>1, <3>3, LGoesOn DEF Outcome
  <2> QED
    BY <2>2, <2>3
<1>9. CASE L!DecodeBuffered(data, c)
  <2>1. (\E d : L!Continue(d, c)) \/ \E d : L!Fail(d)
    BY <1>9 DEF L!DecodeBuffered
  <2> QED
    BY <2>1, LGoesOn, LBreaksOff DEF Outcome
<1> QED
  BY <1>5, <1>7, <1>8, <1>9

LEMMA LCBlockStages ==
  ASSUME LInv, L!GetCBlock \/ L!StoreCBlock
  PROVE  Outcome
<1> DEFINE want == dctx.tmpInTarget
<1>1. call.busy /\ dctx.dStage \in {"getCBlock", "storeCBlock"}
  BY DEF L!GetCBlock, L!StoreCBlock, L!Stage
<1>2. LContext(frame, dctx) /\ want \in Nat
  BY LTyped
<1>3. CallOK(frame, fed, call) /\ Onward(call) /\ L!Input \in Nat
  BY <1>1, LCallTyped
<1>4. CASE L!GetCBlock
  <2>1. \/ \E d : L!Continue(d, call)
        \/ ~(L!Input < want) /\ L!DecodeCBlock(L!Take(want), L!Skip(want))
    BY <1>4 DEF L!GetCBlock
  <2>2. CASE \E d : L!Continue(d, call)
    BY <2>2, <1>3, LGoesOn DEF Outcome
  <2>3. CASE ~(L!Input < want) /\ L!DecodeCBlock(L!Take(want), L!Skip(want))
    <3>1. want <= L!Input
      BY <2>3, <1>2, <1>3
    <3>2. L!Take(want) \in Seq(Tokens(frame)) /\ Len(L!Take(want)) = want
      BY <3>1, <1>1, <1>2, LTaken
    <3>3. Onward(L!Skip(want))
      BY <1>1, <1>3, LOnward
    <3> QED
      BY <2>3, <3>2, <3>3, <1>1, LDecodeTurn
  <2> QED
    BY <2>1, <2>2, <2>3
<1>5. CASE L!StoreCBlock
  <2> DEFINE got == L!Stored(want)
             c == L!Skip(L!Missing(want))
  <2>1. dctx.dStage = "storeCBlock"
    BY <1>5 DEF L!StoreCBlock, L!Stage
  <2>2. Len(dctx.tmpIn) <= want /\ dctx.tmpIn \in Seq(Tokens(frame))
    BY <2>1, <1>2 DEF LContext, LInput
  <2>3. got \in Seq(Tokens(frame)) /\ Len(got) \in Nat /\ Len(got) <= want
    BY <2>2, <1>1, <1>2, LStored
  <2>4. \/ Len(got) < want
           /\ L!Suspend([dctx EXCEPT !.tmpIn = got], c, want - Len(got) + L!CrcSize + BHSize)
        \/ ~(Len(got) < want) /\ L!DecodeCBlock(got, c)
    BY <1>5 DEF L!StoreCBlock
  <2>5. CASE Len(got) < want
    BY <2>2, <2>4, <2>5, <1>1, <1>2, LHeld
  <2>6. CASE ~(Len(got) < want)
    <3>1. Len(got) = want
      BY <2>3, <2>6, <1>2
    <3>2. Onward(c)
      BY <1>1, <1>3, LOnward
    <3> QED
      BY <2>3, <2>4, <2>6, <3>1, <3>2, <1>1, LDecodeTurn
  <2> QED
    BY <2>5, <2>6
<1> QED
  BY <1>4, <1>5

LEMMA LFlushTurn ==
  ASSUME LInv, CallerInv, L!FlushOut
  PROVE  Outcome
<1> DEFINE rest == dctx.tmpOutSize - dctx.tmpOutStart
           n == IF call.null THEN 0 ELSE L!Min({rest, L!Room})
           data == L!Read(dctx.tmpOutBuffer, dctx.tmpOut + dctx.tmpOutStart, n)
           c == [call EXCEPT !.dst = @ \o data]
           d1 == IF frame.linked /\ ~call.null
                 THEN L!UpdateDict(dctx, c.dst, Len(call.dst), n, TRUE) ELSE dctx
           d2 == [d1 EXCEPT !.tmpOutStart = @ + n]
<1>1. call.busy /\ dctx.dStage = "flushOut"
  BY DEF L!FlushOut, L!Stage
<1>2. \/ \E d : L!Continue(d, c)
      \/ d2.tmpOutStart # d2.tmpOutSize /\ L!Suspend(d2, c, BHSize)
  BY DEF L!FlushOut
<1>3. LShape(dctx) /\ LContext(frame, dctx)
  BY LTyped
<1>4. rest \in Nat /\ dctx.tmpOutSize \in Nat /\ dctx.tmpOutStart \in Nat
  BY <1>1, <1>3 DEF LContext, LShape, LFlush
<1>5. /\ CallOK(frame, fed, call) /\ Onward(call) /\ call.src \in Nat /\ call.room \in Nat
      /\ Len(call.dst) \in Nat /\ L!Room \in Nat /\ L!Room = call.room - Len(call.dst)
  BY <1>1, LCallTyped
<1>6. n \in Nat /\ ((call.null /\ call.room = 0) \/ n = rest \/ n = L!Room)
  <2>1. L!Min({rest, L!Room}) = IF rest <= L!Room THEN rest ELSE L!Room
    BY <1>4, <1>5, MinOfTwo, LCopies
  <2>2. call.null => call.room = 0
    BY <1>1 DEF CallerInv
  <2> HIDE DEF rest
  <2> QED
    BY <2>1, <2>2, <1>4, <1>5
<1> HIDE DEF n
<1>7. IsSeq(data) /\ Len(data) = n
  BY <1>6, Copies, LCopies
<1> HIDE DEF data
<1>8. Onward(c) /\ c.src = call.src /\ Len(c.dst) = Len(call.dst) + n /\ IsSeq(c.dst)
  <2>1. Onward(c) /\ c.src = call.src /\ Len(c.dst) = Len(call.dst) + Len(data)
    BY <1>5, <1>7, OnwardAdds
  <2> HIDE DEF c
  <2> QED
    BY <2>1, <1>7 DEF Onward
<1>9. CASE \E d : L!Continue(d, c)
  BY <1>8, <1>9, LGoesOn DEF Outcome
<1>10. CASE d2.tmpOutStart # d2.tmpOutSize /\ L!Suspend(d2, c, BHSize)
  <2> HIDE DEF c
  <2>1. /\ DOMAIN d1 = DOMAIN dctx /\ d1.tmpOutStart = dctx.tmpOutStart
        /\ d1.tmpOutSize = dctx.tmpOutSize
    <3>1. CASE frame.linked /\ ~call.null
      <4>1. d1 = L!UpdateDict(dctx, c.dst, Len(call.dst), n, TRUE)
        BY <3>1
      <4>2. PICK w \in BOOLEAN : w = TRUE
        OBVIOUS
      <4> HIDE DEF d1
      <4>3. d1 = L!UpdateDict(dctx, c.dst, Len(call.dst), n, w)
        BY <4>1, <4>2
      <4> QED
        BY <4>3, <1>3, UpdateKeeps
    <3>2. CASE ~(frame.linked /\ ~call.null)
      BY <3>2
    <3> QED
      BY <3>1, <3>2
  <2> HIDE DEF d1
  <2>2. d2.tmpOutStart = dctx.tmpOutStart + n /\ d2.tmpOutSize = dctx.tmpOutSize
    BY <2>1, <1>3 DEF LShape
  <2> HIDE DEF d2
  <2>3. n # rest
    BY <2>2, <1>4, <1>10
  <2>4. Len(c.dst) >= call.room
    BY <2>3, <1>5, <1>6, <1>8
  <2>5. c.src \in Int
    BY <1>5, <1>8
  <2> QED
    BY <1>8, <1>10, <2>4, <2>5, LReturns DEF Outcome
<1> QED
  BY <1>2, <1>9, <1>10

LEMMA LStagesTurn ==
  ASSUME LInv, CallerInv, L!Stages
  PROVE  Outcome
BY LHeaderStages, LBuffersTurn, LBlockHeaderStages, LChecks, LSkips, LCopyTurn,
   LCBlockStages, LFlushTurn DEF L!Stages

(* The caller only acts between two calls.                                 *)
LEMMA LCallerTurn ==
  ASSUME LInv, CallerInv, L!Caller
  PROVE  CallerInv' /\ Progresses
<1>1. ~call.busy
  BY DEF L!Caller, L!Call, L!GetFrameInfo, L!NextFrame, L!ResetContext, L!Enter, L!Idle
<1>2. ASSUME NEW n, NEW m, NEW null, L!Enter(n, m, null), null => m = 0
      PROVE  CallerInv'
  <2>1. call' = [busy |-> TRUE, src |-> fed, end |-> L!Min({fed + n, Len(L!Streams[frame])}),
                 dst |-> <<>>, room |-> m, null |-> null] /\ out' = out
    BY <1>2 DEF L!Enter
  <2>2. call'.null = null /\ call'.room = m
    BY <2>1
  <2> QED
    BY <1>2, <2>1, <2>2 DEF CallerInv
<1>3. ASSUME L!StartFrame
      PROVE  CallerInv'
  <2>1. out' = <<>> /\ call' = call
    BY <1>3 DEF L!StartFrame
  <2> QED
    BY <1>1, <2>1, EmptyIsSeq DEF CallerInv
<1>4. CASE L!Call
  <2>1. PICK n, m : L!Enter(n, m, FALSE)
    BY <1>4 DEF L!Call
  <2> QED
    BY <1>1, <1>2, <2>1 DEF Progresses
<1>5. CASE L!GetFrameInfo
  <2>1. L!Enter(0, 0, TRUE) \/ (call' = call /\ out' = out)
    BY <1>5 DEF L!GetFrameInfo
  <2>2. CallerInv'
    BY <1>2, <2>1 DEF CallerInv
  <2> QED
    BY <1>1, <2>2 DEF Progresses
<1>6. CASE L!NextFrame \/ L!ResetContext
  <2>1. L!StartFrame
    BY <1>6 DEF L!NextFrame, L!ResetContext
  <2> QED
    BY <1>1, <1>3, <2>1 DEF Progresses
<1> QED
  BY <1>4, <1>5, <1>6 DEF L!Caller

LEMMA ZGoesOn ==
  ASSUME NEW d, NEW c, Onward(c), Z!Continue(d, c)
  PROVE  Outcome
BY DEF Z!Continue, GoesOn, Onward, Outcome

LEMMA ZBreaksOff ==
  ASSUME NEW d, NEW why, Z!Fail(d, why)
  PROVE  Outcome
BY DEF Z!Fail, BreaksOff, Z!NoCall, NoCall, Outcome

LEMMA ZReturns ==
  ASSUME NEW d, NEW c, NEW src \in Int, NEW hint, Z!Give(d, c, src, hint), IsSeq(c.dst),
         hint > 0 => src >= call.end \/ Len(c.dst) >= call.room
  PROVE  Outcome
<1>1. /\ call' = NoCall /\ out' = out \o c.dst /\ fed' = src /\ res' = hint
  BY DEF Z!Give, Z!NoCall, NoCall
<1> QED
  BY <1>1 DEF Returns, Outcome

LEMMA ZOnward ==
  ASSUME ZInv, call.busy
  PROVE  /\ Onward(call) /\ IsSeq(call.dst)
         /\ \A n : Onward(Z!Skip(n)) /\ Z!Skip(n).src = call.src + n
                   /\ Z!Skip(n).dst = call.dst
<1>1. CallOK(frame, fed, call)
  BY ZTyped
<1>2. Onward(call) /\ IsSeq(call.dst)
  BY <1>1, OnwardAsIs DEF Onward
<1>3. ASSUME NEW n
      PROVE  Onward(Z!Skip(n)) /\ Z!Skip(n).src = call.src + n /\ Z!Skip(n).dst = call.dst
  BY <1>1 DEF CallOK, Onward, Z!Skip
<1> QED
  BY <1>2, <1>3

(* A turn that ends the call has taken all of the input or filled all of   *)
(* the room, unless the frame is complete.                                 *)
LEMMA FinishTurn ==
  ASSUME NEW d0, {"expected", "outStart", "outEnd"} \subseteq DOMAIN d0,
         NEW c, Onward(c), c.src \in Int, Z!Finish(d0, c),
         \/ Len(c.dst) >= call.room
         \/ d0.outStart = d0.outEnd /\ (d0.expected > 0 => c.src >= call.end)
  PROVE  Outcome
<1> DEFINE turns == IF c.src = fed /\ c.dst = <<>> THEN d0.noForwardProgress + 1 ELSE 0
           d == [d0 EXCEPT !.noForwardProgress = turns]
<1>1. IF d.noForwardProgress >= NoProgressMax THEN Z!Fail(d, "stuck")
      ELSE IF d.expected > 0 THEN \E hint : Z!Give(d, c, c.src, hint)
      ELSE IF d.outEnd # d.outStart
      THEN \E e, src : src \in {c.src, c.src - 1} /\ Z!Give(e, c, src, 1)
      ELSE IF ~d.hostageByte THEN Z!Give(d, c, c.src, 0)
      ELSE IF c.src >= c.end THEN \E e : Z!Give(e, c, c.src, 1)
      ELSE Z!Give(d, c, c.src + 1, 0)
  BY DEF Z!Finish
<1>2. d.expected = d0.expected /\ d.outStart = d0.outStart /\ d.outEnd = d0.outEnd
  OBVIOUS
<1> HIDE DEF d
<1>3. IsSeq(c.dst) /\ c.end = call.end
  BY DEF Onward
<1>4. CASE \E hint : Z!Give(d, c, c.src, hint) /\ d.expected > 0
  BY <1>2, <1>3, <1>4, ZReturns
<1>5. CASE d.outEnd # d.outStart /\ \E e, src : src \in {c.src, c.src - 1} /\ Z!Give(e, c, src, 1)
  BY <1>2, <1>3, <1>5, ZReturns
<1>6. CASE Z!Give(d, c, c.src, 0) \/ Z!Give(d, c, c.src + 1, 0)
  BY <1>3, <1>6, ZReturns
<1>7. CASE c.src >= c.end /\ \E e : Z!Give(e, c, c.src, 1)
  BY <1>3, <1>7, ZReturns
<1> QED
  BY <1>1, <1>4, <1>5, <1>6, <1>7, ZBreaksOff

LEMMA ZHeaderTurn ==
  ASSUME ZInv, Z!InitStream \/ Z!LoadHeader \/ Z!BeginFrame \/ Z!AllocationFails
  PROVE  Outcome
<1>1. call.busy
  BY DEF Z!InitStream, Z!LoadHeader, Z!BeginFrame, Z!AllocationFails, Z!HeaderComplete, Z!Stage
<1>2. Onward(call) /\ IsSeq(call.dst) /\ \A n : Onward(Z!Skip(n))
  BY <1>1, ZOnward
<1>3. call.end \in Int /\ call.end >= call.end
  BY <1>1, ZTyped
<1>4. CASE Z!LoadHeader
  <2>1. \/ \E d, why : Z!Fail(d, why)
        \/ \E d, hint : Z!Give(d, call, call.end, hint)
        \/ \E d, n : Z!Continue(d, Z!Skip(n))
    BY <1>4 DEF Z!LoadHeader
  <2> QED
    BY <2>1, <1>2, <1>3, ZBreaksOff, ZReturns, ZGoesOn
<1>5. CASE Z!InitStream \/ Z!BeginFrame \/ Z!AllocationFails
  <2>1. (\E d, why : Z!Fail(d, why)) \/ \E d : Z!Continue(d, call)
    BY <1>5 DEF Z!InitStream, Z!BeginFrame, Z!AllocationFails
  <2> QED
    BY <2>1, <1>2, ZBreaksOff, ZGoesOn
<1> QED
  BY <1>4, <1>5

LEMMA SinglePassTurn ==
  ASSUME ZInv, Z!SinglePass
  PROVE  Outcome
<1> DEFINE size == Z!Size(frame)
           b == Z!decompressBegin(dctx)
           d == [b EXCEPT !.streamStage = "init", !.expected = 0]
           data == IF Z!IsIntact(frame) THEN Z!Content(0, size) ELSE Z!Garbage(size)
           c == [call EXCEPT !.src = Z!StreamLength(frame), !.dst = data]
<1>1. /\ Z!HeaderComplete /\ Z!SinglePassMode
      /\ Z!Fail(b, fault) \/ (size = frame.declared /\ Z!Finish(d, c))
  BY DEF Z!SinglePass
<1>2. /\ call.busy /\ ZShape(dctx) /\ dctx.outStart = 0 /\ dctx.outEnd = 0
      /\ frame \in Frames /\ frame.fmt # "lz4"
  BY <1>1, HeaderCompleteOK
<1>3. ZShape(b) /\ b.outStart = 0 /\ b.outEnd = 0
  BY <1>2, BegunOK
<1> HIDE DEF b
<1>4. CASE size = frame.declared /\ Z!Finish(d, c)
  <2>1. size \in Nat
    <3>1. frame.declared >= 0
      BY <1>1 DEF Z!SinglePassMode
    <3> QED
      BY <3>1, <1>2, <1>4, ZstdFrameTyped
  <2> HIDE DEF size
  <2>2. IsSeq(data)
    BY <2>1, Copies, ZCopies
  <2> HIDE DEF data
  <2>3. StreamLength(frame) \in Nat /\ Z!StreamLength(frame) = StreamLength(frame)
    BY <1>2, StreamTyped, ZStreams DEF Z!StreamLength, StreamLength
  <2>4. Onward(call)
    BY <1>2, ZOnward
  <2>5. /\ DOMAIN c = DOMAIN call /\ c.busy = call.busy /\ c.src = StreamLength(frame)
        /\ c.end = call.end /\ c.dst = data /\ c.room = call.room /\ c.null = call.null
    BY <2>3, <2>4 DEF Onward
  <2>6. /\ {"expected", "outStart", "outEnd"} \subseteq DOMAIN d
        /\ d.expected = 0 /\ d.outStart = d.outEnd
    BY <1>3 DEF ZShape
  <2>7. Z!Finish(d, c)
    BY <1>4
  <2> HIDE DEF c, d
  <2>8. Onward(c) /\ c.src \in Int
    BY <2>2, <2>3, <2>4, <2>5 DEF Onward
  <2>9. ~(d.expected > 0)
    BY <2>6
  <2> QED
    BY <2>6, <2>7, <2>8, <2>9, FinishTurn
<1> QED
  BY <1>1, <1>4, ZBreaksOff

LEMMA ContinueTurn ==
  ASSUME NEW d, NEW bytes, NEW c, Onward(c), Z!decompressContinueStream(d, bytes, c)
  PROVE  Outcome
<1>1. (\E e, why : Z!Fail(e, why)) \/ \E e : Z!Continue(e, c)
  BY DEF Z!decompressContinueStream
<1> QED
  BY <1>1, ZBreaksOff, ZGoesOn

LEMMA ReadTurn ==
  ASSUME ZInv, Z!ReadInput
  PROVE  Outcome
<1> DEFINE needed == Z!nextSrcSize(dctx, Z!Input)
           dInit == [dctx EXCEPT !.streamStage = "init"]
<1>1. /\ call.busy /\ dctx.streamStage = "read"
      /\ \/ needed = 0 /\ Z!Finish(dInit, call)
         \/ Z!decompressContinueStream(dctx, Z!Take(needed), Z!Skip(needed))
         \/ Z!Input = 0 /\ Z!Finish(dctx, call)
         \/ \E d : Z!Continue(d, call)
  BY DEF Z!ReadInput, Z!Stage
<1>2. /\ ZShape(dctx) /\ ZStages(frame, dctx, call.src) /\ call.src \in Nat
      /\ call.end \in Nat /\ Z!Input \in Nat /\ Z!Input = call.end - call.src
  BY <1>1, ZTyped
<1>3. dctx.outStart = dctx.outEnd
  BY <1>1, <1>2 DEF ZStages
<1>4. Onward(call) /\ \A n : Onward(Z!Skip(n))
  BY <1>1, ZOnward
<1>5. CASE needed = 0 /\ Z!Finish(dInit, call)
  <2>1. dctx.expected = 0
    BY <1>2, <1>5, NextSrcSize
  <2>2. /\ {"expected", "outStart", "outEnd"} \subseteq DOMAIN dInit
        /\ dInit.expected = 0 /\ dInit.outStart = dInit.outEnd
    BY <2>1, <1>2, <1>3 DEF ZShape
  <2>3. Z!Finish(dInit, call)
    BY <1>5
  <2> HIDE DEF dInit
  <2>4. ~(dInit.expected > 0) /\ call.src \in Int
    BY <2>2, <1>2
  <2> QED
    BY <2>2, <2>3, <2>4, <1>4, FinishTurn
<1>6. CASE Z!Input = 0 /\ Z!Finish(dctx, call)
  <2>1. call.src >= call.end /\ call.src \in Int
    BY <1>2, <1>6
  <2>2. {"expected", "outStart", "outEnd"} \subseteq DOMAIN dctx
    BY <1>2 DEF ZShape
  <2> QED
    BY <2>1, <2>2, <1>3, <1>4, <1>6, FinishTurn
<1> QED
  BY <1>1, <1>4, <1>5, <1>6, ContinueTurn, ZGoesOn

LEMMA LoadTurn ==
  ASSUME ZInv, Z!LoadInput
  PROVE  Outcome
<1> DEFINE toLoad == dctx.expected - dctx.inPos
           n == Z!Min({toLoad, Z!Input})
           in == IF Z!isSkipFrame(dctx) THEN dctx.inBuff ELSE dctx.inBuff \o Z!Take(n)
           pos == dctx.inPos + n
           d == [dctx EXCEPT !.inPos = pos, !.inBuff = in]
           c == Z!Skip(n)
<1>1. /\ call.busy /\ dctx.streamStage = "load"
      /\ \/ Z!Fail(dctx, fault)
         \/ n < toLoad /\ Z!Finish(d, c)
         \/ \E e, bytes : Z!decompressContinueStream(e, bytes, c)
  BY DEF Z!LoadInput, Z!Stage
<1>2. /\ ZInv /\ ZShape(dctx) /\ ZStages(frame, dctx, call.src) /\ call.src \in Nat
      /\ call.end \in Nat /\ Z!Input \in Nat /\ Z!Input = call.end - call.src
  BY <1>1, ZTyped
<1>3. Onward(c) /\ c.src = call.src + n
  BY <1>1, ZOnward
<1>4. toLoad \in Int /\ n = IF toLoad <= Z!Input THEN toLoad ELSE Z!Input
  <2>1. toLoad \in Int
    BY <1>2 DEF ZShape
  <2> QED
    BY <2>1, <1>2, MinOfTwo, ZCopies
<1>5. CASE n < toLoad /\ Z!Finish(d, c)
  <2>1. n = Z!Input
    <3> HIDE DEF n, toLoad
    <3> QED
      BY <1>2, <1>4, <1>5
  <2>2. c.src = call.end /\ c.src \in Int
    <3> HIDE DEF n, c
    <3> QED
      BY <2>1, <1>2, <1>3
  <2>3. dctx.outStart = dctx.outEnd
    BY <1>1, <1>2 DEF ZStages
  <2> HIDE DEF n, c
  <2>4. c.src >= call.end
    BY <2>2
  <2>5. Z!Finish(d, c)
    BY <1>5
  <2>6. {"expected", "outStart", "outEnd"} \subseteq DOMAIN d /\ d.outStart = d.outEnd
    BY <2>3, <1>2 DEF ZShape
  <2> HIDE DEF d
  <2> QED
    BY <2>2, <2>4, <2>5, <2>6, <1>3, FinishTurn
<1> QED
  BY <1>1, <1>3, <1>5, ZBreaksOff, ContinueTurn

LEMMA FlushTurn ==
  ASSUME ZInv, Z!FlushOutput
  PROVE  Outcome
<1> DEFINE toFlush == dctx.outEnd - dctx.outStart
           n == Z!Min({toFlush, Z!Room})
           data == Z!Read(dctx.outBuff, dctx.outStart, n)
           c == [call EXCEPT !.dst = @ \o data]
           d == [dctx EXCEPT !.outStart = @ + n]
<1>1. /\ call.busy
      /\ (n < toFlush /\ Z!Finish(d, c)) \/ \E e : Z!Continue(e, c)
  BY DEF Z!FlushOutput, Z!Stage
<1>2. /\ ZShape(dctx) /\ call.src \in Nat /\ Z!Room \in Nat /\ call.room \in Nat
      /\ Len(call.dst) \in Nat /\ Z!Room = call.room - Len(call.dst)
  BY <1>1, ZTyped
<1>3. toFlush \in Nat
  BY <1>2 DEF ZShape
<1>4. n \in Nat /\ n = IF toFlush <= Z!Room THEN toFlush ELSE Z!Room
  BY <1>2, <1>3, MinOfTwo, ZCopies
<1>5. {"expected", "outStart", "outEnd"} \subseteq DOMAIN d
  BY <1>2 DEF ZShape
<1> HIDE DEF n
<1>6. IsSeq(data) /\ Len(data) = n
  BY <1>4, Copies, ZCopies
<1> HIDE DEF data
<1>7. Onward(call)
  BY <1>1, ZOnward
<1>8. Onward(c) /\ c.src = call.src /\ Len(c.dst) = Len(call.dst) + Len(data)
  BY <1>6, <1>7, OnwardAdds
<1> HIDE DEF c, d, toFlush
<1>9. CASE n < toFlush /\ Z!Finish(d, c)
  <2>1. n = Z!Room
    BY <1>2, <1>3, <1>4, <1>9
  <2>2. Len(c.dst) >= call.room /\ c.src \in Int
    BY <2>1, <1>2, <1>6, <1>8
  <2> QED
    BY <2>2, <1>5, <1>8, <1>9, FinishTurn
<1> QED
  BY <1>1, <1>8, <1>9, ZGoesOn

LEMMA ZStagesTurn ==
  ASSUME ZInv, Z!Stages
  PROVE  Outcome
BY ZHeaderTurn, SinglePassTurn, ReadTurn, LoadTurn, FlushTurn DEF Z!Stages

LEMMA ZCallerTurn ==
  ASSUME ZInv, CallerInv, Z!Caller
  PROVE  CallerInv' /\ Progresses
<1>1. ~call.busy
  BY DEF Z!Caller, Z!Call, Z!NextFrame, Z!ResetSession, Z!Enter, Z!Idle
<1>2. CASE Z!Call
  <2>1. PICK n, m : Z!Enter(n, m)
    BY <1>2 DEF Z!Call
  <2> DEFINE e == Z!Min({fed + n, Len(Z!Streams[frame])})
  <2>2. call' = [NoCall EXCEPT !.busy = TRUE, !.src = fed, !.room = m, !.end = e] /\ out' = out
    BY <2>1 DEF Z!Enter, Z!NoCall, NoCall
  <2> HIDE DEF e
  <2>3. call'.null = FALSE
    BY <2>2 DEF NoCall
  <2> QED
    BY <1>1, <2>2, <2>3 DEF CallerInv, Progresses
<1>3. CASE Z!NextFrame \/ Z!ResetSession
  <2>1. out' = <<>> /\ call' = call
    BY <1>3 DEF Z!NextFrame, Z!ResetSession, Z!StartFrame
  <2> QED
    BY <1>1, <2>1, EmptyIsSeq DEF CallerInv, Progresses
<1> QED
  BY <1>2, <1>3 DEF Z!Caller

LEMMA CallerStep ==
  ASSUME CodecInv, CallerInv, [Next]_vars
  PROVE  CallerInv' /\ (UNCHANGED vars \/ Progresses)
<1>1. ASSUME Outcome, call.busy
      PROVE  CallerInv' /\ Progresses
  <2>1. CallOK(frame, fed, call) /\ fed \in Nat
    BY LTyped, ZTyped DEF CodecInv
  <2> QED
    BY <1>1, <2>1, TurnOK DEF Outcome
<1>2. CASE IsLZ4 /\ L!Next
  <2>1. LInv
    BY <1>2 DEF CodecInv
  <2>2. CASE L!Stages
    <3>1. call.busy
      BY <2>2 DEF L!Stages, L!GetFrameHeader, L!StoreFrameHeader, L!InitBuffers,
           L!AllocationFails, L!GetBlockHeader, L!StoreBlockHeader, L!CopyDirect,
           L!GetBlockChecksum, L!GetCBlock, L!StoreCBlock, L!FlushOut, L!GetSuffix,
           L!StoreSuffix, L!GetSFrameSize, L!StoreSFrameSize, L!SkipSkippable, L!Stage
    <3> QED
      BY <2>1, <2>2, <3>1, <1>1, LStagesTurn
  <2> QED
    BY <1>2, <2>1, <2>2, LCallerTurn DEF L!Next
<1>3. CASE ~IsLZ4 /\ Z!Next
  <2>1. ZInv
    BY <1>3 DEF CodecInv
  <2>2. CASE Z!Stages
    <3>1. call.busy
      BY <2>2 DEF Z!Stages, Z!InitStream, Z!LoadHeader, Z!SinglePass, Z!BeginFrame,
           Z!AllocationFails, Z!ReadInput, Z!LoadInput, Z!FlushOutput, Z!HeaderComplete, Z!Stage
    <3> QED
      BY <2>1, <2>2, <3>1, <1>1, ZStagesTurn
  <2> QED
    BY <1>3, <2>1, <2>2, ZCallerTurn DEF Z!Next
<1>4. CASE UNCHANGED vars
  BY <1>4 DEF vars, CallerInv
<1> QED
  BY <1>2, <1>3, <1>4 DEF Next

(* decompress.c calls LZ4F_decompress() (81-93) and ZSTD_decompressStream()*)
(* (143-150) again for as long as they ask for more.  A call that was      *)
(* given input and room and asks for more has taken some of the input or   *)
(* delivered some of the content: at whatever byte the one before stopped, *)
(* whatever the decoder still holds back, and after errors and resets.     *)
THEOREM CallsProgress == Spec => NeverSpins
<1>1. Init => CodecInv /\ CallerInv
  <2>1. ASSUME Init PROVE CodecInv
    BY <2>1, CodecInit
  <2>2. ASSUME Init PROVE CallerInv
    <3>1. out = <<>> /\ call = NoCall
      BY <2>2 DEF Init, L!Init, Z!Init, L!Start, Z!Start, L!NoCall, Z!NoCall, NoCall
    <3> QED
      BY <3>1, EmptyIsSeq DEF CallerInv, NoCall
  <2> QED
    BY <2>1, <2>2
<1>2. CodecInv /\ CallerInv /\ [Next]_vars => CodecInv' /\ CallerInv'
  BY CodecStep, CallerStep
<1>3. CodecInv /\ CallerInv /\ [Next]_vars
        => [call.busy /\ ~call'.busy /\ res' > 0 /\ call.end > fed /\ call.room > 0
              => fed' > fed \/ Len(out') > Len(out)]_vars
  BY CallerStep DEF Progresses
<1> QED
  BY <1>1, <1>2, <1>3, PTL DEF Spec, NeverSpins
=============================================================================

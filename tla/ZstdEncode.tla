----------------------------- MODULE ZstdEncode -----------------------------
(***************************************************************************)
(* lib/zstd/compress: how literals and sequences become a block            *)
(* (zstd_compress_literals.c, zstd_compress_sequences.c, huf_compress.c),  *)
(* and which tables and offsets the next block then starts from            *)
(* (zstd_compress.c).                                                      *)
(*                                                                         *)
(* A sequence is [ll, of, ml]: a number of literals, 0 .. 2 for one of the *)
(* last offsets or an offset plus 2, and the length of the match.  The     *)
(* state `e' is the entropy of a block state: the Huffman code and the FSE *)
(* tables, each with its mode "none", "check" or "valid", and the last     *)
(* offsets.  The destination has room for everything.                      *)
(***************************************************************************)
EXTENDS ZstdTables

ZSTD_lazy == 4
ZSTD_btultra == 8
ZSTD_REP_NUM == 3
ZSTD_REP_MOVE == 2
rleMaxLength == 25
MINMATCH == 3
COMPRESS_LITERALS_SIZE_MIN == 63

(* As much room as an encoder ever uses here.                              *)
Ample == 2^16

ZSTD_disableLiteralsCompression(p) ==
  CASE p.literals = "huffman" -> FALSE
    [] p.literals = "uncompressed" -> TRUE
    [] p.literals = "auto" -> p.strategy = 1 /\ p.targetLength > 0

ZSTD_minGain(srcSize, strategy) ==
  (srcSize \div 2^(IF strategy >= ZSTD_btultra THEN strategy - 1 ELSE 6)) + 2

-----------------------------------------------------------------------------
(* Literals.                                                               *)

(* HUF_compressCTable_internal(): <<>> where nothing is saved.             *)
HUF_compressCTable(src, header, ct, single) ==
  With(IF single THEN HUF_compress1X(src, ct, Ample) ELSE HUF_compress4X(src, ct, Ample), LAMBDA body :
    IF body = <<>> \/ SizeOf(header \o body) >= Len(src) - 1 THEN <<>> ELSE header \o body)

HUF_validateCTable(ct, count) ==
  \A s \in DOMAIN count : count[s] > 0 => IF s \in DOMAIN ct THEN ct[s].nbBits > 0 ELSE FALSE

HUF_estimateCompressedSize(ct, count) ==
  FoldSet(LAMBDA s, n : n + (IF s \in DOMAIN ct THEN ct[s].nbBits ELSE 0) * count[s], 0, DOMAIN count) \div 8

(* HUF_compress_internal() of literals that are not all the same: the      *)
(* stream, the table after it and whether the table is the old one.        *)
CompressAgain(src, old, mode, single) ==
  [bits |-> HUF_compressCTable(src, <<>>, old, single), huf |-> old, mode |-> mode]

Uncompressed(old, mode) == [bits |-> <<>>, huf |-> old, mode |-> mode]

CompressWith(src, old, mode, count, ct, header, single) ==
  IF /\ mode # "none"
     /\ \/ HUF_estimateCompressedSize(old, count) <= SizeOf(header) + HUF_estimateCompressedSize(ct, count)
        \/ SizeOf(header) + 12 >= Len(src)
  THEN CompressAgain(src, old, mode, single)
  ELSE IF SizeOf(header) + 12 >= Len(src) THEN Uncompressed(old, mode)
  ELSE [bits |-> HUF_compressCTable(src, header, ct, single), huf |-> ct, mode |-> "none"]

HUF_compress_repeat(src, old, mode, preferRepeat, single) ==
  IF preferRepeat /\ mode = "valid" THEN CompressAgain(src, old, mode, single)
  ELSE With(HIST_count(src), LAMBDA count :
    IF Largest(count) <= (Len(src) \div 128) + 4 THEN Uncompressed(old, mode)
    ELSE With(IF mode = "check" /\ ~HUF_validateCTable(old, count) THEN "none" ELSE mode, LAMBDA m :
      IF preferRepeat /\ m # "none" THEN CompressAgain(src, old, m, single)
      ELSE With(HUF_buildCTable(count, FSE_optimalTableLog(HufLog - 1, Len(src), MaxSymbol(count), 1)), LAMBDA ct :
        CompressWith(src, old, m, count, ct, HUF_writeCTable(ct), single))))

LiteralsHeader(type, n) ==
  CASE n <= 31 -> Bits(type, 2) \o Bits(0, 1) \o Bits(n, 5)
    [] n \in 32 .. 4095 -> Bits(type, 2) \o Bits(1, 2) \o Bits(n, 12)
    [] OTHER -> Bits(type, 2) \o Bits(3, 2) \o Bits(n, 20)

ZSTD_noCompressLiterals(src) == LiteralsHeader(set_basic, Len(src)) \o Bytes(src)

ZSTD_compressRleLiteralsBlock(src) == LiteralsHeader(set_rle, Len(src)) \o Bytes(<<src[1]>>)

AllSame(src) == \A i \in DOMAIN src : src[i] = src[1]

(* ZSTD_compressLiterals(): what keeps the old table leaves its mode too.  *)
CompressedLiterals(e, c, n, single) ==
  LET lhSize == 3 + (IF n >= 1024 THEN 1 ELSE 0) + (IF n >= 16384 THEN 1 ELSE 0)
      width  == CASE lhSize = 3 -> 10 [] lhSize = 4 -> 14 [] lhSize = 5 -> 18
      form   == CASE lhSize = 3 -> IF single THEN 0 ELSE 1 [] lhSize = 4 -> 2 [] lhSize = 5 -> 3
      fresh  == c.mode = "none"
  IN  [e |-> [e EXCEPT !.huf = c.huf, !.hufMode = IF fresh THEN "check" ELSE @],
       bits |-> Bits(IF fresh THEN set_compressed ELSE set_repeat, 2) \o Bits(form, 2) \o Bits(n, width)
                \o Bits(SizeOf(c.bits), width) \o c.bits]

TryLiterals(e, src, strategy, prefers, single) ==
  IF AllSame(src) /\ ~(prefers /\ e.hufMode = "valid")
  THEN [e |-> e, bits |-> ZSTD_compressRleLiteralsBlock(src)]
  ELSE With(HUF_compress_repeat(src, e.huf, e.hufMode, prefers, single), LAMBDA c :
    IF c.bits = <<>> \/ SizeOf(c.bits) >= Len(src) - ZSTD_minGain(Len(src), strategy)
    THEN [e |-> e, bits |-> ZSTD_noCompressLiterals(src)]
    ELSE IF SizeOf(c.bits) = 1 THEN [e |-> e, bits |-> ZSTD_compressRleLiteralsBlock(src)]
    ELSE CompressedLiterals(e, c, Len(src), single))

ZSTD_compressLiterals(e, src, strategy, disabled) ==
  IF disabled \/ Len(src) <= (IF e.hufMode = "valid" THEN 6 ELSE COMPRESS_LITERALS_SIZE_MIN)
  THEN [e |-> e, bits |-> ZSTD_noCompressLiterals(src)]
  ELSE TryLiterals(e, src, strategy, strategy < ZSTD_lazy /\ Len(src) <= 1024,
                   Len(src) < 256 \/ (e.hufMode = "valid" /\ Len(src) < 1024))

-----------------------------------------------------------------------------
(* The codes of sequences, and what each table would cost.                 *)

LL_Code == FromZero(UpTo(16) \o <<16, 16, 17, 17, 18, 18, 19, 19>> \o Times(20, 4) \o Times(21, 4)
                    \o Times(22, 8) \o Times(23, 8) \o Times(24, 16))

ML_Code == FromZero(UpTo(32) \o <<32, 32, 33, 33, 34, 34, 35, 35>> \o Times(36, 4) \o Times(37, 4)
                    \o Times(38, 8) \o Times(39, 8) \o Times(40, 16) \o Times(41, 16) \o Times(42, 32))

ZSTD_LLcode(litLength) == IF litLength > 63 THEN BIT_highbit32(litLength) + 19 ELSE LL_Code[litLength]

ZSTD_MLcode(mlBase) == IF mlBase > 127 THEN BIT_highbit32(mlBase) + 36 ELSE ML_Code[mlBase]

ZSTD_seqToCodes(seqs) ==
  [k \in Kinds |-> [i \in DOMAIN seqs |->
     CASE k = "LL" -> ZSTD_LLcode(seqs[i].ll)
       [] k = "OF" -> BIT_highbit32(seqs[i].of + 1)
       [] k = "ML" -> ZSTD_MLcode(seqs[i].ml - MINMATCH)]]

kInverseProbabilityLog256 ==
  FromZero(<<
    0, 2048, 1792, 1642, 1536, 1453, 1386, 1329, 1280, 1236, 1197, 1162, 1130, 1100, 1073, 1047, 1024,
    1001, 980, 960, 941, 923, 906, 889, 874, 859, 844, 830, 817, 804, 791, 779, 768, 756, 745, 734,
    724, 714, 704, 694, 685, 676, 667, 658, 650, 642, 633, 626, 618, 610, 603, 595, 588, 581, 574, 567,
    561, 554, 548, 542, 535, 529, 523, 517, 512, 506, 500, 495, 489, 484, 478, 473, 468, 463, 458, 453,
    448, 443, 438, 434, 429, 424, 420, 415, 411, 407, 402, 398, 394, 390, 386, 382, 377, 373, 370, 366,
    362, 358, 354, 350, 347, 343, 339, 336, 332, 329, 325, 322, 318, 315, 311, 308, 305, 302, 298, 295,
    292, 289, 286, 282, 279, 276, 273, 270, 267, 264, 261, 258, 256, 253, 250, 247, 244, 241, 239, 236,
    233, 230, 228, 225, 222, 220, 217, 215, 212, 209, 207, 204, 202, 199, 197, 194, 192, 190, 187, 185,
    182, 180, 178, 175, 173, 171, 168, 166, 164, 162, 159, 157, 155, 153, 151, 149, 146, 144, 142, 140,
    138, 136, 134, 132, 130, 128, 126, 123, 121, 119, 117, 115, 114, 112, 110, 108, 106, 104, 102, 100,
    98, 96, 94, 93, 91, 89, 87, 85, 83, 82, 80, 78, 76, 74, 73, 71, 69, 67, 66, 64, 62, 61, 59, 57, 55,
    54, 52, 50, 49, 47, 46, 44, 42, 41, 39, 37, 36, 34, 33, 31, 30, 28, 26, 25, 23, 22, 20, 19, 17, 16,
    14, 13, 11, 10, 8, 7, 5, 4, 2, 1>>)

(* An error is a cost no other cost reaches.                               *)
Unusable == 2^30

ZSTD_useLowProbCount(nbSeq) == nbSeq >= 2048

ZSTD_NCountCost(count, nbSeq, log) ==
  LET tableLog == FSE_optimalTableLog(log, nbSeq, MaxSymbol(count), 2)
  IN  SizeOf(FSE_writeNCount(FSE_normalizeCount(tableLog, count, ZSTD_useLowProbCount(nbSeq)), tableLog))

ZSTD_entropyCost(count, total) ==
  FoldSet(LAMBDA s, n : n + count[s] * kInverseProbabilityLog256[Max({(256 * count[s]) \div total, 1})], 0,
          {s \in DOMAIN count : count[s] > 0}) \div 256

FSE_bitCost(ct, s) ==
  LET delta     == ct.symbolTT[s].deltaNbBits
      minNbBits == delta \div 65536
      below     == (minNbBits + 1) * 65536 - (delta + 2^ct.tableLog)
  IN  (minNbBits + 1) * 256 - (below * 256) \div 2^ct.tableLog

ZSTD_fseBitCost(ct, count) ==
  LET present == {s \in DOMAIN count : count[s] > 0}
  IN  IF \E s \in present : s \notin DOMAIN ct.symbolTT THEN Unusable
      ELSE FoldSet(LAMBDA s, n : n + count[s] * FSE_bitCost(ct, s), 0, present) \div 256

ZSTD_crossEntropyCost(norm, accuracyLog, count) ==
  FoldSet(LAMBDA s, n : n + count[s] * kInverseProbabilityLog256[Cells(norm[s]) * 2^(8 - accuracyLog)], 0,
          DOMAIN count) \div 256

(* ZSTD_selectEncodingType(): how the codes of a kind are written, and the *)
(* mode of their table for the next block.                                 *)
Cheapest(basic, again, fresh, mode) ==
  IF basic <= again /\ basic <= fresh THEN [type |-> set_basic, mode |-> "none"]
  ELSE IF again <= fresh THEN [type |-> set_repeat, mode |-> mode]
  ELSE [type |-> set_compressed, mode |-> "check"]

ByCost(k, prev, mode, count, nbSeq, allowed) ==
  Cheapest(IF allowed THEN ZSTD_crossEntropyCost(DefaultNorm[k], DefaultNormLog[k], count) ELSE Unusable,
           IF mode # "none" THEN ZSTD_fseBitCost(prev, count) ELSE Unusable,
           8 * ZSTD_NCountCost(count, nbSeq, FSELog[k]) + ZSTD_entropyCost(count, nbSeq), mode)

ZSTD_selectEncodingType(k, prev, mode, count, nbSeq, strategy) ==
  LET mostFrequent == Largest(count)
      allowed == k # "OF" \/ MaxSymbol(count) <= DefaultMaxOff
      log     == DefaultNormLog[k]
  IN  IF mostFrequent = nbSeq
      THEN [type |-> IF allowed /\ nbSeq <= 2 THEN set_basic ELSE set_rle, mode |-> "none"]
      ELSE IF strategy >= ZSTD_lazy THEN ByCost(k, prev, mode, count, nbSeq, allowed)
      ELSE IF allowed /\ mode = "valid" /\ nbSeq < 1000 THEN [type |-> set_repeat, mode |-> mode]
      ELSE IF allowed /\ (nbSeq < (2^log * (10 - strategy)) \div 8 \/ mostFrequent < nbSeq \div 2^(log - 1))
      THEN [type |-> set_basic, mode |-> "none"]
      ELSE [type |-> set_compressed, mode |-> "check"]

(* ZSTD_buildCTable(): a description of the table, and the table.          *)
FreshTable(count, log) ==
  With(FSE_normalizeCount(log, count, ZSTD_useLowProbCount(Total(count))), LAMBDA norm :
    [bits |-> FSE_writeNCount(norm, log), table |-> FSE_buildCTable(norm, log)])

WithoutLast(count, last) == IF count[last] > 1 THEN [count EXCEPT ![last] = @ - 1] ELSE count

RleTable(symbol) ==
  [tableLog |-> 0, state |-> <<0, 0>>, symbolTT |-> (symbol :> [deltaNbBits |-> 0, deltaFindState |-> 0])]

ZSTD_buildCTable(k, type, prev, count, codes) ==
  CASE type = set_rle -> [bits |-> Bytes(<<codes[1]>>), table |-> RleTable(MaxSymbol(count))]
    [] type = set_repeat -> [bits |-> <<>>, table |-> prev]
    [] type = set_basic -> [bits |-> <<>>, table |-> FSE_buildCTable(DefaultNorm[k], DefaultNormLog[k])]
    [] type = set_compressed ->
         FreshTable(WithoutLast(count, Last(codes)), FSE_optimalTableLog(FSELog[k], Len(codes), MaxSymbol(count), 2))

(* ZSTD_buildSequencesStatistics()                                         *)
KindStatistics(e, k, count, codes, strategy) ==
  With(ZSTD_selectEncodingType(k, e.fse[k], e.mode[k], count, Len(codes), strategy), LAMBDA choice :
    With(ZSTD_buildCTable(k, choice.type, e.fse[k], count, codes), LAMBDA built :
      [type |-> choice.type, mode |-> choice.mode, bits |-> built.bits, table |-> built.table]))

AllStatistics(e, s) ==
  LET fresh == SelectSeq(<<"LL", "OF", "ML">>, LAMBDA k : s[k].type = set_compressed)
  IN  [e |-> [e EXCEPT !.fse = [k \in Kinds |-> s[k].table], !.mode = [k \in Kinds |-> s[k].mode]],
       head |-> Bytes(<<64 * s["LL"].type + 16 * s["OF"].type + 4 * s["ML"].type>>),
       type |-> [k \in Kinds |-> s[k].type], bits |-> s["LL"].bits \o s["OF"].bits \o s["ML"].bits,
       lastCountSize |-> IF fresh = <<>> THEN 0 ELSE SizeOf(s[Last(fresh)].bits)]

ZSTD_buildSequencesStatistics(e, codes, strategy) ==
  AllStatistics(e, [k \in {} |-> 0] @@
    [k \in Kinds |-> KindStatistics(e, k, HIST_count(codes[k]), codes[k], strategy)])

-----------------------------------------------------------------------------
(* The sequences, from the last one to the first.  c has the stream and    *)
(* the state of each table.                                                *)

AddBits(c, value, n) == [c EXCEPT !.stream = BIT_addBits(@, value, n)]

AddSequence(c, seq, codes, i) ==
  LET bits == [k \in Kinds |-> AdditionalBits[k][codes[k][i]]]
      c1   == AddBits(AddBits(c, seq.ll, bits["LL"]), seq.ml - MINMATCH, bits["ML"])
      c2   == IF bits["OF"] + bits["ML"] + bits["LL"] > 56 THEN Flush(c1) ELSE c1
  IN  Flush(AddBits(c2, seq.of + 1, bits["OF"]))

EncodeSequence(c, fse, seq, codes, i) ==
  LET next(d, k) == FSE_encodeSymbol(d, fse[k], k, codes[k][i])
      c1   == next(next(next(c, "OF"), "ML"), "LL")
      bits == AdditionalBits["OF"][codes["OF"][i]] + AdditionalBits["ML"][codes["ML"][i]]
              + AdditionalBits["LL"][codes["LL"][i]]
  IN  AddSequence(IF bits >= 64 - 7 - (9 + 9 + 8) THEN Flush(c1) ELSE c1, seq, codes, i)

(* ZSTD_encodeSequences_body()                                             *)
ZSTD_encodeSequences(fse, seqs, codes) ==
  LET n     == Len(seqs)
      start == [stream |-> BIT_initCStream(Ample), states |-> [k \in Kinds |-> FSE_initCState2(fse[k], codes[k][n])]]
      coded == FoldLeft(LAMBDA c, j : EncodeSequence(c, fse, seqs[n - j], codes, n - j),
                        AddSequence(start, seqs[n], codes, n), [j \in 1 .. n - 1 |-> j])
      state(c, k) == Flush(AddBits(c, c.states[k], fse[k].tableLog))
  IN  BIT_closeCStream(state(state(state(coded, "ML"), "OF"), "LL").stream)

NumberOfSequences(n) ==
  CASE n < 128 -> Bytes(<<n>>)
    [] n \in 128 .. LONGNBSEQ - 1 -> Bytes(<<n \div 256 + 128, n % 256>>)
    [] OTHER -> Bytes(<<255>>) \o Bits(n - LONGNBSEQ, 16)

(* ZSTD_entropyCompressSeqStore(): the body of a block, <<>> for one that  *)
(* is better left as it is.                                                *)
IfSmaller(bits, srcSize, strategy) ==
  IF SizeOf(bits) >= srcSize - ZSTD_minGain(srcSize, strategy) THEN <<>> ELSE bits

(* A description of the last table and a stream of less than 4 bytes in    *)
(* all are not read by all decoders.                                       *)
SequencesSection(head, stats, stream, srcSize, strategy) ==
  [e |-> stats.e,
   bits |-> IF stats.lastCountSize > 0 /\ stats.lastCountSize + SizeOf(stream) < 4 THEN <<>>
            ELSE IfSmaller(head \o stats.head \o stats.bits \o stream, srcSize, strategy)]

ZSTD_entropyCompressSeqStore(e, store, srcSize, p) ==
  With(ZSTD_compressLiterals(e, store.lits, p.strategy, ZSTD_disableLiteralsCompression(p)), LAMBDA lits :
    With(lits.bits \o NumberOfSequences(Len(store.seqs)), LAMBDA head :
      IF store.seqs = <<>> THEN [e |-> lits.e, bits |-> IfSmaller(head, srcSize, p.strategy)]
      ELSE With(ZSTD_seqToCodes(store.seqs), LAMBDA codes :
        With(ZSTD_buildSequencesStatistics(lits.e, codes, p.strategy), LAMBDA stats :
          SequencesSection(head, stats, ZSTD_encodeSequences(stats.e.fse, store.seqs, codes), srcSize, p.strategy)))))

-----------------------------------------------------------------------------
(* The last offsets.                                                       *)

ZSTD_updateRep(rep, offCode, ll0) ==
  LET repCode == offCode + (IF ll0 THEN 1 ELSE 0)
      offset  == IF repCode = ZSTD_REP_NUM THEN rep[1] - 1 ELSE rep[repCode + 1]
  IN  IF offCode >= ZSTD_REP_NUM THEN <<offCode - ZSTD_REP_MOVE, rep[1], rep[2]>>
      ELSE IF repCode = 0 THEN rep
      ELSE <<offset, rep[1], IF repCode >= 2 THEN rep[2] ELSE rep[3]>>

-----------------------------------------------------------------------------
(* lib/zstd/compress/zstd_compress.c: the sequences of a block may become  *)
(* several blocks.  What each would take is estimated; and a block that is *)
(* then stored as it is leaves the decoder with other last offsets than    *)
(* the search for matches had.                                             *)

CONSTANT SplitMin    \* MIN_SEQUENCES_BLOCK_SPLITTING, 300

ASSUME SplitMinAssumption == SplitMin \in Nat \ {0, 1}

MAX_NB_SPLITS == 196
ZSTD_blockHeaderSize == 3

-----------------------------------------------------------------------------
(* What a block would take.                                                *)

(* ZSTD_buildBlockEntropyStats_literals(): how the literals are written,   *)
(* with which code, and the size of its description.                       *)
HufBasic(e) == [type |-> set_basic, huf |-> e.huf, size |-> 0]

HufChoice(e, n, count, ct, hSize) ==
  LET newCSize == HUF_estimateCompressedSize(ct, count)
      oldCSize == HUF_estimateCompressedSize(e.huf, count)
      usable   == e.hufMode = "valid" \/ (e.hufMode = "check" /\ HUF_validateCTable(e.huf, count))
  IN  IF usable /\ oldCSize < n /\ (oldCSize <= hSize + newCSize \/ hSize + 12 >= n)
      THEN [HufBasic(e) EXCEPT !.type = set_repeat]
      ELSE IF newCSize + hSize >= n THEN HufBasic(e)
      ELSE [type |-> set_compressed, huf |-> ct, size |-> hSize]

ZSTD_buildBlockEntropyStats_literals(e, src, disabled) ==
  IF disabled \/ Len(src) <= (IF e.hufMode = "valid" THEN 6 ELSE COMPRESS_LITERALS_SIZE_MIN) THEN HufBasic(e)
  ELSE With(HIST_count(src), LAMBDA count :
    IF Largest(count) = Len(src) THEN [HufBasic(e) EXCEPT !.type = set_rle]
    ELSE IF Largest(count) <= (Len(src) \div 128) + 4 THEN HufBasic(e)
    ELSE With(HUF_buildCTable(count, FSE_optimalTableLog(HufLog - 1, Len(src), MaxSymbol(count), 1)), LAMBDA ct :
           HufChoice(e, Len(src), count, ct, SizeOf(HUF_writeCTable(ct)))))

ZSTD_estimateBlockSize_literal(src, h) ==
  CASE h.type = set_basic -> Len(src)
    [] h.type = set_rle -> 1
    [] OTHER -> HUF_estimateCompressedSize(h.huf, HIST_count(src)) + h.size + (IF Len(src) >= 256 THEN 6 ELSE 0)
                + 3 + (IF Len(src) >= 1024 THEN 1 ELSE 0) + (IF Len(src) >= 16384 THEN 1 ELSE 0)

ZSTD_estimateBlockSize_symbolType(k, type, table, codes) ==
  LET cost == CASE type = set_basic -> ZSTD_crossEntropyCost(DefaultNorm[k], DefaultNormLog[k], HIST_count(codes))
                [] type = set_rle -> 0
                [] OTHER -> ZSTD_fseBitCost(table, HIST_count(codes))
  IN  IF cost >= Unusable THEN 10 * Len(codes)
      ELSE FoldLeft(LAMBDA n, c : n + AdditionalBits[k][c], cost, codes) \div 8

(* The header of the sequences, their codes and the tables.                *)
ZSTD_estimateBlockSize_sequences(stats, codes, nbSeq) ==
  2 + (IF nbSeq >= 128 THEN 1 ELSE 0) + (IF nbSeq >= LONGNBSEQ THEN 1 ELSE 0) + SizeOf(stats.bits)
  + FoldSet(LAMBDA k, n : n + ZSTD_estimateBlockSize_symbolType(k, stats.type[k], stats.e.fse[k], codes[k]), 0, Kinds)

ZSTD_estimateSubBlockSize(e, store, p) ==
  ZSTD_blockHeaderSize
  + With(ZSTD_buildBlockEntropyStats_literals(e, store.lits, ZSTD_disableLiteralsCompression(p)), LAMBDA h :
      ZSTD_estimateBlockSize_literal(store.lits, h))
  + With(ZSTD_seqToCodes(store.seqs), LAMBDA codes :
      With(ZSTD_buildSequencesStatistics(e, codes, p.strategy), LAMBDA stats :
        ZSTD_estimateBlockSize_sequences(stats, codes, Len(store.seqs))))

-----------------------------------------------------------------------------
(* Where a block is split.                                                 *)

ZSTD_countSeqStoreLiteralsBytes(seqs) == FoldLeft(LAMBDA n, q : n + q.ll, 0, seqs)

ZSTD_countSeqStoreMatchBytes(seqs) == FoldLeft(LAMBDA n, q : n + q.ml, 0, seqs)

(* The sequences after the first `from' up to the one numbered `to'; the   *)
(* last ones have the literals behind them, too.                           *)
ZSTD_deriveSeqStoreChunk(store, from, to) ==
  LET seqs   == SubSeq(store.seqs, from + 1, to)
      before == ZSTD_countSeqStoreLiteralsBytes(SubSeq(store.seqs, 1, from))
      end    == IF to = Len(store.seqs) THEN Len(store.lits) ELSE before + ZSTD_countSeqStoreLiteralsBytes(seqs)
  IN  [seqs |-> seqs, lits |-> SubSeq(store.lits, before + 1, end)]

Smaller(e, store, p, from, mid, to) ==
  LET size(a, b) == ZSTD_estimateSubBlockSize(e, ZSTD_deriveSeqStoreChunk(store, a, b), p)
  IN  size(from, mid) + size(mid, to) < size(from, to)

RECURSIVE ZSTD_deriveBlockSplitsHelper(_, _, _, _, _, _)
ZSTD_deriveBlockSplitsHelper(splits, e, store, p, from, to) ==
  LET mid == (from + to) \div 2
  IN  IF to - from < SplitMin \/ Len(splits) >= MAX_NB_SPLITS THEN splits
      ELSE IF ~Smaller(e, store, p, from, mid, to) THEN splits
      ELSE With(ZSTD_deriveBlockSplitsHelper(splits, e, store, p, from, mid), LAMBDA left :
             ZSTD_deriveBlockSplitsHelper(Append(left, mid), e, store, p, mid, to))

ZSTD_deriveBlockSplits(e, store, p) ==
  IF Len(store.seqs) <= 4 THEN <<>> ELSE ZSTD_deriveBlockSplitsHelper(<<>>, e, store, p, 0, Len(store.seqs))

-----------------------------------------------------------------------------
(* The last offsets of decoder and encoder, d and c: an offset that means  *)
(* something else to the decoder is written out.                           *)

ZSTD_resolveRepcodeToRawOffset(rep, offCode, ll0) ==
  LET adjusted == offCode + (IF ll0 THEN 1 ELSE 0)
  IN  IF adjusted = ZSTD_REP_NUM THEN rep[1] - 1 ELSE rep[adjusted + 1]

Resolve(r, q) ==
  LET ll0 == q.ll = 0
      raw == ZSTD_resolveRepcodeToRawOffset(r.c, q.of, ll0)
      of  == IF q.of > ZSTD_REP_MOVE THEN q.of
             ELSE IF ZSTD_resolveRepcodeToRawOffset(r.d, q.of, ll0) # raw THEN raw + ZSTD_REP_MOVE ELSE q.of
  IN  [d |-> ZSTD_updateRep(r.d, of, ll0), c |-> ZSTD_updateRep(r.c, q.of, ll0),
       seqs |-> Append(r.seqs, [q EXCEPT !.of = of])]

ZSTD_seqStore_resolveOffCodes(d, c, seqs) == FoldLeft(Resolve, [d |-> d, c |-> c, seqs |-> <<>>], seqs)
=============================================================================

---------------------------- MODULE ZstdCompress ----------------------------
(***************************************************************************)
(* lib/zstd/compress/zstd_compress.c: a context, which is used for frame   *)
(* after frame, dictionaries, and how input becomes blocks.                *)
(*                                                                         *)
(* c is the context: match state ms, block state prev, the applied         *)
(* parameters p, `stage', whether the next block is the first, the size    *)
(* pledged and the size consumed, the memory of the input.  `gap' is set   *)
(* where the code asserts that an attached dictionary is next to the       *)
(* input.  A workspace too small for the tables is replaced; what old      *)
(* tables leave in it stays, as the code leaves it there.                  *)
(***************************************************************************)
EXTENDS ZstdMatch, ZstdBlock

CONSTANT IndexMargin    \* ZSTD_INDEXOVERFLOW_MARGIN, 16 MB

ASSUME IndexMarginAssumption == IndexMargin \in 1 .. CurrentMax

ZSTD_HASHLOG_MIN == 6
ZSTD_USE_CDICT_PARAMS_SRCSIZE_CUTOFF == 128 * 1024
ZSTD_USE_CDICT_PARAMS_DICTSIZE_MULTIPLIER == 6
ZSTD_WINDOWLOG_MAX_RESIZE == 2^30

MemBytes(mem, at, n) == [i \in 1 .. n |-> mem[at + i - 1]]

Less(a, b) == a # Unknown /\ a < b

-----------------------------------------------------------------------------
(* Starting a frame.                                                       *)

ZSTD_reset_compressedBlockState(e) ==
  [e EXCEPT !.hufMode = "none", !.mode = [k \in Kinds |-> "none"], !.rep = repStartValue]

ZSTD_invalidateMatchState(ms) ==
  With(ZSTD_window_clear(ms.w), LAMBDA w :
    [ms EXCEPT !.w = w, !.nextToUpdate = w.dictLimit, !.loadedDictEnd = 0, !.dms = <<>>])

ChainSize(p) == IF p.strategy = 1 THEN 0 ELSE 2^p.chainLog

Rows(table) == [i \in 1 .. Cardinality(DOMAIN table) |-> table[i - 1]]

(* ZSTD_cwksp_reserve_table() and ZSTD_cwksp_clean_tables()                *)
Reserve(area, from, n) ==
  FromZero(SubSeq(area, from + 1, Min({from + n, Len(area)})) \o Times(0, Min({n, Max({0, from + n - Len(area)})})))

Tables(ms, p, area) ==
  [ms EXCEPT !.hash = Reserve(area, 0, 2^p.hashLog), !.chain = Reserve(area, 2^p.hashLog, ChainSize(p)),
             !.spare = SubSeq(area, 2^p.hashLog + ChainSize(p) + 1, Len(area))]

ZSTD_reset_matchState(ms, p, reset) ==
  Tables(ZSTD_invalidateMatchState(IF reset THEN [ms EXCEPT !.w = ZSTD_window_init] ELSE ms), p,
         IF reset THEN <<>> ELSE Rows(ms.hash) \o Rows(ms.chain) \o ms.spare)

ZSTD_indexTooCloseToMax(w) == w.nextSrc - w.base > CurrentMax - IndexMargin

ZSTD_resetCCtx_internal(c, p, pledged) ==
  LET window == 2^p.windowLog
      tables == 2^p.hashLog + ChainSize(p)
  IN  [c EXCEPT !.first = TRUE, !.p = [p EXCEPT !.contentSizeFlag = @ /\ pledged # Unknown],
                !.pledged = pledged, !.consumed = 0, !.stage = "init", !.dictID = 0,
                !.blockSize = Min({ZSTD_BLOCKSIZE_MAX, Max({1, IF Less(pledged, window) THEN pledged ELSE window})}),
                !.prev = ZSTD_reset_compressedBlockState(@), !.space = Max({@, tables}),
                !.ms = ZSTD_reset_matchState(@, p, tables > c.space \/ ZSTD_indexTooCloseToMax(c.ms.w))]

(* The first use of a context, which has no workspace yet.                 *)
ZSTD_initCCtx(e, mem) ==
  [ms |-> [w |-> ZSTD_window_init, hash |-> <<>>, chain |-> <<>>, spare |-> <<>>, nextToUpdate |-> 0,
           loadedDictEnd |-> 0, dms |-> <<>>, force |-> FALSE],
   prev |-> e, first |-> TRUE, stage |-> "created", p |-> <<>>, pledged |-> Unknown, consumed |-> 0,
   blockSize |-> 0, dictID |-> 0, space |-> 0, mem |-> mem, gap |-> FALSE, error |-> FALSE]

-----------------------------------------------------------------------------
(* Dictionaries.                                                           *)

(* ZSTD_fillHashTable() from where the last update ended.                  *)
Filled(mem, ms, p, iend, full) ==
  LET q == [mem |-> mem, base |-> ms.w.base, border |-> 0, dictBase |-> 0, double |-> p.strategy = 2,
            mls |-> MatchBytes(p), limit |-> iend - ms.w.base - HASH_READ_SIZE]
  IN  With(ZSTD_fillHashTable(q, [hash |-> ms.hash, chain |-> ms.chain], ms.nextToUpdate, full), LAMBDA f :
        [ms EXCEPT !.hash = f.hash, !.chain = f.chain, !.nextToUpdate = iend - ms.w.base])

ZSTD_loadDictionaryContent(mem, ms, p, at, n, full) ==
  With(ZSTD_window_update(ms.w, at, n, FALSE).w, LAMBDA w :
    With([ms EXCEPT !.w = w, !.loadedDictEnd = IF p.forceWindow THEN 0 ELSE at + n - w.base,
                    !.force = p.deterministicRefPrefix], LAMBDA m :
      IF n <= HASH_READ_SIZE THEN m
      ELSE Filled(mem, ZSTD_overflowCorrectIfNeeded(m, p.chainLog, 2^p.windowLog, at, at + n), p, at + n, full)))

ZSTD_dictNCountRepeat(norm, maxSymbolValue) ==
  IF \A s \in 0 .. maxSymbolValue : s \in DOMAIN norm /\ norm[s] # 0 THEN "valid" ELSE "check"

(* HUF_readCTable()                                                        *)
HUF_readCTable(stats) ==
  Codes([s \in DOMAIN stats.weight |-> IF stats.weight[s] = 0 THEN 0 ELSE stats.tableLog + 1 - stats.weight[s]])

DictCounts(src) ==
  FoldLeft(LAMBDA r, k :
             Try(r, LAMBDA b :
               Try(FSE_readNCount(From(src, b.size), MaxCode[k] + 1), LAMBDA h :
                 IF h.tableLog > FSELog[k] THEN Error
                 ELSE [error |-> FALSE, size |-> b.size + h.size, norm |-> [b.norm EXCEPT ![k] = h.norm],
                       table |-> [b.table EXCEPT ![k] = FSE_buildCTable(h.norm, h.tableLog)]])),
           [error |-> FALSE, size |-> 0, norm |-> [k \in Kinds |-> <<>>], table |-> [k \in Kinds |-> <<>>]],
           <<"OF", "ML", "LL">>)

(* Tables are used without a look at what is coded only if they have every *)
(* symbol: of the offsets, those the first block may use.                  *)
ZSTD_loadCEntropy(e, dict) ==
  Try(HUF_readStats(From(dict, 8)), LAMBDA stats :
    IF Cardinality(DOMAIN stats.weight) < 256 THEN Error
    ELSE Try(DictCounts(From(dict, 8 + stats.size)), LAMBDA f :
      Try(DictOffsets(From(dict, 8 + stats.size + f.size), 8 + stats.size + f.size), LAMBDA r :
        LET offcodeMax == BIT_highbit32(SizeOf(dict) - r.size + 128 * 1024)
            needed     == [MaxCode EXCEPT !["OF"] = Min({offcodeMax, MaxOff})]
        IN  [error |-> FALSE, size |-> r.size,
             e |-> [huf |-> HUF_readCTable(stats),
                    hufMode |-> IF 0 \in Range(stats.weight) THEN "check" ELSE "valid", fse |-> f.table,
                    mode |-> [k \in Kinds |-> ZSTD_dictNCountRepeat(f.norm[k], needed[k])], rep |-> r.rep]])))

ZSTD_loadZstdDictionary(mem, e, ms, p, d, dict, full) ==
  Try(ZSTD_loadCEntropy(e, dict), LAMBDA l :
    [error |-> FALSE, e |-> l.e, dictID |-> IF p.noDictID THEN 0 ELSE Slice(dict, 32, 32),
     ms |-> ZSTD_loadDictionaryContent(mem, ms, p, d.at + l.size, d.size - l.size, full)])

(* d is where a dictionary is, its size and its type "auto", "raw" or      *)
(* "full".                                                                 *)
ZSTD_compress_insertDictionary(mem, e, ms, p, d, full) ==
  LET none == [error |-> FALSE, e |-> e, ms |-> ms, dictID |-> 0]
  IN  IF d.size < 8 THEN IF d.type = "full" THEN Error ELSE none
      ELSE With(Bytes(MemBytes(mem, d.at, d.size)), LAMBDA dict :
        IF d.type # "raw" /\ IsDictionary(dict)
        THEN ZSTD_loadZstdDictionary(mem, ZSTD_reset_compressedBlockState(e), ms, p, d, dict, full)
        ELSE IF d.type = "full" THEN Error
        ELSE [none EXCEPT !.e = ZSTD_reset_compressedBlockState(e),
                          !.ms = ZSTD_loadDictionaryContent(mem, ms, p, d.at, d.size, full)])

(* ZSTD_initCDict_internal(): a digested dictionary.                       *)
ZSTD_initCDict(c, p, d) ==
  Try(ZSTD_compress_insertDictionary(c.mem, ZSTD_reset_compressedBlockState(c.prev),
                                     ZSTD_reset_matchState(c.ms, p, TRUE), p, d, TRUE), LAMBDA i :
      [error |-> FALSE, ms |-> i.ms, prev |-> i.e, dictID |-> i.dictID, d |-> d, p |-> p])

attachDictSizeCutoffs == <<8 * 1024, 16 * 1024>>

ZSTD_shouldAttachDict(cdict, p, pledged) ==
  /\ \/ pledged = Unknown
     \/ pledged <= attachDictSizeCutoffs[cdict.p.strategy]
     \/ p.attach = "attach"
  /\ p.attach # "copy"
  /\ ~p.forceWindow

(* ZSTD_adjustCParams_internal() for input alone.                          *)
ZSTD_adjustCParams(p, srcSize) ==
  LET srcLog == IF srcSize < 2^ZSTD_HASHLOG_MIN THEN ZSTD_HASHLOG_MIN ELSE BIT_highbit32(srcSize - 1) + 1
      windowLog == IF Less(srcSize, ZSTD_WINDOWLOG_MAX_RESIZE) THEN Min({p.windowLog, srcLog}) ELSE p.windowLog
      sized == [p EXCEPT !.windowLog = Max({windowLog, MinWindowLog})]
  IN  IF srcSize = Unknown THEN sized
      ELSE [sized EXCEPT !.hashLog = Min({@, windowLog + 1}), !.chainLog = Min({@, windowLog})]

(* What decides on the tables is taken from the dictionary.                *)
TableParams(p, q) ==
  [p EXCEPT !.strategy = q.strategy, !.hashLog = q.hashLog, !.chainLog = q.chainLog, !.minMatch = q.minMatch,
            !.targetLength = q.targetLength]

(* Indices of an attached dictionary have to fit in front of the input.    *)
Attached(ms, dict) ==
  LET end == dict.w.nextSrc - dict.w.base
  IN  IF end = dict.w.dictLimit THEN ms
      ELSE With(IF ms.w.dictLimit < end THEN ZSTD_window_clear([ms.w EXCEPT !.nextSrc = ms.w.base + end]) ELSE ms.w,
                LAMBDA w : [ms EXCEPT !.w = w, !.dms = <<dict>>, !.loadedDictEnd = w.dictLimit])

ZSTD_resetCCtx_byAttachingCDict(c, cdict, p, pledged) ==
  With(ZSTD_resetCCtx_internal(c, TableParams(p, ZSTD_adjustCParams(cdict.p, pledged)), pledged), LAMBDA r :
    [r EXCEPT !.ms = Attached(@, cdict.ms), !.dictID = cdict.dictID, !.prev = cdict.prev])

ZSTD_resetCCtx_byCopyingCDict(c, cdict, p, pledged) ==
  With(ZSTD_resetCCtx_internal(c, TableParams(p, cdict.p), pledged), LAMBDA r :
    [r EXCEPT !.ms = [@ EXCEPT !.hash = cdict.ms.hash, !.chain = cdict.ms.chain, !.spare = <<>>, !.w = cdict.ms.w,
                               !.nextToUpdate = cdict.ms.nextToUpdate, !.loadedDictEnd = cdict.ms.loadedDictEnd],
              !.dictID = cdict.dictID, !.prev = cdict.prev])

ZSTD_resetCCtx_usingCDict(c, cdict, p, pledged) ==
  IF ZSTD_shouldAttachDict(cdict, p, pledged) THEN ZSTD_resetCCtx_byAttachingCDict(c, cdict, p, pledged)
  ELSE ZSTD_resetCCtx_byCopyingCDict(c, cdict, p, pledged)

UseCDictParams(cdict, p, pledged) ==
  /\ cdict.d.size > 0
  /\ \/ Less(pledged, ZSTD_USE_CDICT_PARAMS_SRCSIZE_CUTOFF)
     \/ Less(pledged, ZSTD_USE_CDICT_PARAMS_DICTSIZE_MULTIPLIER * cdict.d.size)
     \/ pledged = Unknown
  /\ p.attach # "load"

WithDictionary(r, i) ==
  IF i.error THEN [r EXCEPT !.error = TRUE] ELSE [r EXCEPT !.prev = i.e, !.ms = i.ms, !.dictID = i.dictID]

(* ZSTD_compressBegin_internal() with a digested dictionary, if there is   *)
(* one, or with one that is loaded for this frame only.                    *)
ZSTD_compressBegin(c, cdicts, d, p, pledged) ==
  IF cdicts # <<>> /\ UseCDictParams(cdicts[1], p, pledged) THEN ZSTD_resetCCtx_usingCDict(c, cdicts[1], p, pledged)
  ELSE With(ZSTD_resetCCtx_internal(c, p, pledged), LAMBDA r :
         WithDictionary(r, ZSTD_compress_insertDictionary(r.mem, r.prev, r.ms, r.p,
                                                     IF cdicts # <<>> THEN cdicts[1].d ELSE d, FALSE)))

-----------------------------------------------------------------------------
(* Blocks.                                                                 *)

(* ZSTD_buildSeqStore(): <<>> for a block too small to be compressed.      *)
LimitedUpdate(ms, curr) ==
  IF curr > ms.nextToUpdate + 384 THEN [ms EXCEPT !.nextToUpdate = curr - Min({192, curr - @ - 384})] ELSE ms

ZSTD_buildSeqStore(c, ip, n) ==
  IF n < MIN_CBLOCK_SIZE + ZSTD_blockHeaderSize + 1 THEN [c |-> c, store |-> <<>>]
  ELSE With(LimitedUpdate(c.ms, ip - c.ms.w.base), LAMBDA ms :
    With(ZSTD_compressBlock_search(c.mem, ms, c.p, c.prev.rep, ip, n), LAMBDA r :
      [c |-> [c EXCEPT !.ms = [ms EXCEPT !.hash = r.hash, !.chain = r.chain],
                       !.gap = @ \/ (ms.dms # <<>> /\ ms.loadedDictEnd # ms.w.dictLimit)],
       store |-> <<[seqs |-> r.seqs, lits |-> r.lits]>>, rep |-> r.rep]))

BlockHeader(last, type, size) == Bits(IF last THEN 1 ELSE 0, 1) \o Bits(type, 2) \o Bits(size, 21)

(* After the first block the offsets may need codes the table of a         *)
(* dictionary does not have.                                               *)
Demoted(c) == IF c.prev.mode["OF"] = "valid" THEN [c EXCEPT !.prev.mode["OF"] = "check"] ELSE c

ZSTD_noCompressBlock(c, src, last) ==
  [c |-> Demoted(c), bits |-> BlockHeader(last, bt_raw, Len(src)) \o Bytes(src), coded |-> FALSE]

(* How a block is written, of whose body `coded' has the bits; tables and  *)
(* offsets are confirmed only if it is used.                               *)
EmitBlock(c, coded, rep, src, last) ==
  IF ~c.first /\ SizeOf(coded.bits) < rleMaxLength /\ AllSame(src)
  THEN [c |-> Demoted(c), bits |-> BlockHeader(last, bt_rle, Len(src)) \o Bytes(<<src[1]>>), coded |-> FALSE]
  ELSE IF coded.bits = <<>> THEN ZSTD_noCompressBlock(c, src, last)
  ELSE [c |-> Demoted([c EXCEPT !.prev = [coded.e EXCEPT !.rep = rep]]),
        bits |-> BlockHeader(last, bt_compressed, SizeOf(coded.bits)) \o coded.bits, coded |-> TRUE]

(* ZSTD_compressSeqStore_singleBlock() of a part of a block: b has the     *)
(* context, the bits so far, the last offsets d and c of decoder and       *)
(* encoder and the bytes already done.                                     *)
Partition(b, chunk, n, last) ==
  With(SubSeq(b.src, 1, n), LAMBDA src :
    With(ZSTD_seqStore_resolveOffCodes(b.dRep, b.cRep, chunk.seqs), LAMBDA r :
      With(EmitBlock(b.c, ZSTD_entropyCompressSeqStore(b.c.prev, [chunk EXCEPT !.seqs = r.seqs], n, b.c.p),
                     b.c.prev.rep, src, last), LAMBDA out :
        [c |-> out.c, bits |-> b.bits \o out.bits, src |-> SubSeq(b.src, n + 1, Len(b.src)),
         dRep |-> IF out.coded THEN r.d ELSE b.dRep, cRep |-> r.c])))

(* ZSTD_compressBlock_splitBlock_internal(): the last part has the         *)
(* literals behind the last sequence.                                      *)
Partitions(c, store, ends, src, last) ==
  With(FoldLeft(LAMBDA b, i :
                  With(ZSTD_deriveSeqStoreChunk(store, IF i = 1 THEN 0 ELSE ends[i - 1], ends[i]), LAMBDA chunk :
                    Partition(b, chunk, IF i = Len(ends) THEN Len(b.src)
                                        ELSE ZSTD_countSeqStoreLiteralsBytes(chunk.seqs)
                                             + ZSTD_countSeqStoreMatchBytes(chunk.seqs), last /\ i = Len(ends))),
                [c |-> c, bits |-> <<>>, src |-> src, dRep |-> c.prev.rep, cRep |-> c.prev.rep],
                [i \in DOMAIN ends |-> i]),
       LAMBDA b : [c |-> [b.c EXCEPT !.prev.rep = b.dRep], bits |-> b.bits])

(* ZSTD_compressBlock_splitBlock() and ZSTD_compressBlock_internal()       *)
ZSTD_compressBlock(c, ip, n, last) ==
  With(MemBytes(c.mem, ip, n), LAMBDA src :
    With(ZSTD_buildSeqStore(c, ip, n), LAMBDA b :
      IF b.store = <<>> THEN ZSTD_noCompressBlock(b.c, src, last)
      ELSE With(IF c.p.split THEN ZSTD_deriveBlockSplits(b.c.prev, b.store[1], c.p) ELSE <<>>, LAMBDA splits :
        IF splits # <<>> THEN Partitions(b.c, b.store[1], Append(splits, Len(b.store[1].seqs)), src, last)
        ELSE EmitBlock(b.c, ZSTD_entropyCompressSeqStore(b.c.prev, b.store[1], n, c.p), b.rep, src, last))))

(* What is done to the window before a block.                              *)
Prepared(c, ip, n) ==
  LET maxDist == 2^c.p.windowLog
      ms == ZSTD_window_enforceMaxDist(
              ZSTD_checkDictValidity(ZSTD_overflowCorrectIfNeeded(c.ms, c.p.chainLog, maxDist, ip, ip + n),
                                     ip + n, maxDist), ip, maxDist)
  IN  [c EXCEPT !.ms = [ms EXCEPT !.nextToUpdate = Max({@, ms.w.lowLimit})]]

RECURSIVE ZSTD_compress_frameChunk(_, _, _, _)
ZSTD_compress_frameChunk(c, ip, n, last) ==
  IF n = 0 THEN [c |-> c, bits |-> <<>>]
  ELSE With(Min({c.blockSize, n}), LAMBDA size :
    With(ZSTD_compressBlock(Prepared(c, ip, size), ip, size, last /\ c.blockSize >= n), LAMBDA b :
      With(ZSTD_compress_frameChunk([b.c EXCEPT !.first = FALSE, !.stage = IF last THEN "ending" ELSE @],
                                    ip + size, n - size, last), LAMBDA r :
        [c |-> r.c, bits |-> b.bits \o r.bits])))

-----------------------------------------------------------------------------
(* Frames.                                                                 *)

ZSTD_writeFrameHeader(p, pledged, dictID) ==
  LET id  == IF p.noDictID \/ dictID = 0 THEN 0 ELSE IF dictID >= 65536 THEN 3 ELSE IF dictID >= 256 THEN 2 ELSE 1
      single == p.contentSizeFlag /\ 2^p.windowLog >= pledged
      fcs == IF ~p.contentSizeFlag \/ pledged < 256 THEN 0 ELSE IF pledged >= 65536 + 256 THEN 2 ELSE 1
  IN  (IF p.magicless THEN <<>> ELSE ZSTD_MAGICNUMBER)
      \o Bits(id, 2) \o <<0, 0, 0>> \o Bits(IF single THEN 1 ELSE 0, 1) \o Bits(fcs, 2)
      \o (IF single THEN <<>> ELSE Bits(8 * (p.windowLog - MinWindowLog), 8))
      \o (IF id = 3 THEN Bits32(dictID) ELSE Bits(dictID, 8 * id))
      \o (CASE fcs = 0 -> Bits(pledged, IF single THEN 8 ELSE 0)
             [] fcs = 1 -> Bits(pledged - 256, 16)
             [] fcs = 2 -> Bits32(pledged))

ZSTD_writeSkippableFrame(content, magicVariant) ==
  Bits(magicVariant, 4) \o SubSeq(ZSTD_MAGIC_SKIPPABLE_START, 5, 32) \o Bits32(Len(content)) \o Bytes(content)

ZSTD_writeLastEmptyBlock == BlockHeader(TRUE, bt_raw, 0)

(* The window with new input; matches across a gap are not looked for.     *)
Windowed(c, at, n) ==
  With(ZSTD_window_update(c.ms.w, at, n, c.ms.force), LAMBDA u :
    IF u.contiguous THEN [c EXCEPT !.ms.w = u.w]
    ELSE [c EXCEPT !.ms = [@ EXCEPT !.w = u.w, !.force = FALSE, !.nextToUpdate = u.w.dictLimit]])

Consumed(c, n) ==
  [c EXCEPT !.consumed = @ + n, !.error = @ \/ (c.pledged # Unknown /\ c.consumed + n > c.pledged)]

(* ZSTD_compressContinue_internal() of a frame                             *)
ZSTD_compressContinue(c, at, n, last) ==
  LET header == IF c.stage = "init" THEN ZSTD_writeFrameHeader(c.p, c.pledged, c.dictID) ELSE <<>>
      started == [c EXCEPT !.stage = IF @ = "init" THEN "ongoing" ELSE @]
  IN  IF c.error \/ c.stage = "created" THEN [c |-> [c EXCEPT !.error = TRUE], bits |-> <<>>]
      ELSE IF n = 0 THEN [c |-> started, bits |-> header]
      ELSE With(ZSTD_compress_frameChunk(Windowed(started, at, n), at, n, last), LAMBDA r :
             [c |-> Consumed(r.c, n), bits |-> header \o r.bits])

ZSTD_writeEpilogue(c) ==
  [c |-> [c EXCEPT !.stage = "created"],
   bits |-> (IF c.stage = "init" THEN ZSTD_writeFrameHeader(c.p, 0, 0) ELSE <<>>)
            \o (IF c.stage = "ending" THEN <<>> ELSE ZSTD_writeLastEmptyBlock)]

(* ZSTD_compressEnd(): r is the result of the last chunk.                  *)
ZSTD_compressEnd(r) ==
  IF r.c.error THEN r
  ELSE With(ZSTD_writeEpilogue(r.c), LAMBDA e :
         [c |-> [e.c EXCEPT !.error = e.c.pledged \notin {Unknown, e.c.consumed}], bits |-> r.bits \o e.bits])
=============================================================================

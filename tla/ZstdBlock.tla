----------------------------- MODULE ZstdBlock ------------------------------
(***************************************************************************)
(* lib/zstd/decompress/zstd_decompress_block.c: a compressed block is a    *)
(* section of literals and a section of sequences, each of which copies    *)
(* some literals and a match.                                              *)
(*                                                                         *)
(* Input is a sequence of bits, 8 to the byte.  `x' is the context with    *)
(* what later blocks use: the tables, the last offsets, the flags.  `s' is *)
(* the memory of the output (module Memory) with op, the literals and what *)
(* is known of the caller.                                                 *)
(***************************************************************************)
EXTENDS ZstdTables, Memory

WILDCOPY_OVERLENGTH == 32
WILDCOPY_VECLEN == 16
ADVANCED_SEQS == 8

-----------------------------------------------------------------------------
(* Bases of the codes and the tables of the default distributions, which   *)
(* the code has as constants.                                              *)

LL_base == FromZero(UpTo(16) \o <<16, 18, 20, 22, 24, 28, 32, 40, 48>> \o [i \in 1 .. 11 |-> 2^(i + 5)])

OF_base == [c \in 0 .. MaxOff |-> IF c < 2 THEN c ELSE IF c = MaxOff THEN 2147483645 ELSE 2^c - 3]

ML_base ==
  FromZero([i \in 1 .. 32 |-> i + 2] \o <<35, 37, 39, 41, 43, 47, 51, 59, 67, 83, 99>>
           \o [i \in 1 .. 10 |-> 2^(i + 6) + 3])

BaseValue == [k \in Kinds |-> CASE k = "LL" -> LL_base [] k = "OF" -> OF_base [] k = "ML" -> ML_base]

Table(log, rows) ==
  [tableLog |-> log,
   cell |-> [u \in 0 .. 2^log - 1 |-> [nextState |-> rows[u + 1][1], nbAdditionalBits |-> rows[u + 1][2],
                                       nbBits |-> rows[u + 1][3], baseValue |-> rows[u + 1][4]]]]

LL_defaultDTable ==
  Table(6, <<
    <<0, 0, 4, 0>>, <<16, 0, 4, 0>>, <<32, 0, 5, 1>>, <<0, 0, 5, 3>>, <<0, 0, 5, 4>>, <<0, 0, 5, 6>>,
    <<0, 0, 5, 7>>, <<0, 0, 5, 9>>, <<0, 0, 5, 10>>, <<0, 0, 5, 12>>, <<0, 0, 6, 14>>,
    <<0, 1, 5, 16>>, <<0, 1, 5, 20>>, <<0, 1, 5, 22>>, <<0, 2, 5, 28>>, <<0, 3, 5, 32>>,
    <<0, 4, 5, 48>>, <<32, 6, 5, 64>>, <<0, 7, 5, 128>>, <<0, 8, 6, 256>>, <<0, 10, 6, 1024>>,
    <<0, 12, 6, 4096>>, <<32, 0, 4, 0>>, <<0, 0, 4, 1>>, <<0, 0, 5, 2>>, <<32, 0, 5, 4>>,
    <<0, 0, 5, 5>>, <<32, 0, 5, 7>>, <<0, 0, 5, 8>>, <<32, 0, 5, 10>>, <<0, 0, 5, 11>>,
    <<0, 0, 6, 13>>, <<32, 1, 5, 16>>, <<0, 1, 5, 18>>, <<32, 1, 5, 22>>, <<0, 2, 5, 24>>,
    <<32, 3, 5, 32>>, <<0, 3, 5, 40>>, <<0, 6, 4, 64>>, <<16, 6, 4, 64>>, <<32, 7, 5, 128>>,
    <<0, 9, 6, 512>>, <<0, 11, 6, 2048>>, <<48, 0, 4, 0>>, <<16, 0, 4, 1>>, <<32, 0, 5, 2>>,
    <<32, 0, 5, 3>>, <<32, 0, 5, 5>>, <<32, 0, 5, 6>>, <<32, 0, 5, 8>>, <<32, 0, 5, 9>>,
    <<32, 0, 5, 11>>, <<32, 0, 5, 12>>, <<0, 0, 6, 15>>, <<32, 1, 5, 18>>, <<32, 1, 5, 20>>,
    <<32, 2, 5, 24>>, <<32, 2, 5, 28>>, <<32, 3, 5, 40>>, <<32, 4, 5, 48>>, <<0, 16, 6, 65536>>,
    <<0, 15, 6, 32768>>, <<0, 14, 6, 16384>>, <<0, 13, 6, 8192>>>>)

OF_defaultDTable ==
  Table(5, <<
    <<0, 0, 5, 0>>, <<0, 6, 4, 61>>, <<0, 9, 5, 509>>, <<0, 15, 5, 32765>>, <<0, 21, 5, 2097149>>,
    <<0, 3, 5, 5>>, <<0, 7, 4, 125>>, <<0, 12, 5, 4093>>, <<0, 18, 5, 262141>>,
    <<0, 23, 5, 8388605>>, <<0, 5, 5, 29>>, <<0, 8, 4, 253>>, <<0, 14, 5, 16381>>,
    <<0, 20, 5, 1048573>>, <<0, 2, 5, 1>>, <<16, 7, 4, 125>>, <<0, 11, 5, 2045>>,
    <<0, 17, 5, 131069>>, <<0, 22, 5, 4194301>>, <<0, 4, 5, 13>>, <<16, 8, 4, 253>>,
    <<0, 13, 5, 8189>>, <<0, 19, 5, 524285>>, <<0, 1, 5, 1>>, <<16, 6, 4, 61>>, <<0, 10, 5, 1021>>,
    <<0, 16, 5, 65533>>, <<0, 28, 5, 268435453>>, <<0, 27, 5, 134217725>>, <<0, 26, 5, 67108861>>,
    <<0, 25, 5, 33554429>>, <<0, 24, 5, 16777213>>>>)

ML_defaultDTable ==
  Table(6, <<
    <<0, 0, 6, 3>>, <<0, 0, 4, 4>>, <<32, 0, 5, 5>>, <<0, 0, 5, 6>>, <<0, 0, 5, 8>>, <<0, 0, 5, 9>>,
    <<0, 0, 5, 11>>, <<0, 0, 6, 13>>, <<0, 0, 6, 16>>, <<0, 0, 6, 19>>, <<0, 0, 6, 22>>,
    <<0, 0, 6, 25>>, <<0, 0, 6, 28>>, <<0, 0, 6, 31>>, <<0, 0, 6, 34>>, <<0, 1, 6, 37>>,
    <<0, 1, 6, 41>>, <<0, 2, 6, 47>>, <<0, 3, 6, 59>>, <<0, 4, 6, 83>>, <<0, 7, 6, 131>>,
    <<0, 9, 6, 515>>, <<16, 0, 4, 4>>, <<0, 0, 4, 5>>, <<32, 0, 5, 6>>, <<0, 0, 5, 7>>,
    <<32, 0, 5, 9>>, <<0, 0, 5, 10>>, <<0, 0, 6, 12>>, <<0, 0, 6, 15>>, <<0, 0, 6, 18>>,
    <<0, 0, 6, 21>>, <<0, 0, 6, 24>>, <<0, 0, 6, 27>>, <<0, 0, 6, 30>>, <<0, 0, 6, 33>>,
    <<0, 1, 6, 35>>, <<0, 1, 6, 39>>, <<0, 2, 6, 43>>, <<0, 3, 6, 51>>, <<0, 4, 6, 67>>,
    <<0, 5, 6, 99>>, <<0, 8, 6, 259>>, <<32, 0, 4, 4>>, <<48, 0, 4, 4>>, <<16, 0, 4, 5>>,
    <<32, 0, 5, 7>>, <<32, 0, 5, 8>>, <<32, 0, 5, 10>>, <<32, 0, 5, 11>>, <<0, 0, 6, 14>>,
    <<0, 0, 6, 17>>, <<0, 0, 6, 20>>, <<0, 0, 6, 23>>, <<0, 0, 6, 26>>, <<0, 0, 6, 29>>,
    <<0, 0, 6, 32>>, <<0, 16, 6, 65539>>, <<0, 15, 6, 32771>>, <<0, 14, 6, 16387>>,
    <<0, 13, 6, 8195>>, <<0, 12, 6, 4099>>, <<0, 11, 6, 2051>>, <<0, 10, 6, 1027>>>>)
DefaultDTable ==
  [k \in Kinds |-> CASE k = "LL" -> LL_defaultDTable [] k = "OF" -> OF_defaultDTable [] k = "ML" -> ML_defaultDTable]

-----------------------------------------------------------------------------
(* Literals.  The buffer has zeros behind them, or the rest of the block.  *)

BytesOf(bits) == [i \in 1 .. SizeOf(bits) |-> ByteAt(bits, i - 1)]

Buffered(lits) == lits \o Times(0, WILDCOPY_OVERLENGTH)

(* HUF_decompress1X1_DCtx_wksp() and HUF_decompress4X_hufOnly_wksp(), with *)
(* the table of the choice HUF_selectDecoder() makes for four streams.     *)
HufTable(src, single, double) ==
  IF src = <<>> THEN Error
  ELSE Try(HUF_readStats(src), LAMBDA stats :
         IF stats.size >= SizeOf(src) THEN Error
         ELSE Try(IF single \/ ~double THEN HUF_DTableX1(stats, HufLog - 1) ELSE HUF_DTableX2(stats, HufLog),
                  LAMBDA dt : [error |-> FALSE, dt |-> dt, size |-> stats.size]))

HufLiterals(src, dt, litSize, single) ==
  IF litSize = 0 /\ ~single THEN Error
  ELSE IF single THEN HUF_decompress1X(src, dt, litSize) ELSE HUF_decompress4X(src, dt, litSize)

LiteralsWidth(lhlCode) == CASE lhlCode <= 1 -> 10 [] lhlCode = 2 -> 14 [] lhlCode = 3 -> 18

(* The literals from behind their header, the table being new or old.      *)
DecodeLiterals(x, coded, litSize, single, double, repeated) ==
  Try(IF repeated THEN [error |-> FALSE, dt |-> x.huf, size |-> 0] ELSE HufTable(coded, single, double),
      LAMBDA table :
        Try(HufLiterals(From(coded, table.size), table.dt, litSize, single), LAMBDA lits :
          [error |-> FALSE, x |-> [x EXCEPT !.litEntropy = TRUE, !.huf = table.dt],
           lits |-> Buffered(lits.out)]))

ZSTD_decodeCompressedLiterals(x, src, litEncType, double) ==
  LET lhlCode  == Slice(src, 2, 2)
      lhSize   == Max({3, lhlCode + 2})
      width    == LiteralsWidth(lhlCode)
      litSize  == Slice(src, 4, width)
      litCSize == Slice(src, 4 + width, width)
  IN  IF (litEncType = set_repeat /\ ~x.litEntropy) \/ SizeOf(src) < 5 THEN Error
      ELSE IF litSize > ZSTD_BLOCKSIZE_MAX \/ litCSize + lhSize > SizeOf(src) THEN Error
      ELSE Try(DecodeLiterals(x, SubSeq(src, 8 * lhSize + 1, 8 * (lhSize + litCSize)), litSize, lhlCode = 0,
                              double, litEncType = set_repeat),
               LAMBDA l : [error |-> FALSE, x |-> l.x, lits |-> l.lits, litSize |-> litSize,
                           size |-> litCSize + lhSize])

(* Raw literals are used in place when there is enough behind them.        *)
ZSTD_decodeLiteralsBlock(x, src, double) ==
  LET litEncType == Slice(src, 0, 2)
      lhlCode == Slice(src, 2, 2)
      lhSize  == CASE lhlCode \in {0, 2} -> 1 [] lhlCode = 1 -> 2 [] lhlCode = 3 -> 3
      litSize == IF lhSize = 1 THEN Slice(src, 3, 5) ELSE Slice(src, 4, 8 * lhSize - 4)
      direct  == lhSize + litSize + WILDCOPY_OVERLENGTH <= SizeOf(src)
      rest    == BytesOf(SubSeq(src, 8 * lhSize + 1, Len(src)))
  IN  IF SizeOf(src) < MIN_CBLOCK_SIZE THEN Error
      ELSE IF litEncType \in {set_compressed, set_repeat}
      THEN ZSTD_decodeCompressedLiterals(x, src, litEncType, double)
      ELSE IF litEncType = set_basic
      THEN IF lhSize + litSize > SizeOf(src) THEN Error
           ELSE [error |-> FALSE, x |-> x, litSize |-> litSize, size |-> lhSize + litSize,
                 lits |-> IF direct THEN rest ELSE Buffered(SubSeq(rest, 1, litSize))]
      ELSE IF (lhlCode = 3 /\ SizeOf(src) < 4) \/ litSize > ZSTD_BLOCKSIZE_MAX THEN Error
      ELSE [error |-> FALSE, x |-> x, litSize |-> litSize, size |-> lhSize + 1,
            lits |-> Times(rest[1], litSize + WILDCOPY_OVERLENGTH)]

-----------------------------------------------------------------------------
(* The head of the sequences: their number and a table for every kind.     *)

ZSTD_buildSeqTable_rle(k, symbol) ==
  IF symbol > MaxCode[k] THEN Error
  ELSE [error |-> FALSE, size |-> 1,
        table |-> Table(0, <<<<0, AdditionalBits[k][symbol], 0, BaseValue[k][symbol]>>>>)]

ZSTD_buildSeqTable(x, k, type, src) ==
  CASE type = set_rle -> IF src = <<>> THEN Error ELSE ZSTD_buildSeqTable_rle(k, ByteAt(src, 0))
    [] type = set_basic -> [error |-> FALSE, size |-> 0, table |-> DefaultDTable[k]]
    [] type = set_repeat -> IF ~x.fseEntropy THEN Error ELSE [error |-> FALSE, size |-> 0, table |-> x.table[k]]
    [] type = set_compressed ->
         Try(FSE_readNCount(src, MaxCode[k] + 1), LAMBDA h :
           IF h.tableLog > FSELog[k] THEN Error
           ELSE [error |-> FALSE, size |-> h.size,
                 table |-> [tableLog |-> h.tableLog,
                            cell |-> ZSTD_buildFSETable(h.norm, h.tableLog, BaseValue[k], AdditionalBits[k])]])

(* The three tables, in an order; each adds to what was read.              *)
SeqTables(x, types, src, order) ==
  FoldLeft(LAMBDA built, k :
             Try(built, LAMBDA b :
               Try(ZSTD_buildSeqTable(x, k, types[k], From(src, b.size)), LAMBDA t :
                 [error |-> FALSE, size |-> b.size + t.size, table |-> [b.table EXCEPT ![k] = t.table]])),
           [error |-> FALSE, size |-> 0, table |-> x.table], order)

ZSTD_decodeSeqHeaders(x, src) ==
  LET first == ByteAt(src, 0)
      at    == CASE first < 128 -> 1 [] first = 255 -> 3 [] OTHER -> 2
      nbSeq == CASE first < 128 -> first [] first = 255 -> Slice(src, 8, 16) + LONGNBSEQ
                 [] OTHER -> (first - 128) * 256 + ByteAt(src, 1)
  IN  IF SizeOf(src) < 1 THEN Error
      ELSE IF first = 0
      THEN IF SizeOf(src) # 1 THEN Error ELSE [error |-> FALSE, nbSeq |-> 0, size |-> 1, x |-> x]
      ELSE IF at + 1 > SizeOf(src) THEN Error
      ELSE Try(SeqTables(x, [LL |-> Slice(src, 8 * at + 6, 2), OF |-> Slice(src, 8 * at + 4, 2),
                             ML |-> Slice(src, 8 * at + 2, 2)], From(src, at + 1), <<"LL", "OF", "ML">>),
               LAMBDA t : [error |-> FALSE, nbSeq |-> nbSeq, size |-> at + 1 + t.size,
                           x |-> [x EXCEPT !.table = t.table]])

-----------------------------------------------------------------------------
(* Copies.  Literals come from their own buffer (src = "lits"), matches    *)
(* from the output.                                                        *)

CopyEach(s, src, at, from, end) ==
  IF src = "lits" THEN CopyFrom(s, at, s.lits, from, end - at) ELSE CopyBytes(s, at, from, end)

(* ZSTD_wildcopy(): 16 bytes first and then, but on ARM, 32 at a time; 8   *)
(* at a time where the ranges are near.                                    *)
Copied16(s, length) ==
  IF s.aarch64 THEN Stripes(length, 16) ELSE IF length <= 16 THEN 16 ELSE 16 + Stripes(length - 16, 32)

ZSTD_wildcopy(s, src, at, from, length, overlap) ==
  IF src = "lits" THEN CopyFrom(s, at, s.lits, from, Copied16(s, length))
  ELSE IF overlap /\ at - from < WILDCOPY_VECLEN THEN WildCopy(s, at, from, at + length, 8)
  ELSE WildCopy(s, at, from, at + Copied16(s, length), 16)

(* ZSTD_overlapCopy8(): 8 bytes, after which the ranges are 8 apart.       *)
dec32 == <<0, 1, 2, 1, 4, 4, 4, 4>>
dec64 == <<8, 8, 8, 7, 8, 9, 10, 11>>

ZSTD_overlapCopy8(s, at, from, offset) ==
  LET from4 == from + dec32[offset + 1]
  IN  IF offset >= 8 THEN [s |-> Copy(s, at, from, 8), from |-> from + 8]
      ELSE [s |-> Copy(CopyBytes(s, at, from, at + 4), at + 4, from4, 4), from |-> from4 - dec64[offset + 1] + 8]

(* Up to oend_w in large pieces, and byte by byte from there.              *)
CopyNearEnd(s, src, at, oend_w, from, end, overlap) ==
  IF end <= oend_w THEN ZSTD_wildcopy(s, src, at, from, end - at, overlap)
  ELSE IF at > oend_w THEN CopyEach(s, src, at, from, end)
  ELSE CopyEach(ZSTD_wildcopy(s, src, at, from, oend_w - at, overlap), src, oend_w, from + oend_w - at, end)

(* ZSTD_safecopy(): the length of the copy that ends before oend_w is not  *)
(* reduced by the 8 bytes that are copied first.                           *)
ZSTD_safecopy(s, src, at, oend_w, from, length, overlap) ==
  IF length < 8 THEN CopyEach(s, src, at, from, at + length)
  ELSE IF ~overlap THEN CopyNearEnd(s, src, at, oend_w, from, at + length, FALSE)
  ELSE With(ZSTD_overlapCopy8(s, at, from, at - from), LAMBDA c :
         CopyNearEnd(c.s, src, at + 8, oend_w, c.from,
                     IF at + length <= oend_w THEN at + 8 + length ELSE at + length, TRUE))

-----------------------------------------------------------------------------
(* One sequence.                                                           *)

Failed(s) == [s EXCEPT !.error = TRUE]

(* A decoder that keeps a window of the output, and the dictionary until   *)
(* the window is full, has no more to copy from.                           *)
OutOfWindow(s, seq) == seq.offset > s.window /\ s.op + seq.litLength - s.low > s.window

Executed(s, seq) ==
  [s EXCEPT !.op = @ + seq.litLength + seq.matchLength, !.far = @ \/ OutOfWindow(s, seq)]

(* The part of a match that is in the dictionary, and where it goes on.    *)
DictPart(s, at, seq) ==
  LET back == seq.offset - (at - s.low)
      n    == Min({back, seq.matchLength})
  IN  [s |-> CopyDict(s, at, back, n), at |-> at + n, from |-> s.low, left |-> seq.matchLength - n]

MatchPart(s, at, seq) ==
  IF seq.offset > at - s.low THEN DictPart(s, at, seq)
  ELSE [s |-> s, at |-> at, from |-> at - seq.offset, left |-> seq.matchLength]

TooFar(s, at, seq) == seq.offset > at - s.low + Len(s.dict)

(* Near the end of the output, or with literals that are not there.        *)
MatchNearEnd(t, oLitEnd, seq) ==
  IF TooFar(t, oLitEnd, seq) THEN Failed(t)
  ELSE With(MatchPart(t, oLitEnd, seq), LAMBDA m :
         IF m.left = 0 THEN Executed(m.s, seq)
         ELSE Executed(ZSTD_safecopy(m.s, "match", m.at, t.oend - WILDCOPY_OVERLENGTH, m.from, m.left, TRUE), seq))

ZSTD_execSequenceEnd(s, seq) ==
  IF seq.litLength + seq.matchLength > s.oend - s.op \/ seq.litLength > s.litSize - s.litPtr THEN Failed(s)
  ELSE MatchNearEnd([ZSTD_safecopy(s, "lits", s.op, s.oend - WILDCOPY_OVERLENGTH, s.litPtr, seq.litLength, FALSE)
                       EXCEPT !.litPtr = @ + seq.litLength],
                    s.op + seq.litLength, seq)

(* With room behind the match for what is copied too much.                 *)
CopyLiterals(s, seq) ==
  With(CopyFrom(s, s.op, s.lits, s.litPtr, 16), LAMBDA t :
    [IF seq.litLength > 16
     THEN ZSTD_wildcopy(t, "lits", s.op + 16, s.litPtr + 16, seq.litLength - 16, FALSE)
     ELSE t EXCEPT !.litPtr = @ + seq.litLength])

CopyMatch(m, offset) ==
  IF m.left = 0 THEN m.s
  ELSE IF offset >= WILDCOPY_VECLEN THEN ZSTD_wildcopy(m.s, "match", m.at, m.from, m.left, FALSE)
  ELSE With(ZSTD_overlapCopy8(m.s, m.at, m.from, offset), LAMBDA c :
         IF m.left > 8 THEN ZSTD_wildcopy(c.s, "match", m.at + 8, c.from, m.left - 8, TRUE) ELSE c.s)

ZSTD_execSequence(s, seq) ==
  LET oLitEnd == s.op + seq.litLength
  IN  IF s.litPtr + seq.litLength > s.litSize \/ oLitEnd + seq.matchLength > s.oend - WILDCOPY_OVERLENGTH
      THEN ZSTD_execSequenceEnd(s, seq)
      ELSE With(CopyLiterals(s, seq), LAMBDA t :
             IF TooFar(t, oLitEnd, seq) THEN Failed(t)
             ELSE Executed(CopyMatch(MatchPart(t, oLitEnd, seq), seq.offset), seq))

(* The states of the three tables and the last offsets, in r.              *)
ReadBits(r, n) == [r EXCEPT !.value = BIT_lookBits(r.d, n), !.d = BIT_skipBits(@, n)]

ReadBitsFast(r, n) ==
  IF n = 0 THEN [r EXCEPT !.value = 0] ELSE [r EXCEPT !.value = BIT_lookBitsFast(r.d, n), !.d = BIT_skipBits(@, n)]

ZSTD_initFseState(r, k) ==
  With(ReadBits(r, r.table[k].tableLog), LAMBDA q :
    [q EXCEPT !.state[k] = q.value, !.d = BIT_reloadDStream(@)])

ZSTD_updateFseState(r, k) ==
  With(r.table[k].cell[r.state[k]], LAMBDA cell :
    With(ReadBits(r, cell.nbBits), LAMBDA q : [q EXCEPT !.state[k] = cell.nextState + q.value]))

(* The offset of code 0 and 1 is one of the last three, the first of them  *)
(* less one, or, without literals, the next one.                           *)
Repeated(prev, code, ll0) ==
  LET i    == code + (IF ll0 THEN 1 ELSE 0)
      temp == IF i = 3 THEN prev[1] - 1 ELSE prev[i + 1]
      offset == IF temp = 0 THEN 1 ELSE temp
  IN  CASE code = 0 -> IF ll0 THEN <<prev[2], prev[1], prev[3]>> ELSE prev
        [] OTHER -> <<offset, prev[1], IF i # 1 THEN prev[2] ELSE prev[3]>>

ReadOffset(r, of, ll0) ==
  With(ReadBitsFast(r, of.nbAdditionalBits), LAMBDA q :
    [q EXCEPT !.prev = IF of.nbAdditionalBits > 1 THEN <<of.baseValue + q.value, r.prev[1], r.prev[2]>>
                       ELSE Repeated(r.prev, of.baseValue + q.value, ll0)])

ReadLength(r, cell, field) ==
  With(ReadBitsFast(r, cell.nbAdditionalBits), LAMBDA q : [q EXCEPT !.seq[field] = cell.baseValue + q.value])

AllStates(r) == ZSTD_updateFseState(ZSTD_updateFseState(ZSTD_updateFseState(r, "LL"), "ML"), "OF")

(* ZSTD_decodeSequence(): the register is filled again between the lengths *)
(* when a sequence may have more bits than it still has.                   *)
DecodeWith(r, ll, of, ml) ==
  With(ReadLength(ReadOffset(r, of, ll.baseValue = 0), ml, "matchLength"), LAMBDA q :
    With(IF ll.nbAdditionalBits + ml.nbAdditionalBits + of.nbAdditionalBits >= 57 - (9 + 9 + 8)
         THEN Reload(q) ELSE q, LAMBDA t :
      AllStates(ReadLength([t EXCEPT !.seq.offset = t.prev[1]], ll, "litLength"))))

ZSTD_decodeSequence(r) ==
  DecodeWith(r, r.table["LL"].cell[r.state["LL"]], r.table["OF"].cell[r.state["OF"]], r.table["ML"].cell[r.state["ML"]])

SequencesStart(x, src) ==
  [d |-> BIT_initDStream(src), table |-> x.table, state |-> [k \in Kinds |-> 0], prev |-> x.rep, value |-> 0,
   seq |-> [offset |-> 0, matchLength |-> 0, litLength |-> 0]]

SequencesReady(r) == ZSTD_initFseState(ZSTD_initFseState(ZSTD_initFseState(r, "LL"), "OF"), "ML")

-----------------------------------------------------------------------------
(* All sequences of a block.  q has the memory s and the reader r.         *)

RECURSIVE SequencesLoop(_, _, _)
SequencesLoop(s, r, nbSeq) ==
  With(ZSTD_decodeSequence(r), LAMBDA e :
    With(ZSTD_execSequence(s, e.seq), LAMBDA t :
      IF t.error \/ nbSeq = 1 THEN [s |-> t, r |-> e] ELSE SequencesLoop(t, Reload(e), nbSeq - 1)))

ZSTD_decompressSequences(s, x, src, nbSeq) ==
  With(SequencesStart(x, src), LAMBDA start :
    IF start.d.error THEN [s |-> Failed(s), rep |-> x.rep]
    ELSE With(SequencesLoop(s, SequencesReady(start), nbSeq), LAMBDA q :
           IF q.s.error \/ BIT_reloadDStream(q.r.d).status \notin {"completed", "overflow"}
           THEN [s |-> Failed(q.s), rep |-> x.rep]
           ELSE [s |-> q.s, rep |-> q.r.prev]))

(* ZSTD_decompressSequencesLong_body(): decoding is 8 sequences ahead of   *)
(* the execution.                                                          *)
RECURSIVE Prepare(_, _, _)
Prepare(r, queue, n) ==
  IF r.d.status = "overflow" \/ Len(queue) = n THEN [r |-> r, queue |-> queue]
  ELSE With(ZSTD_decodeSequence(r), LAMBDA e : Prepare(Reload(e), Append(queue, e.seq), n))

RECURSIVE LongLoop(_, _, _, _)
LongLoop(s, r, queue, left) ==
  IF s.error \/ r.d.status = "overflow" \/ left = 0 THEN [s |-> s, r |-> r, queue |-> queue, left |-> left]
  ELSE With(ZSTD_decodeSequence(r), LAMBDA e :
         LongLoop(ZSTD_execSequence(s, Head(queue)), Reload(e), Append(Tail(queue), e.seq), left - 1))

ExecuteAll(s, queue) == FoldLeft(LAMBDA m, seq : IF m.error THEN m ELSE ZSTD_execSequence(m, seq), s, queue)

LongAfter(s, x, p, nbSeq, advance) ==
  IF Len(p.queue) < advance THEN [s |-> Failed(s), rep |-> x.rep]
  ELSE With(LongLoop(s, p.r, p.queue, nbSeq - advance), LAMBDA q :
         IF q.s.error \/ q.left > 0 THEN [s |-> Failed(q.s), rep |-> x.rep]
         ELSE [s |-> ExecuteAll(q.s, q.queue), rep |-> q.r.prev])

ZSTD_decompressSequencesLong(s, x, src, nbSeq) ==
  With(SequencesStart(x, src), LAMBDA start :
    IF start.d.error THEN [s |-> Failed(s), rep |-> x.rep]
    ELSE LongAfter(s, x, Prepare(Reload(SequencesReady(start)), <<>>, Min({nbSeq, ADVANCED_SEQS})), nbSeq,
                   Min({nbSeq, ADVANCED_SEQS})))

ZSTD_getLongOffsetsShare(table) ==
  Cardinality({u \in DOMAIN table.cell : table.cell[u].nbAdditionalBits > 22}) * 2^(FSELog["OF"] - table.tableLog)

LastLiterals(s) ==
  LET n == s.litSize - s.litPtr
  IN  IF n > s.oend - s.op THEN Failed(s) ELSE [CopyFrom(s, s.op, s.lits, s.litPtr, n) EXCEPT !.op = @ + n]

Prefetches(s, x, h) ==
  \/ x.cold
  \/ s.largeWindow /\ h.nbSeq > ADVANCED_SEQS /\ ZSTD_getLongOffsetsShare(h.x.table["OF"]) >= 7

BlockSequences(s, x, src, h) ==
  IF h.nbSeq = 0 THEN [s |-> s, rep |-> x.rep]
  ELSE IF Prefetches(s, x, h) THEN ZSTD_decompressSequencesLong(s, h.x, src, h.nbSeq)
  ELSE ZSTD_decompressSequences(s, h.x, src, h.nbSeq)

FailedBlock(s, x) == [s |-> Failed(s), x |-> x]

ZSTD_decompressBlock_internal(s, x, src) ==
  IF SizeOf(src) >= ZSTD_BLOCKSIZE_MAX THEN FailedBlock(s, x)
  ELSE With(ZSTD_decodeLiteralsBlock(x, src, s.double), LAMBDA l :
    IF l.error THEN FailedBlock(s, x)
    ELSE With(ZSTD_decodeSeqHeaders(l.x, From(src, l.size)), LAMBDA h :
      IF h.error THEN FailedBlock(s, l.x)
      ELSE With(BlockSequences([s EXCEPT !.lits = l.lits, !.litPtr = 0, !.litSize = l.litSize], x,
                               From(src, l.size + h.size), h), LAMBDA q :
        IF q.s.error THEN [s |-> q.s, x |-> h.x]
        ELSE [s |-> LastLiterals(q.s),
              x |-> [h.x EXCEPT !.cold = FALSE, !.fseEntropy = @ \/ h.nbSeq > 0, !.rep = q.rep]])))

-----------------------------------------------------------------------------
(* The blocks of a frame.                                                  *)

(* ZSTD_getcBlockSize()                                                    *)
ZSTD_getcBlockSize(src) ==
  [last |-> Slice(src, 0, 1) = 1, type |-> Slice(src, 1, 2), origSize |-> Slice(src, 3, 21),
   size |-> IF Slice(src, 1, 2) = bt_rle THEN 1 ELSE Slice(src, 3, 21),
   error |-> SizeOf(src) < 3 \/ Slice(src, 1, 2) = 3]

(* ZSTD_copyRawBlock() and ZSTD_setRleBlock()                              *)
ZSTD_storeBlock(s, bytes) ==
  IF Len(bytes) > s.oend - s.op THEN Failed(s) ELSE [CopyFrom(s, s.op, bytes, 0, Len(bytes)) EXCEPT !.op = @ + Len(bytes)]

BlockBody(s, x, b, body) ==
  CASE b.type = bt_compressed -> ZSTD_decompressBlock_internal(s, x, body)
    [] b.type = bt_raw -> [s |-> ZSTD_storeBlock(s, BytesOf(body)), x |-> x]
    [] b.type = bt_rle -> [s |-> ZSTD_storeBlock(s, Times(ByteAt(body, 0), b.origSize)), x |-> x]

(* The loop of ZSTD_decompressFrame().                                     *)
RECURSIVE ZSTD_decompressBlocks(_, _, _)
ZSTD_decompressBlocks(s, x, src) ==
  With(ZSTD_getcBlockSize(src), LAMBDA b :
    IF b.error THEN FailedBlock(s, x)
    ELSE IF b.size > SizeOf(src) - 3 THEN FailedBlock(s, x)
    ELSE With(BlockBody(s, x, b, SubSeq(src, 25, 24 + 8 * b.size)), LAMBDA r :
           IF r.s.error THEN r
           ELSE IF b.last THEN [r EXCEPT !.s.rest = From(src, 3 + b.size)]
           ELSE ZSTD_decompressBlocks(r.s, r.x, From(src, 3 + b.size))))

-----------------------------------------------------------------------------
(* Frames (zstd_decompress.c) and dictionaries (zstd_ddict.c).  A          *)
(* dictionary is content only or, behind a magic number and an ID, tables  *)
(* and last offsets for the first block and then content.  Frames without  *)
(* a checksum.                                                             *)

ZSTD_WINDOWLOG_MAX == 31

-----------------------------------------------------------------------------
(* Headers.                                                                *)

ZSTD_did_fieldSize == <<0, 1, 2, 4>>
ZSTD_fcs_fieldSize == <<0, 2, 4, 8>>

ZSTD_startingInputLength(magicless) == IF magicless THEN 1 ELSE 5

(* ZSTD_frameHeaderSize_internal() and ZSTD_getFrameHeader_advanced(): `at' *)
(* is where the descriptor ends.                                           *)
HeaderFields(src, at) ==
  LET single == Slice(src, 8 * at - 3, 1) = 1
      did    == ZSTD_did_fieldSize[Slice(src, 8 * at - 8, 2) + 1]
      fcsID  == Slice(src, 8 * at - 2, 2)
      fcs    == IF single /\ fcsID = 0 THEN 1 ELSE ZSTD_fcs_fieldSize[fcsID + 1]
      window == IF single THEN 0 ELSE 1
  IN  [single |-> single, reserved |-> Slice(src, 8 * at - 5, 1), didAt |-> at + window, did |-> did,
       fcsAt |-> at + window + did, fcs |-> fcs, fcsID |-> fcsID, size |-> at + window + did + fcs]

ContentSize(src, f) ==
  IF f.fcs = 0 THEN Unknown ELSE Slice(src, 8 * f.fcsAt, 8 * f.fcs) + (IF f.fcsID = 1 THEN 256 ELSE 0)

WindowSize(src, f, at) ==
  LET base == 2^(Slice(src, 8 * at + 3, 5) + MinWindowLog)
  IN  IF f.single THEN ContentSize(src, f) ELSE base + (base \div 8) * Slice(src, 8 * at, 3)

ZSTD_getFrameHeader(src, magicless) ==
  LET at == ZSTD_startingInputLength(magicless)
  IN  IF SizeOf(src) < at THEN Error
      ELSE IF ~magicless /\ SubSeq(src, 1, 32) # ZSTD_MAGICNUMBER THEN Error
      ELSE With(HeaderFields(src, at), LAMBDA f :
        IF SizeOf(src) < f.size \/ f.reserved = 1 THEN Error
        ELSE IF ~f.single /\ Slice(src, 8 * at + 3, 5) + MinWindowLog > ZSTD_WINDOWLOG_MAX THEN Error
        ELSE [error |-> FALSE, size |-> f.size, contentSize |-> ContentSize(src, f),
              windowSize |-> WindowSize(src, f, at), dictID |-> Slice(src, 8 * f.didAt, 8 * f.did)])

-----------------------------------------------------------------------------
(* Dictionaries.                                                           *)

ZSTD_loadDEntropy(x, dict) ==
  IF SizeOf(dict) <= 8 THEN Error
  ELSE Try(HUF_readStats(From(dict, 8)), LAMBDA stats :
    Try(HUF_DTableX2(stats, HufLog), LAMBDA huf :
      Try(SeqTables(x, [k \in Kinds |-> set_compressed], From(dict, 8 + stats.size), <<"OF", "ML", "LL">>), LAMBDA t :
        Try(DictOffsets(From(dict, 8 + stats.size + t.size), 8 + stats.size + t.size), LAMBDA r :
          [error |-> FALSE, size |-> r.size,
           x |-> [x EXCEPT !.huf = huf, !.table = t.table, !.rep = r.rep, !.litEntropy = TRUE, !.fseEntropy = TRUE]]))))

(* Every frame starts without tables, which are left where they were.      *)
ZSTD_decompressBegin(x) ==
  [x EXCEPT !.litEntropy = FALSE, !.fseEntropy = FALSE, !.rep = repStartValue, !.dictID = 0, !.dict = <<>>,
            !.hot = <<>>]

(* ZSTD_decompressBegin_usingDict(): what is in front of the content is    *)
(* not a part of it.                                                       *)
ZSTD_decompressBegin_usingDict(x, dict) ==
  With(ZSTD_decompressBegin(x), LAMBDA b :
    IF ~IsDictionary(dict) THEN [error |-> FALSE, x |-> [b EXCEPT !.dict = BytesOf(dict)]]
    ELSE Try(ZSTD_loadDEntropy(b, dict), LAMBDA e :
           [error |-> FALSE, x |-> [e.x EXCEPT !.dict = BytesOf(From(dict, e.size)), !.dictID = Slice(dict, 32, 32)]]))

(* A digested dictionary, whose content is all of it, and is thought to be *)
(* out of the cache unless the frame before used the same.                 *)
ZSTD_initDDict(x, dict, contentType) ==
  LET digested(y, id) == [error |-> FALSE, entropy |-> y, dictID |-> id, content |-> dict]
  IN  IF contentType = "raw" \/ (~IsDictionary(dict) /\ contentType = "auto") THEN digested(ZSTD_decompressBegin(x), 0)
      ELSE IF ~IsDictionary(dict) THEN Error
      ELSE Try(ZSTD_loadDEntropy(ZSTD_decompressBegin(x), dict), LAMBDA e : digested(e.x, Slice(dict, 32, 32)))

ZSTD_decompressBegin_usingDDict(x, ddict) ==
  [ddict.entropy EXCEPT !.cold = x.hot # ddict.content, !.dict = BytesOf(ddict.content), !.dictID = ddict.dictID,
                        !.hot = ddict.content]

-----------------------------------------------------------------------------
(* Frames.                                                                 *)

(* ZSTD_decompressFrame(); ZSTD_checkContinuity() makes the dictionary     *)
(* what is in front of the output.                                         *)
ZSTD_decompressFrame(s, x, src, magicless) ==
  With(ZSTD_getFrameHeader(src, magicless), LAMBDA h :
    IF h.error THEN FailedBlock(s, x)
    ELSE IF SizeOf(src) < h.size + 3 \/ (h.dictID # 0 /\ h.dictID # x.dictID) THEN FailedBlock(s, x)
    ELSE With(ZSTD_decompressBlocks([s EXCEPT !.dict = x.dict, !.low = s.op, !.window = h.windowSize], x,
                                    From(src, h.size)), LAMBDA r :
           IF ~r.s.error /\ h.contentSize \notin {Unknown, r.s.op - s.op} THEN FailedBlock(r.s, r.x) ELSE r))

IsSkippable(src) == SubSeq(src, 5, 32) = SubSeq(ZSTD_MAGIC_SKIPPABLE_START, 5, 32)

readSkippableFrameSize(src) ==
  IF SizeOf(src) < ZSTD_SKIPPABLEHEADERSIZE THEN Unknown
  ELSE LET size == Slice(src, 32, 32) + ZSTD_SKIPPABLEHEADERSIZE IN IF size > SizeOf(src) THEN Unknown ELSE size

(* ZSTD_decompressMultiFrame(), with a dictionary of d.how                 *)
BeginFrame(x, d) ==
  IF d.how = "digested" THEN [error |-> FALSE, x |-> ZSTD_decompressBegin_usingDDict(x, d.ddict)]
  ELSE ZSTD_decompressBegin_usingDict(x, d.dict)

RECURSIVE ZSTD_decompressMultiFrame(_, _, _, _)
ZSTD_decompressMultiFrame(s, x, src, d) ==
  IF SizeOf(src) < 5 THEN [s |-> IF src = <<>> THEN s ELSE Failed(s), x |-> x]
  ELSE IF IsSkippable(src)
  THEN LET size == readSkippableFrameSize(src)
       IN  IF size = Unknown THEN FailedBlock(s, x) ELSE ZSTD_decompressMultiFrame(s, x, From(src, size), d)
  ELSE With(BeginFrame(x, d), LAMBDA b :
    IF b.error THEN FailedBlock(s, x)
    ELSE With(ZSTD_decompressFrame(s, b.x, src, FALSE), LAMBDA r :
           IF r.s.error THEN r ELSE ZSTD_decompressMultiFrame(r.s, r.x, r.s.rest, d)))
=============================================================================

-------------------------------- MODULE Fse ---------------------------------
(***************************************************************************)
(* Finite state entropy coding: the tables of lib/zstd (decoding in        *)
(* common/fse_decompress.c and decompress/zstd_decompress_block.c,         *)
(* encoding in compress/fse_compress.c), the description of a distribution *)
(* in a frame (FSE_writeNCount, FSE_readNCount) and the coding itself with *)
(* its two interleaved states.                                             *)
(*                                                                         *)
(* A distribution is a function from symbols 0 .. n to counts, -1 for a    *)
(* symbol less probable than one cell.  Arithmetic is on the code's        *)
(* numbers; bit fields are taken from the sequence of bits.                *)
(***************************************************************************)
EXTENDS Integers, Sequences, SequencesExt, FiniteSetsExt

-----------------------------------------------------------------------------
(* Bit streams (common/bitstream.h), written forwards and read backwards   *)
(* through a register of 64 bits.  A stream is the sequence of its bits,   *)
(* bit p of it being bit p % 8 of byte p / 8.  What the reader's register  *)
(* holds is always the 8 bytes at its pointer, so that the register is a   *)
(* function of the pointer.                                                *)

Register == 8                   \* sizeof(bitContainer)
REGISTER_BITS == 8 * Register

RECURSIVE BIT_highbit32(_)
BIT_highbit32(v) == IF v <= 1 THEN 0 ELSE 1 + BIT_highbit32(v \div 2)

Bits(v, n) == [i \in 1 .. n |-> (v \div 2^(i - 1)) % 2]

Value(bits) == FoldRight(LAMBDA b, v : 2 * v + b, bits, 0)

Padded8(bits) == bits \o [i \in 1 .. (-Len(bits)) % 8 |-> 0]

-----------------------------------------------------------------------------
(* Writing.  `out' has the bytes before ptr, `pending' the bits of the     *)
(* register; `wild' notes a register that was filled too far.              *)

BIT_initCStream(capacity) ==
  [out |-> <<>>, pending |-> <<>>, endPtr |-> capacity - Register, wild |-> FALSE,
   error |-> capacity <= Register]

BIT_addBits(c, value, nbBits) ==
  [c EXCEPT !.pending = @ \o Bits(value, nbBits),
            !.wild = @ \/ Len(c.pending) + nbBits >= REGISTER_BITS]

(* BIT_flushBits(): whole bytes leave the register; the pointer stays      *)
(* before the end, which BIT_closeCStream() then notices.                  *)
BIT_flushBits(c) ==
  LET nbBytes == Len(c.pending) \div 8
      out     == c.out \o SubSeq(c.pending, 1, 8 * nbBytes)
  IN  [c EXCEPT !.out = SubSeq(out, 1, Min({Len(out), 8 * c.endPtr})),
                !.pending = SubSeq(@, 8 * nbBytes + 1, Len(@))]

(* BIT_closeCStream(): the stream in bytes, or <<>> if it did not fit.     *)
BIT_closeCStream(c) ==
  LET d == BIT_flushBits(BIT_addBits(c, 1, 1))
  IN  IF Len(d.out) >= 8 * d.endPtr THEN <<>> ELSE Padded8(d.out \o d.pending)

-----------------------------------------------------------------------------
(* Reading.                                                                *)

Loaded(d, j) == LET p == 8 * d.ptr + j IN IF j < REGISTER_BITS /\ p < Len(d.bits) THEN d.bits[p + 1] ELSE 0

BIT_initDStream(bits) ==
  LET size == Len(bits) \div 8
      last == Value(SubSeq(bits, 8 * size - 7, 8 * size))
      used == IF last = 0 THEN 0 ELSE 8 - BIT_highbit32(last)
  IN  IF size < 1 THEN [error |-> TRUE]
      ELSE [bits |-> bits, error |-> last = 0, status |-> "unfinished",
            ptr |-> Max({0, size - Register}),
            bitsConsumed |-> used + 8 * Max({0, Register - size})]

(* BIT_lookBits(): beyond the register the shift wraps around.             *)
BIT_lookBits(d, n) ==
  LET start == (REGISTER_BITS - d.bitsConsumed - n) % REGISTER_BITS
  IN  Value([i \in 1 .. n |-> Loaded(d, start + i - 1)])

(* BIT_lookBitsFast(): for no bits at all it returns the whole register,   *)
(* which Everything stands for.                                            *)
Everything == 2^20

BIT_lookBitsFast(d, n) ==
  LET top == REGISTER_BITS - (d.bitsConsumed % REGISTER_BITS)
  IN  IF n = 0 THEN Everything
      ELSE Value([i \in 1 .. n |-> IF top - n + i - 1 < 0 THEN 0 ELSE Loaded(d, top - n + i - 1)])

BIT_skipBits(d, n) == [d EXCEPT !.bitsConsumed = @ + n]

BIT_reloadDStreamFast(d) ==
  [d EXCEPT !.ptr = @ - d.bitsConsumed \div 8, !.bitsConsumed = @ % 8, !.status = "unfinished"]

(* BIT_reloadDStream(): the pointer goes down by the bytes that were read, *)
(* as far as the start of the stream.                                      *)
BIT_reloadDStream(d) ==
  IF d.bitsConsumed > REGISTER_BITS THEN [d EXCEPT !.status = "overflow"]
  ELSE IF d.ptr >= Register THEN BIT_reloadDStreamFast(d)
  ELSE IF d.ptr = 0
  THEN [d EXCEPT !.status = IF d.bitsConsumed < REGISTER_BITS THEN "endOfBuffer" ELSE "completed"]
  ELSE LET asked   == d.bitsConsumed \div 8
           nbBytes == Min({d.ptr, asked})
       IN  [d EXCEPT !.ptr = @ - nbBytes, !.bitsConsumed = @ - 8 * nbBytes,
                     !.status = IF asked > d.ptr THEN "endOfBuffer" ELSE "unfinished"]

BIT_endOfDStream(d) == d.ptr = 0 /\ d.bitsConsumed = REGISTER_BITS

-----------------------------------------------------------------------------
(* Tables and distributions.                                               *)

FSE_MIN_TABLELOG == 5
FSE_MAX_TABLELOG == 12
FSE_TABLELOG_ABSOLUTE_MAX == 15

Error == [error |-> TRUE]

(* A value under a name, and a result that may be an error.                *)
With(v, F(_)) == F(v)

Try(r, F(_)) == IF r.error THEN Error ELSE F(r)

UpTo(n) == [i \in 1 .. n |-> i - 1]

(* FoldLeft() for long sequences, sixteen elements at a time.              *)
FoldLong(op(_, _), base, seq) ==
  FoldLeft(LAMBDA a, k : FoldLeft(op, a, SubSeq(seq, 16 * k + 1, Min({16 * k + 16, Len(seq)}))), base,
           UpTo((Len(seq) + 15) \div 16))

Cells(count) == IF count = -1 THEN 1 ELSE count

Symbols(norm) == UpTo(Cardinality(DOMAIN norm))

-----------------------------------------------------------------------------
(* Spreading the symbols over the cells of a table.                        *)

FSE_TABLESTEP(size) == (size \div 2) + (size \div 8) + 3

LowSymbols(norm) == SelectSeq(Symbols(norm), LAMBDA s : norm[s] = -1)

Occurrences(norm) ==
  LET order == Symbols(norm)
  IN  FlattenSeq([i \in DOMAIN order |-> [j \in 1 .. Max({0, norm[order[i]]}) |-> order[i]]])

(* The next cell, outside the area of the improbable symbols.              *)
RECURSIVE NextCell(_, _, _)
NextCell(position, size, high) ==
  LET p == (position + FSE_TABLESTEP(size)) % size
  IN  IF p > high THEN NextCell(p, size, high) ELSE p

RECURSIVE Laid(_, _, _, _, _)
Laid(table, position, occurrences, size, high) ==
  IF occurrences = <<>> THEN table
  ELSE Laid([table EXCEPT ![position] = Head(occurrences)], NextCell(position, size, high),
            Tail(occurrences), size, high)

Spread(norm, tableLog) ==
  LET size == 2^tableLog
      low  == LowSymbols(norm)
      high == size - 1 - Len(low)
  IN  Laid([u \in 0 .. size - 1 |-> IF u > high THEN low[size - u] ELSE -1],
           0, Occurrences(norm), size, high)

(* The state a cell stands for: the cells of a symbol in the order of the  *)
(* table, counted from the symbol's count.                                 *)
StateOf(norm, cells, u) ==
  Cells(norm[cells[u]]) + Cardinality({v \in 0 .. u - 1 : cells[v] = cells[u]})

(* FSE_buildDTable_internal()                                              *)
FSE_buildDTable(norm, tableLog) ==
  LET size  == 2^tableLog
      cells == Spread(norm, tableLog)
  IN  [tableLog |-> tableLog, fastMode |-> \A s \in DOMAIN norm : norm[s] < size \div 2,
       cell |-> [u \in 0 .. size - 1 |->
                   LET next == StateOf(norm, cells, u)
                       n    == tableLog - BIT_highbit32(next)
                   IN  [symbol |-> cells[u], nbBits |-> n, newState |-> next * 2^n - size]]]

(* ZSTD_buildFSETable(): the same, with the value a symbol stands for.     *)
ZSTD_buildFSETable(norm, tableLog, baseValue, nbAdditionalBits) ==
  LET t == FSE_buildDTable(norm, tableLog)
  IN  [u \in 0 .. 2^tableLog - 1 |->
         [nbBits |-> t.cell[u].nbBits, nextState |-> t.cell[u].newState,
          nbAdditionalBits |-> nbAdditionalBits[t.cell[u].symbol],
          baseValue |-> baseValue[t.cell[u].symbol]]]

(* FSE_buildCTable_wksp(): the states sorted by symbol, and for each       *)
(* symbol what turns a state into a number of bits and a place there.      *)
Before(norm, s) ==
  FoldSet(LAMBDA r, n : n + Cells(norm[r]), 0, {r \in DOMAIN norm : r < s})

FSE_buildCTable(norm, tableLog) ==
  LET size  == 2^tableLog
      cells == Spread(norm, tableLog)
      TT(s) ==
        IF norm[s] \in {-1, 1}
        THEN [deltaNbBits |-> tableLog * 65536 - size, deltaFindState |-> Before(norm, s) - 1]
        ELSE LET maxBitsOut == tableLog - BIT_highbit32(norm[s] - 1)
             IN  [deltaNbBits |-> maxBitsOut * 65536 - norm[s] * 2^maxBitsOut,
                  deltaFindState |-> Before(norm, s) - norm[s]]
  IN  [tableLog |-> tableLog,
       state |-> FlattenSeq([i \in 1 .. Cardinality(DOMAIN norm) |->
                   LET mine == SelectSeq(UpTo(size), LAMBDA u : cells[u] = i - 1)
                   IN  [j \in DOMAIN mine |-> size + mine[j]]]),
       symbolTT |-> [s \in {r \in DOMAIN norm : norm[r] # 0} |-> TT(s)]]

-----------------------------------------------------------------------------
(* Coding.  Symbols are written from the last one to the first, the two    *)
(* states taking turns.                                                    *)

FSE_initCState2(ct, symbol) ==
  LET tt        == ct.symbolTT[symbol]
      nbBitsOut == (tt.deltaNbBits + 32768) \div 65536
      value     == nbBitsOut * 65536 - tt.deltaNbBits
  IN  ct.state[(value \div 2^nbBitsOut) + tt.deltaFindState + 1]

(* FSE_encodeSymbol() with the state number k of c.                        *)
FSE_encodeSymbol(c, ct, k, symbol) ==
  LET tt        == ct.symbolTT[symbol]
      value     == c.states[k]
      nbBitsOut == (value + tt.deltaNbBits) \div 65536
  IN  [c EXCEPT !.stream = BIT_addBits(@, value, nbBitsOut),
                !.states[k] = ct.state[(value \div 2^nbBitsOut) + tt.deltaFindState + 1]]

Flush(c) == [c EXCEPT !.stream = BIT_flushBits(@)]

RECURSIVE Encode(_, _, _, _)
Encode(c, ct, left, turn) ==
  IF left = <<>> THEN c
  ELSE LET k == IF turn % 2 = 0 THEN 2 ELSE 1
           e == FSE_encodeSymbol(c, ct, k, Last(left))
       IN  Encode(IF turn % 4 = 3 THEN Flush(e) ELSE e, ct, Front(left), turn + 1)

(* FSE_compress_usingCTable_generic(): what is over a multiple of four is  *)
(* written first.                                                          *)
FSE_compress(src, ct, capacity) ==
  LET n     == Len(src)
      start == [stream |-> BIT_initCStream(capacity),
                states |-> IF n % 2 = 1 THEN <<FSE_initCState2(ct, src[n]), FSE_initCState2(ct, src[n - 1])>>
                           ELSE <<FSE_initCState2(ct, src[n - 1]), FSE_initCState2(ct, src[n])>>]
      odd   == IF n % 2 = 1 THEN Flush(FSE_encodeSymbol(start, ct, 1, src[n - 2])) ELSE start
      left  == SubSeq(src, 1, IF n % 2 = 1 THEN n - 3 ELSE n - 2)
      c     == Encode(odd, ct, left, IF Len(left) % 4 = 2 THEN 2 ELSE 0)
      f     == BIT_flushBits(BIT_addBits(c.stream, c.states[2], ct.tableLog))
      g     == BIT_flushBits(BIT_addBits(f, c.states[1], ct.tableLog))
  IN  IF n <= 2 \/ start.stream.error THEN <<>> ELSE BIT_closeCStream(g)

FSE_initDState(r, dt, k) ==
  [r EXCEPT !.states[k] = BIT_lookBits(r.d, dt.tableLog),
            !.d = BIT_reloadDStream(BIT_skipBits(@, dt.tableLog))]

(* FSE_decodeSymbol() and FSE_decodeSymbolFast().                          *)
FSE_decodeSymbol(r, dt, k) ==
  LET cell == dt.cell[r.states[k]]
      low  == IF dt.fastMode THEN BIT_lookBitsFast(r.d, cell.nbBits) ELSE BIT_lookBits(r.d, cell.nbBits)
  IN  [r EXCEPT !.out = Append(@, cell.symbol), !.d = BIT_skipBits(@, cell.nbBits),
                !.states[k] = cell.newState + low]

Reload(r) == [r EXCEPT !.d = BIT_reloadDStream(@)]

(* The tail: a symbol at a time until the stream is used up; the last      *)
(* symbol is in the other state.                                           *)
RECURSIVE DecodeTail(_, _, _, _)
DecodeTail(r, dt, k, omax) ==
  LET s == Reload(FSE_decodeSymbol(r, dt, k))
  IN  IF Len(r.out) > omax - 2 THEN Error
      ELSE IF s.d.status = "overflow"
      THEN [error |-> FALSE, out |-> FSE_decodeSymbol(s, dt, 3 - k).out]
      ELSE DecodeTail(s, dt, 3 - k, omax)

RECURSIVE DecodeLoop(_, _, _)
DecodeLoop(r0, dt, omax) ==
  LET r == Reload(r0)
  IN  IF r.d.status = "unfinished" /\ Len(r.out) < omax - 3
      THEN DecodeLoop(FSE_decodeSymbol(FSE_decodeSymbol(FSE_decodeSymbol(FSE_decodeSymbol(
                        r, dt, 1), dt, 2), dt, 1), dt, 2), dt, omax)
      ELSE DecodeTail(r, dt, 1, omax)

(* FSE_decompress_usingDTable_generic()                                    *)
FSE_decompress(bits, dt, maxDstSize) ==
  LET d == BIT_initDStream(bits)
      r == [d |-> d, states |-> <<0, 0>>, out |-> <<>>]
  IN  IF d.error THEN Error
      ELSE DecodeLoop(FSE_initDState(FSE_initDState(r, dt, 1), dt, 2), dt, maxDstSize)

-----------------------------------------------------------------------------
(* The description of a distribution.  FSE_writeNCount_generic() makes a   *)
(* sequence of bits; its output in steps of 16 bits changes nothing.       *)

RECURSIVE NextPresent(_, _)
NextPresent(norm, s) == IF s \in DOMAIN norm /\ norm[s] = 0 THEN NextPresent(norm, s + 1) ELSE s

Zeros(n) == [i \in 1 .. 2 * (n \div 3) |-> 1] \o Bits(n % 3, 2)

RECURSIVE WriteCounts(_, _)
WriteCounts(w, norm) ==
  LET symbol == IF w.previousIs0 THEN NextPresent(norm, w.symbol) ELSE w.symbol
      zeros  == IF w.previousIs0 THEN Zeros(symbol - w.symbol) ELSE <<>>
      max    == 2 * w.threshold - 1 - w.remaining
      left   == w.remaining - Cells(norm[symbol])
      plus   == norm[symbol] + 1
      count  == IF plus >= w.threshold THEN plus + max ELSE plus
      nbBits == w.nbBits - (IF count < max THEN 1 ELSE 0)
      fits   == IF left >= w.threshold THEN w.nbBits ELSE BIT_highbit32(left) + 1
  IN  IF w.symbol \notin DOMAIN norm \/ w.remaining <= 1
      THEN IF w.remaining # 1 THEN <<>> ELSE Padded8(w.bits)
      ELSE IF symbol \notin DOMAIN norm \/ left < 1 THEN <<>>
      ELSE WriteCounts([bits |-> w.bits \o zeros \o Bits(count, nbBits), symbol |-> symbol + 1,
                        remaining |-> left, previousIs0 |-> count = 1,
                        threshold |-> 2^(fits - 1), nbBits |-> fits], norm)

FSE_writeNCount(norm, tableLog) ==
  WriteCounts([bits |-> Bits(tableLog - FSE_MIN_TABLELOG, 4), symbol |-> 0,
               remaining |-> 2^tableLog + 1, threshold |-> 2^tableLog,
               nbBits |-> tableLog + 1, previousIs0 |-> FALSE], norm)

(* FSE_readNCount_body(), of a header of at least 8 bytes: the register is *)
(* the 4 bytes at ip, shifted by bitCount, and is kept inside the header.  *)
RegisterBit(h, r, i) ==
  IF r.bitCount + i < 32 THEN h[8 * r.ip + r.bitCount + i + 1] ELSE 0

Field(h, r, n) == Value([i \in 1 .. n |-> RegisterBit(h, r, i - 1)])

(* FSE_ctz(~bitStream | 0x80000000) >> 1                                   *)
Repeats(h, r) == Min({31} \cup {i \in 0 .. 30 : RegisterBit(h, r, i) = 0}) \div 2

Advance(h, r) ==
  LET iend == Len(h) \div 8
  IN  IF r.ip <= iend - 7 \/ r.ip + r.bitCount \div 8 <= iend - 4
      THEN [r EXCEPT !.ip = @ + r.bitCount \div 8, !.bitCount = @ % 8]
      ELSE [r EXCEPT !.ip = iend - 4, !.bitCount = (@ - 8 * (iend - 4 - r.ip)) % 32]

RECURSIVE SkipTwelves(_, _)
SkipTwelves(h, r) ==
  LET iend == Len(h) \div 8
      s    == [r EXCEPT !.charnum = @ + 36]
  IN  IF Repeats(h, r) < 12 THEN r
      ELSE SkipTwelves(h, IF r.ip <= iend - 7 THEN [s EXCEPT !.ip = @ + 3]
                          ELSE [s EXCEPT !.ip = iend - 4, !.bitCount = (@ - 8 * (iend - 7 - r.ip)) % 32])

(* The symbols that do not occur, behind one that does not.                *)
SkipZeros(h, r0) ==
  LET r == SkipTwelves(h, r0)
      n == Repeats(h, r)
      q == [r EXCEPT !.bitCount = @ + 2 * n]
  IN  [q EXCEPT !.charnum = @ + 3 * n + Field(h, q, 2), !.bitCount = @ + 2]

(* One count; `wild' notes one that is stored behind the table.            *)
ReadCount(h, r, maxSV1) ==
  LET max   == 2 * r.threshold - 1 - r.remaining
      short == Field(h, r, r.nbBits - 1)
      long  == Field(h, r, r.nbBits)
      isShort == short < max
      count == (IF isShort THEN short ELSE IF long >= r.threshold THEN long - max ELSE long) - 1
      left  == r.remaining - Cells(count)
      fits  == IF left < r.threshold /\ left > 1 THEN BIT_highbit32(left) + 1 ELSE r.nbBits
  IN  [r EXCEPT !.bitCount = @ + (IF isShort THEN r.nbBits - 1 ELSE r.nbBits),
                !.remaining = left, !.norm = (r.charnum :> count) @@ @,
                !.charnum = @ + 1, !.previous0 = count = 0,
                !.nbBits = fits, !.threshold = 2^(fits - 1), !.wild = @ \/ r.charnum >= maxSV1]

RECURSIVE ReadCounts(_, _, _)
AfterCount(h, s, maxSV1) ==
  IF s.remaining <= 1 \/ s.charnum >= maxSV1 THEN s ELSE ReadCounts(h, Advance(h, s), maxSV1)

AfterZeros(h, r, maxSV1) ==
  IF r.charnum >= maxSV1 THEN r ELSE AfterCount(h, ReadCount(h, Advance(h, r), maxSV1), maxSV1)

ReadCounts(h, r, maxSV1) ==
  IF r.previous0 THEN AfterZeros(h, SkipZeros(h, r), maxSV1)
  ELSE AfterCount(h, ReadCount(h, r, maxSV1), maxSV1)

AllCounts(r, log, maxSV1) ==
  IF r.remaining # 1 \/ r.charnum > maxSV1 \/ r.bitCount > 32
  THEN [error |-> TRUE, wild |-> r.wild]
  ELSE [error |-> FALSE, wild |-> r.wild, tableLog |-> log, size |-> r.ip + (r.bitCount + 7) \div 8,
        norm |-> [s \in 0 .. r.charnum - 1 |-> IF s \in DOMAIN r.norm THEN r.norm[s] ELSE 0]]

FSE_readNCount8(h, maxSV1) ==
  LET log == Value(SubSeq(h, 1, 4)) + FSE_MIN_TABLELOG
  IN  IF log > FSE_TABLELOG_ABSOLUTE_MAX THEN Error
      ELSE AllCounts(ReadCounts(h, [ip |-> 0, bitCount |-> 4, remaining |-> 2^log + 1, threshold |-> 2^log,
                                    nbBits |-> log + 1, charnum |-> 0, previous0 |-> FALSE,
                                    norm |-> <<>>, wild |-> FALSE], maxSV1), log, maxSV1)

(* A shorter header is read from a buffer with zeros behind it.            *)
Inside(r, size) == IF ~r.error /\ r.size > size THEN Error ELSE r

FSE_readNCount(h, maxSV1) ==
  LET size == Len(h) \div 8
      long == FSE_readNCount8(h \o [i \in 1 .. Max({0, 64 - Len(h)}) |-> 0], maxSV1)
  IN  IF size >= 8 THEN long ELSE Inside(long, size)

(* FSE_decompress_wksp_body(): a header and the stream it describes.       *)
FSE_decompressBehind(h, src, capacity, maxLog) ==
  IF h.error \/ h.tableLog > maxLog THEN Error
  ELSE FSE_decompress(SubSeq(src, 8 * h.size + 1, Len(src)), FSE_buildDTable(h.norm, h.tableLog), capacity)

FSE_decompress_wksp(src, capacity, maxLog, maxSV1) ==
  FSE_decompressBehind(FSE_readNCount(src, maxSV1), src, capacity, maxLog)

-----------------------------------------------------------------------------
(* lib/zstd/compress: how counts (hist.c) become a distribution over the   *)
(* 2^tableLog cells of a table (fse_compress.c).                           *)
(*                                                                         *)
(* The code divides in fixed point with 62 bits.  A quotient it rounds     *)
(* down is never off by more than the last of those bits, which decides    *)
(* only where the exact quotient is whole: the operators below say which   *)
(* way, in whole numbers, for totals below 2^11.                           *)

Total(f) == FoldSet(LAMBDA s, n : n + f[s], 0, DOMAIN f)

(* HIST_count_simple(): of the symbols up to the largest that occurs.      *)
HIST_count(src) ==
  [s \in 0 .. Max({src[i] : i \in DOMAIN src}) |-> Cardinality({i \in DOMAIN src : src[i] = s})]

Largest(count) == Max({count[s] : s \in DOMAIN count})

MaxSymbol(count) == Max(DOMAIN count)

-----------------------------------------------------------------------------

FSE_minTableLog(srcSize, maxSV) == Min({BIT_highbit32(srcSize) + 1, BIT_highbit32(maxSV) + 2})

(* FSE_optimalTableLog_internal(); `minus' is 2 for FSE and 1 for HUF.     *)
(* The difference is unsigned: below 0 it is no limit.                     *)
FSE_optimalTableLog(maxTableLog, srcSize, maxSV, minus) ==
  LET bits == BIT_highbit32(srcSize - 1) - minus
      log  == Max({IF bits \in 0 .. maxTableLog THEN bits ELSE maxTableLog, FSE_minTableLog(srcSize, maxSV)})
  IN  Min({Max({log, FSE_MIN_TABLELOG}), FSE_MAX_TABLELOG})

rtbTable == <<0, 473195, 504333, 520860, 550000, 700000, 750000, 830000>>

PowerOf2(n) == 2^BIT_highbit32(n) = n

(* (count * step) >> scale, where step is 2^62 / total rounded down.       *)
Share(count, total, tableLog) ==
  LET cells == count * 2^tableLog
  IN  cells \div total - (IF cells % total = 0 /\ ~PowerOf2(total) THEN 1 ELSE 0)

(* A small share is rounded up when the rest beats the table.              *)
Proba(count, total, tableLog) ==
  LET p    == Share(count, total, tableLog)
      rest == count * 2^tableLog - p * total
  IN  IF p < 8 /\ rest * 2^20 > rtbTable[p + 1] * total THEN p + 1 ELSE p

-----------------------------------------------------------------------------
(* FSE_normalizeM2(): when the first method gave out far too much.         *)

NOT_YET_ASSIGNED == -2

Assigned(m, ones) ==
  [norm |-> [s \in DOMAIN m.norm |-> IF s \in ones THEN 1 ELSE m.norm[s]],
   left |-> m.left - Cardinality(ones),
   total |-> m.total - FoldSet(LAMBDA s, n : n + m.count[s], 0, ones), count |-> m.count]

(* The remaining cells go around the symbols that have some.               *)
RECURSIVE HandOut(_, _, _)
HandOut(norm, left, s) ==
  IF left = 0 THEN norm
  ELSE LET next == (s + 1) % Cardinality(DOMAIN norm)
       IN  IF norm[s] > 0 THEN HandOut([norm EXCEPT ![s] = @ + 1], left - 1, next)
           ELSE HandOut(norm, left, next)

(* tmpTotal >> vStepLog when the first symbols with counts of c are done.  *)
End(c, left, total) == (total + c * (2 * left + 1) - 1) \div (2 * total)

Weighted(m) ==
  LET open == {s \in DOMAIN m.norm : m.norm[s] = NOT_YET_ASSIGNED}
      c(s) == FoldSet(LAMBDA r, n : n + m.count[r], 0, {r \in open : r < s})
  IN  [s \in DOMAIN m.norm |->
         IF s \in open THEN End(c(s) + m.count[s], m.left, m.total) - End(c(s), m.left, m.total) ELSE m.norm[s]]

Crowded(m, count, lowOne) ==
  LET newOne == (3 * m.total) \div (2 * m.left)
  IN  IF m.total \div m.left > lowOne
      THEN Assigned(m, {s \in DOMAIN count : m.norm[s] = NOT_YET_ASSIGNED /\ count[s] <= newOne})
      ELSE m

GivenOut(m, count, tableLog) ==
  LET most == Min({s \in DOMAIN count : count[s] = Largest(count)})
  IN  IF 2^tableLog - m.left = Cardinality(DOMAIN count) THEN [m.norm EXCEPT ![most] = @ + m.left]
      ELSE IF m.total = 0 THEN HandOut(m.norm, m.left, 0)
      ELSE Weighted(m)

RareAndFew(few, ones, count, tableLog, lowProbCount) ==
  [norm |-> [s \in DOMAIN count |-> IF count[s] = 0 THEN 0 ELSE IF s \in few THEN lowProbCount
                                    ELSE IF s \in ones THEN 1 ELSE NOT_YET_ASSIGNED],
   left |-> 2^tableLog - Cardinality(few \cup ones), count |-> count,
   total |-> Total(count) - FoldSet(LAMBDA s, n : n + count[s], 0, few \cup ones)]

TheRest(m, count, tableLog, lowOne) ==
  IF m.left = 0 THEN m.norm ELSE GivenOut(Crowded(m, count, lowOne), count, tableLog)

FSE_normalizeM2(tableLog, count, lowProbCount) ==
  LET total  == Total(count)
      low    == total \div 2^tableLog
      lowOne == (3 * total) \div 2^(tableLog + 1)
      few    == {s \in DOMAIN count : count[s] \in 1 .. low}
      ones   == {s \in DOMAIN count : count[s] \in low + 1 .. lowOne}
  IN  TheRest(RareAndFew(few, ones, count, tableLog, lowProbCount), count, tableLog, lowOne)

(* FSE_normalizeCount() of counts of more than one symbol; <<>> for an     *)
(* error.  What is left over goes to the first of the largest shares.      *)
Shares(few, count, tableLog, lowProbCount) ==
  [s \in DOMAIN count |-> IF count[s] = 0 THEN 0 ELSE IF s \in few THEN lowProbCount
                          ELSE Proba(count[s], Total(count), tableLog)]

Balanced(norm, few, count, tableLog, lowProbCount) ==
  LET left  == 2^tableLog - FoldSet(LAMBDA s, n : n + Cells(norm[s]), 0, DOMAIN norm)
      most  == Max({norm[s] : s \in DOMAIN norm \ few})
      largest == IF most <= 0 THEN 0 ELSE Min({s \in DOMAIN norm \ few : norm[s] = most})
  IN  IF -left >= norm[largest] \div 2 THEN FSE_normalizeM2(tableLog, count, lowProbCount)
      ELSE [norm EXCEPT ![largest] = @ + left]

Accepted(norm, count) == IF \E s \in DOMAIN count : norm[s] = 0 /\ count[s] > 0 THEN <<>> ELSE norm

FSE_normalizeCount(tableLog, count, useLowProbCount) ==
  LET lowProbCount == IF useLowProbCount THEN -1 ELSE 1
      few == {s \in DOMAIN count : count[s] \in 1 .. Total(count) \div 2^tableLog}
  IN  IF tableLog < FSE_minTableLog(Total(count), MaxSymbol(count)) THEN <<>>
      ELSE Accepted(Balanced(Shares(few, count, tableLog, lowProbCount), few, count, tableLog, lowProbCount), count)
=============================================================================

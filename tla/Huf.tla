-------------------------------- MODULE Huf ---------------------------------
(***************************************************************************)
(* Huffman coding of literals: the description of a code in a frame        *)
(* (HUF_writeCTable, HUF_readStats), the two kinds of decoding tables, one *)
(* symbol (X1) or up to two symbols (X2) at a time, and the coding of one  *)
(* and of four interleaved streams (compress/huf_compress.c,               *)
(* common/entropy_common.c, decompress/huf_decompress.c).                  *)
(***************************************************************************)
EXTENDS Fse, Functions

-----------------------------------------------------------------------------
(* lib/zstd/compress/huf_compress.c: the construction of a Huffman code of *)
(* limited length from the counts of the symbols.                          *)
(*                                                                         *)
(* count is a function from the symbols 0 .. n; the array of nodes of the  *)
(* code is a function from places (0 for the most frequent symbol) and is  *)
(* followed by the inner nodes.                                            *)

HUF_TABLELOG_MAX == 12

(* The counts of an inner node that is not made yet, and of the barrier in *)
(* front of the array.                                                     *)
Unmade == 2^28
Barrier == 2^29

(* HUF_sort(): by count, the most frequent first, equal ones in the order  *)
(* of the symbols.                                                         *)
HUF_sort(count) ==
  SortSeq([i \in 1 .. Cardinality(DOMAIN count) |-> i - 1],
          LAMBDA r, s : count[r] > count[s] \/ (count[r] = count[s] /\ r < s))

(* HUF_buildTree(): two queues, the symbols from the rarest one up and the *)
(* inner nodes in the order they are made.                                 *)
Take(t) ==
  IF t.count[t.lowS] < t.count[t.lowN]
  THEN [n |-> t.lowS, t |-> [t EXCEPT !.lowS = @ - 1]]
  ELSE [n |-> t.lowN, t |-> [t EXCEPT !.lowN = @ + 1]]

Join(t, n1, n2) ==
  [t EXCEPT !.count[t.nodeNb] = t.count[n1] + t.count[n2],
            !.parent = (n1 :> t.nodeNb) @@ (n2 :> t.nodeNb) @@ @, !.nodeNb = @ + 1]

RECURSIVE CreateParents(_, _)
CreateParents(t, nodeRoot) ==
  IF t.nodeNb > nodeRoot THEN t
  ELSE LET one == Take(t)
           two == Take(one.t)
       IN  CreateParents(Join(two.t, one.n, two.n), nodeRoot)

RECURSIVE Depth(_, _, _)
Depth(parent, n, root) == IF n = root THEN 0 ELSE 1 + Depth(parent, parent[n], root)

HUF_buildTree(count, order) ==
  LET rank  == Max({p \in 0 .. Len(order) - 1 : count[order[p + 1]] # 0})
      start == rank + 1
      root  == start + rank - 1
      leaf  == [p \in 0 .. rank |-> count[order[p + 1]]]
      t     == [count |-> (-1 :> Barrier) @@ leaf @@ [n \in start .. root |-> Unmade],
                parent |-> <<>>, lowS |-> rank, lowN |-> start, nodeNb |-> start]
      first == [Join(t, rank, rank - 1) EXCEPT !.lowS = @ - 2]
      made  == CreateParents(first, root)
  IN  [p \in 0 .. rank |-> Depth(made.parent, p, root)]

-----------------------------------------------------------------------------
(* HUF_setMaxHeight(): no code longer than maxNbBits.  h.nb has the length *)
(* of each code, h.cost what the lengths are short of a full tree.         *)

NoSymbol == -1

RankLast(nb, n, maxNbBits) ==
  [r \in 0 .. maxNbBits |->
     LET at == {p \in 0 .. n : nb[p] = maxNbBits - r}
     IN  IF r = 0 \/ at = {} THEN NoSymbol ELSE Max(at)]

(* The rank to take a symbol from: the highest the cost allows for, unless *)
(* two symbols of the rank below are rarer.                                *)
RECURSIVE Lower(_, _, _)
Lower(h, count, r) ==
  IF r <= 1 THEN r
  ELSE IF h.last[r] = NoSymbol THEN Lower(h, count, r - 1)
  ELSE IF h.last[r - 1] = NoSymbol \/ count[h.last[r]] <= 2 * count[h.last[r - 1]] THEN r
  ELSE Lower(h, count, r - 1)

RECURSIVE Closest(_, _)
Closest(h, r) == IF h.last[r] = NoSymbol THEN Closest(h, r + 1) ELSE r

RECURSIVE Repay(_, _, _)
Repay(h, count, maxNbBits) ==
  IF h.cost <= 0 THEN h
  ELSE LET asked == BIT_highbit32(h.cost) + 1
           r     == Closest(h, Lower(h, count, Min({asked, maxNbBits})))
           p     == h.last[r]
           nb    == [h.nb EXCEPT ![p] = @ + 1]
       IN  Repay([h EXCEPT !.cost = @ - 2^(r - 1), !.nb = nb,
                           !.last = [@ EXCEPT ![r - 1] = IF @ = NoSymbol THEN p ELSE @,
                                              ![r] = IF p = 0 \/ nb[p - 1] # maxNbBits - r
                                                     THEN NoSymbol ELSE p - 1]],
                 count, maxNbBits)

GiveBackNever(h, maxNbBits) == h

(* What was taken too much is given back to the rarest symbols.            *)
RECURSIVE GiveBack(_, _)
GiveBack(h, maxNbBits) ==
  LET n == Max({p \in -1 .. h.n : p = -1 \/ h.nb[p] # maxNbBits})
      p == IF h.last[1] = NoSymbol THEN n + 1 ELSE h.last[1] + 1
  IN  IF h.cost >= 0 THEN h
      ELSE GiveBack([h EXCEPT !.nb[p] = @ - 1, !.last[1] = p, !.cost = @ + 1,
                              !.n = IF h.last[1] = NoSymbol THEN n ELSE @], maxNbBits)

HUF_setMaxHeight(nb, count, maxNbBits) ==
  LET rank    == Max(DOMAIN nb)
      largest == nb[rank]
      over    == {p \in DOMAIN nb : nb[p] > maxNbBits}
      base    == 2^(largest - maxNbBits)
      cost    == FoldSet(LAMBDA p, c : c + base - 2^(largest - nb[p]), 0, over) \div base
      cut     == [p \in DOMAIN nb |-> Min({nb[p], maxNbBits})]
      n       == Max({-1} \cup {p \in DOMAIN nb : cut[p] < maxNbBits})
      h       == Repay([nb |-> cut, cost |-> cost, n |-> n, last |-> RankLast(cut, n, maxNbBits)],
                       count, maxNbBits)
  IN  IF largest <= maxNbBits THEN nb ELSE GiveBack(h, maxNbBits).nb

(* HUF_buildCTableFromTree(): the codes of a length are consecutive, in    *)
(* the order of the symbols.                                               *)
RECURSIVE Least(_, _, _)
Least(nbBits, length, longest) ==
  IF length >= longest THEN 0
  ELSE (Least(nbBits, length + 1, longest)
        + Cardinality({s \in DOMAIN nbBits : nbBits[s] = length + 1})) \div 2

Codes(nbBits) ==
  LET present == {s \in DOMAIN nbBits : nbBits[s] > 0}
  IN  [s \in present |->
         [nbBits |-> nbBits[s],
          val |-> Least(nbBits, nbBits[s], Max(Range(nbBits)))
                  + Cardinality({r \in present : r < s /\ nbBits[r] = nbBits[s]})]]
      @@ [s \in DOMAIN nbBits |-> [nbBits |-> 0, val |-> 0]]

(* HUF_buildCTable_wksp()                                                  *)
HUF_buildCTable(count, maxNbBits) ==
  LET order == HUF_sort(count)
      nb    == HUF_setMaxHeight(HUF_buildTree(count, order), [p \in 0 .. Len(order) - 1 |-> count[order[p + 1]]],
                                maxNbBits)
      place(s) == (CHOOSE i \in DOMAIN order : order[i] = s) - 1
  IN  Codes([s \in {order[p + 1] : p \in DOMAIN nb} |-> nb[place(s)]] @@ [s \in DOMAIN count |-> 0])

-----------------------------------------------------------------------------
MAX_FSE_TABLELOG_FOR_HUFF_HEADER == 6

(* What a table has where nothing was stored.                              *)
Nothing == [nbBits |-> 0, symbols |-> <<>>]

-----------------------------------------------------------------------------
(* The weights of the symbols, all but the last one.                       *)

Bytes(bytes) == <<>> \o [i \in 1 .. 8 * Len(bytes) |-> (bytes[(i + 7) \div 8] \div 2^((i - 1) % 8)) % 2]

FromZero(seq) == [i \in 0 .. Len(seq) - 1 |-> seq[i + 1]]

ByteAt(bits, i) == Value(SubSeq(bits, 8 * i + 1, 8 * i + 8))

Longest(ct) == Max({ct[s].nbBits : s \in DOMAIN ct})

Weights(ct) ==
  [i \in 1 .. Max(DOMAIN ct) |-> IF ct[i - 1].nbBits = 0 THEN 0 ELSE Longest(ct) + 1 - ct[i - 1].nbBits]

(* HUF_compressWeights(): <<>> where FSE saves nothing.                    *)
Described(w, norm, log) == FSE_writeNCount(norm, log) \o FSE_compress(w, FSE_buildCTable(norm, log), 200)

HUF_compressWeights(w) ==
  LET count == HIST_count(w)
      log   == FSE_optimalTableLog(MAX_FSE_TABLELOG_FOR_HUFF_HEADER, Len(w), MaxSymbol(count), 2)
  IN  IF Len(w) <= 1 \/ Largest(count) \in {1, Len(w)} THEN <<>>
      ELSE Described(w, FSE_normalizeCount(log, count, FALSE), log)

(* HUF_writeCTable_wksp(): the weights in FSE, where it saves space, or in *)
(* 4 bits each.                                                            *)
WriteWeights(w, fse) ==
  LET n    == Len(w)
      size == Len(fse) \div 8
      at(i) == IF i <= n THEN w[i] ELSE 0
  IN  IF size > 1 /\ size < n \div 2
      THEN Bytes(<<size>>) \o fse
      ELSE Bytes(<<128 + n - 1>> \o [i \in 1 .. (n + 1) \div 2 |-> 16 * at(2 * i - 1) + at(2 * i)])

HUF_writeCTable(ct) == WriteWeights(Weights(ct), HUF_compressWeights(Weights(ct)))

(* HUF_readStats_body(): the weight of the last symbol is what is missing  *)
(* to a power of two.                                                      *)
LastWeight(weights) ==
  LET total == FoldSet(LAMBDA w, t : t + Cardinality({i \in DOMAIN weights : weights[i] = w}) * (2^w \div 2), 0,
                       Range(weights))
      log   == BIT_highbit32(total) + 1
      rest  == 2^log - total
  IN  IF total = 0 \/ log > HUF_TABLELOG_MAX \/ 2^BIT_highbit32(rest) # rest THEN Error
      ELSE [error |-> FALSE, tableLog |-> log, weight |-> BIT_highbit32(rest) + 1]

Stats(weights, last, size) ==
  LET all  == Append(weights, last.weight)
      ones == Cardinality({i \in DOMAIN all : all[i] = 1})
  IN  IF last.error THEN Error
      ELSE IF ones < 2 \/ ones % 2 = 1 THEN Error
      ELSE [error |-> FALSE, weight |-> FromZero(all), tableLog |-> last.tableLog, size |-> size]

Weighed(read, size) ==
  IF read.error THEN Error
  ELSE IF \E i \in DOMAIN read.out : read.out[i] >= HUF_TABLELOG_MAX THEN Error
  ELSE Stats(read.out, LastWeight(read.out), size)

HUF_readStats(src) ==
  LET srcSize == Len(src) \div 8
      first   == ByteAt(src, 0)
      oSize   == first - 127
      iSize   == IF first >= 128 THEN (oSize + 1) \div 2 ELSE first
      raw     == [i \in 1 .. oSize |-> LET b == ByteAt(src, 1 + (i - 1) \div 2)
                                       IN  IF i % 2 = 1 THEN b \div 16 ELSE b % 16]
  IN  IF srcSize = 0 \/ iSize + 1 > srcSize THEN Error
      ELSE Weighed(IF first >= 128 THEN [error |-> FALSE, out |-> raw]
                   ELSE FSE_decompress_wksp(SubSeq(src, 9, 8 * (iSize + 1)), 255, 6, 256), iSize + 1)

-----------------------------------------------------------------------------
(* Decoding tables.                                                        *)

(* The symbols by weight, the lightest first.                              *)
Sorted(weight) ==
  FlattenSeq([w \in 1 .. HUF_TABLELOG_MAX |->
                SelectSeq(Symbols(weight), LAMBDA s : weight[s] = w)])

(* HUF_readDTableX1_wksp_bmi2()                                            *)
HUF_DTableX1(stats, maxTableLog) ==
  LET order == Sorted(stats.weight)
      cells == FlattenSeq([i \in DOMAIN order |->
                 [j \in 1 .. 2^(stats.weight[order[i]] - 1) |->
                    [symbols |-> <<order[i]>>, nbBits |-> stats.tableLog + 1 - stats.weight[order[i]]]]])
  IN  IF stats.tableLog > maxTableLog + 1 THEN Error
      ELSE [error |-> FALSE, double |-> FALSE, log |-> stats.tableLog, cell |-> cells]

Fill(table, at, length, symbols, nbBits) ==
  [i \in at .. at + length - 1 |-> [symbols |-> symbols, nbBits |-> nbBits]] @@ table

(* HUF_fillDTableX2Level2(): the second symbols behind one that took       *)
(* `consumed' bits, from the light ones that fit.                          *)
Below(weight, w) == Cardinality({s \in DOMAIN weight : weight[s] \in 1 .. w - 1})

Level2(x, table, at, symbol, consumed) ==
  LET sizeLog   == x.targetLog - consumed
      minWeight == Max({1, consumed + x.scaleLog})
      rankVal   == [w \in DOMAIN x.rankVal |-> x.rankVal[w] \div 2^consumed]
      skip      == IF minWeight > 1 THEN rankVal[minWeight] ELSE 0
      skipped   == Fill(table, at, skip, <<symbol>>, consumed)
      light     == SubSeq(x.order, Below(x.weight, minWeight) + 1, Len(x.order))
      store(f, s) ==
        LET w      == x.weight[s]
            nbBits == x.baseline - w
            length == 2^(sizeLog - nbBits)
        IN  [table |-> Fill(f.table, at + f.rankVal[w], length, <<symbol, s>>, nbBits + consumed),
             rankVal |-> [f.rankVal EXCEPT ![w] = @ + length]]
  IN  FoldLong(store, [table |-> skipped, rankVal |-> rankVal], light).table

(* HUF_readDTableX2_wksp() and HUF_fillDTableX2()                          *)
HUF_DTableX2(stats, maxTableLog) ==
  LET maxW == Max(Range(stats.weight))
      x    == [weight |-> stats.weight, order |-> Sorted(stats.weight),
               targetLog |-> maxTableLog, baseline |-> stats.tableLog + 1,
               scaleLog |-> stats.tableLog + 1 - maxTableLog,
               rankVal |-> [w \in 1 .. maxW |->
                 FoldSet(LAMBDA v, n : n + Cardinality({s \in DOMAIN stats.weight : stats.weight[s] = v})
                                           * 2^(v + maxTableLog - stats.tableLog - 1), 0, 1 .. w - 1)]]
      minBits == x.baseline - maxW
      store(f, s) ==
        LET w      == stats.weight[s]
            nbBits == x.baseline - w
            at     == f.rankVal[w]
            length == 2^(maxTableLog - nbBits)
        IN  [table |-> IF maxTableLog - nbBits >= minBits THEN Level2(x, f.table, at, s, nbBits)
                       ELSE Fill(f.table, at, length, <<s>>, nbBits),
             rankVal |-> [f.rankVal EXCEPT ![w] = @ + length]]
      full == FoldLong(store, [table |-> [i \in 0 .. 2^maxTableLog - 1 |-> Nothing], rankVal |-> x.rankVal],
                       x.order).table
  IN  IF stats.tableLog > maxTableLog THEN Error
      ELSE [error |-> FALSE, double |-> TRUE, log |-> maxTableLog, cell |-> [i \in 1 .. 2^maxTableLog |-> full[i - 1]]]

-----------------------------------------------------------------------------
(* One stream and four of them.                                            *)

(* HUF_compress1X_usingCTable_internal_body(): from the last symbol to the *)
(* first, what is over a multiple of four first; <<>> if it does not fit.  *)
RECURSIVE EncodeAll(_, _, _)
EncodeAll(c, ct, src) ==
  IF src = <<>> THEN c
  ELSE LET e == BIT_addBits(c, ct[Last(src)].val, ct[Last(src)].nbBits)
       IN  EncodeAll(IF Len(src) % 4 = 1 THEN BIT_flushBits(e) ELSE e, ct, Front(src))

HUF_compress1X(src, ct, dstSize) ==
  LET c == BIT_initCStream(dstSize)
  IN  IF dstSize < 8 \/ c.error THEN <<>> ELSE BIT_closeCStream(EncodeAll(c, ct, src))

(* HUF_compress4X_usingCTable_internal()                                   *)
Segment(src, k) ==
  LET size == (Len(src) + 3) \div 4
  IN  SubSeq(src, (k - 1) * size + 1, Min({k * size, Len(src)}))

HUF_compress4X(src, ct, dstSize) ==
  LET done[k \in 0 .. 4] ==
        IF k = 0 THEN <<>>
        ELSE Append(done[k - 1],
                    HUF_compress1X(Segment(src, k), ct, dstSize - 6 - Len(FlattenSeq(done[k - 1])) \div 8))
      parts == done[4]
      size(k) == Bits(Len(parts[k]) \div 8, 16)
  IN  IF dstSize < 17 \/ Len(src) < 12 \/ \E k \in 1 .. 4 : parts[k] = <<>> THEN <<>>
      ELSE size(1) \o size(2) \o size(3) \o FlattenSeq(parts)

(* HUF_decodeSymbolX1() and HUF_decodeSymbolX2()                           *)
DecodeSymbol(r, dt) ==
  LET cell == dt.cell[BIT_lookBitsFast(r.d, dt.log) + 1]
  IN  [d |-> BIT_skipBits(r.d, cell.nbBits), out |-> r.out \o cell.symbols]

Decode4(r, dt) == DecodeSymbol(DecodeSymbol(DecodeSymbol(DecodeSymbol(r, dt), dt), dt), dt)

(* HUF_decodeLastSymbolX2(): the first of two symbols, where the second    *)
(* one is made of what is behind the stream.                               *)
LastSymbol(r, dt) ==
  LET cell == dt.cell[BIT_lookBitsFast(r.d, dt.log) + 1]
      used == r.d.bitsConsumed + cell.nbBits
  IN  [out |-> Append(r.out, cell.symbols[1]),
       d |-> [r.d EXCEPT !.bitsConsumed = IF Len(cell.symbols) = 1 THEN used
                                          ELSE IF @ < REGISTER_BITS THEN Min({used, REGISTER_BITS})
                                          ELSE @]]

(* HUF_decodeStreamX1() and HUF_decodeStreamX2(): as many groups as the    *)
(* stream and the room allow for, then single symbols; with two symbols in *)
(* a cell, the register is loaded again between them.                      *)
Room(dt) == IF dt.double THEN 7 ELSE 3

RECURSIVE DecodeRest(_, _, _)
DecodeRest(r0, dt, n) ==
  LET r == IF dt.double THEN Reload(r0) ELSE r0
  IN  IF Len(r.out) >= n THEN r
      ELSE IF dt.double /\ Len(r.out) = n - 1 THEN LastSymbol(r, dt)
      ELSE DecodeRest(DecodeSymbol(r, dt), dt, n)

RECURSIVE DecodeStream(_, _, _)
DecodeStream(r0, dt, n) ==
  LET r == Reload(r0)
  IN  IF r.d.status = "unfinished" /\ Len(r.out) < n - Room(dt)
      THEN DecodeStream(Decode4(r, dt), dt, n)
      ELSE DecodeRest(r, dt, n)

Started(bits) == [d |-> BIT_initDStream(bits), out |-> <<>>]

(* HUF_decompress1X1/1X2_usingDTable_internal_body()                       *)
HUF_decompress1X(bits, dt, dstSize) ==
  LET r == DecodeStream(Started(bits), dt, dstSize)
  IN  IF Started(bits).d.error \/ ~BIT_endOfDStream(r.d) THEN Error
      ELSE [error |-> FALSE, out |-> r.out]

(* HUF_decompress4X1/4X2_usingDTable_internal_body(): the four streams in  *)
(* step until one of them is near its end or the last segment is.          *)
ReloadFast(r) ==
  IF r.d.ptr < Register THEN [r EXCEPT !.d.status = "overflow"]
  ELSE [r EXCEPT !.d = BIT_reloadDStreamFast(@)]

RECURSIVE InStep(_, _, _)
InStep(streams, dt, n4) ==
  IF (\E k \in 1 .. 4 : streams[k].d.status # "unfinished") \/ Len(streams[4].out) >= n4 - Room(dt)
  THEN streams
  ELSE InStep([k \in 1 .. 4 |-> ReloadFast(Decode4(streams[k], dt))], dt, n4)

HUF_decompress4X(bits, dt, dstSize) ==
  LET size(k)  == Value(SubSeq(bits, 16 * k - 15, 16 * k))
      length   == [k \in 1 .. 4 |-> IF k < 4 THEN size(k)
                                    ELSE Len(bits) \div 8 - 6 - size(1) - size(2) - size(3)]
      from     == [k \in 1 .. 4 |-> 6 + (IF k > 1 THEN size(1) ELSE 0) + (IF k > 2 THEN size(2) ELSE 0)
                                      + (IF k > 3 THEN size(3) ELSE 0)]
      segment  == (dstSize + 3) \div 4
      room     == [k \in 1 .. 4 |-> IF k < 4 THEN segment ELSE dstSize - 3 * segment]
      start    == [k \in 1 .. 4 |-> Started(SubSeq(bits, 8 * from[k] + 1, 8 * (from[k] + length[k])))]
      streams  == InStep(start, dt, room[4])
      ended    == [k \in 1 .. 4 |-> DecodeStream(streams[k], dt, room[k])]
  IN  IF Len(bits) \div 8 < 10 \/ length[4] < 0 \/ \E k \in 1 .. 4 : start[k].d.error THEN Error
      ELSE IF \E k \in 1 .. 3 : Len(streams[k].out) > room[k] THEN Error
      ELSE IF \E k \in 1 .. 4 : ~BIT_endOfDStream(ended[k].d) THEN Error
      ELSE [error |-> FALSE, out |-> FlattenSeq([k \in 1 .. 4 |-> ended[k].out])]
=============================================================================

------------------------------- MODULE LZ4HC --------------------------------
(***************************************************************************)
(* lib/lz4/lz4hc.c: the high compression mode.  Positions of equal hash    *)
(* are chained; a block is parsed with two matches looked ahead (levels 3  *)
(* to 9) or by the price of every way to write it (levels 10 to 12).       *)
(*                                                                         *)
(* A context has the hash table, the chain table of distances to the       *)
(* position before, the input as base and end, the segment before it       *)
(* (dictBase, indices lowLimit .. dictLimit - 1) and, as a sequence of at  *)
(* most one, the context dictCtx of an attached dictionary.  A match is    *)
(* [start, len, off]; where the code moves start and ref together, the     *)
(* offset stays.                                                           *)
(***************************************************************************)
EXTENDS LZ4Compress

CONSTANT OptNum   \* LZ4_OPT_NUM

LZ4HC_CLEVEL_DEFAULT == 9
LZ4HC_CLEVEL_MAX == 12
OPTIMAL_ML == ML_MASK - 1 + MINMATCH
TRAILING_LITERALS == 3

LZ4_setCompressionLevel(c, level) ==
  [c EXCEPT !.level = IF level < 1 THEN LZ4HC_CLEVEL_DEFAULT ELSE Min({level, LZ4HC_CLEVEL_MAX})]

LZ4_initStreamHC ==
  [hash |-> [h \in 0 .. 2 * HashSize - 1 |-> 0], chain |-> [i \in 0 .. KB64 - 1 |-> 0], end |-> NULL, base |-> NULL,
   dictBase |-> NULL, dictLimit |-> 0, lowLimit |-> 0, nextToUpdate |-> 0, level |-> LZ4HC_CLEVEL_DEFAULT,
   favorDecSpeed |-> FALSE, dirty |-> FALSE, dictCtx |-> <<>>]

LZ4HC_clearTables(c) ==
  [c EXCEPT !.hash = [h \in DOMAIN @ |-> 0], !.chain = [i \in DOMAIN @ |-> KB64 - 1]]

LZ4HC_init_internal(c, start) ==
  LET used == c.end - c.base > OffsetMax \div 2
      from == KB64 + (IF used THEN 0 ELSE c.end - c.base)
  IN  [(IF used THEN LZ4HC_clearTables(c) ELSE c) EXCEPT
         !.nextToUpdate = from, !.base = start - from, !.end = start, !.dictBase = start - from, !.dictLimit = from,
         !.lowLimit = from]

LZ4HC_hashPtr(mem, p) == Sum(mem, p, 4) % (2 * HashSize)

Delta(c, index) == c.chain[index % KB64]

Range0(a, b) == [i \in 1 .. Max({0, b - a}) |-> a + i - 1]

(* Chains up to ip (excluded).                                             *)
LZ4HC_Insert(mem, c, ip) ==
  LET target == ip - c.base
      chained(d, idx) ==
        LET h == LZ4HC_hashPtr(mem, c.base + idx)
            delta == idx - d.hash[h]
        IN  [hash |-> [d.hash EXCEPT ![h] = idx],
             chain |-> [d.chain EXCEPT ![idx % KB64] = IF delta \in 0 .. LZ4_DISTANCE_MAX THEN delta ELSE LZ4_DISTANCE_MAX]]
      d == FoldLeft(chained, [hash |-> c.hash, chain |-> c.chain], Range0(c.nextToUpdate, target))
  IN  [c EXCEPT !.hash = d.hash, !.chain = d.chain, !.nextToUpdate = target]

-----------------------------------------------------------------------------
(* The longest match at ip, or one that begins before ip but not before    *)
(* low.  q has what is the same for a whole block; w is how far the search *)
(* came: the index under test, the attempts left, the longest match so     *)
(* far, and the position of its chain that is followed.                    *)

LowestMatchIndex(c, ip) ==
  IF c.lowLimit + KB64 > ip - c.base THEN c.lowLimit ELSE ip - c.base - LZ4_DISTANCE_MAX

(* Common bytes before ip and match.                                       *)
LZ4HC_countBack(q, ip, match, iMin, mMin) ==
  LET most == Min({ip - iMin, match - mMin})
      differ == {i \in 1 .. most : At(q.mem, ip - i) # At(q.mem, match - i)}
  IN  IF differ = {} THEN most ELSE Min(differ) - 1

(* What the match at index is like; len 0 if it is none.                   *)
Compared(q, c, ip, low, w) ==
  LET prefix == w.index >= c.dictLimit
      match  == (IF prefix THEN c.base ELSE c.dictBase) + w.index
      floor  == IF prefix THEN c.base + c.dictLimit ELSE c.dictBase + c.lowLimit
      vLimit == IF prefix THEN q.matchlimit ELSE Min({ip + c.dictLimit - w.index, q.matchlimit})
      first  == MINMATCH + LZ4_count(q, ip + MINMATCH, match + MINMATCH, vLimit)
      more   == IF ip + first = vLimit /\ vLimit < q.matchlimit
                THEN LZ4_count(q, ip + first, c.base + c.dictLimit, q.matchlimit) ELSE 0
      back   == LZ4HC_countBack(q, ip, match, low, floor)
      hint   == prefix => Bytes(q.mem, low + w.best.len - 1, 2) = Bytes(q.mem, match - (ip - low) + w.best.len - 1, 2)
      near   == q.favorDecSpeed /\ ip - c.base - w.index < 8
  IN  IF near \/ ~hint \/ ~Same32(q, match, ip) THEN [len |-> 0, start |-> ip, off |-> 0]
      ELSE [len |-> first + more + back, start |-> ip - back, off |-> ip - c.base - w.index]

(* The assertions on an index, and that its 4 bytes are of one segment.    *)
IndexRight(q, c, ip, w) ==
  /\ w.index < ip - c.base
  /\ w.index >= c.dictLimit \/ w.index + MINMATCH <= c.dictLimit
  /\ Readable(q, (IF w.index >= c.dictLimit THEN c.base ELSE c.dictBase) + w.index)

Better(w, m) == IF m.len > w.best.len THEN [w EXCEPT !.best = m] ELSE w

(* chainSwap: the position in the match whose chain goes back farthest.    *)
RECURSIVE FarthestChain(_, _, _, _, _, _)
FarthestChain(c, index, end, pos, accel, far) ==
  LET dist == Delta(c, index + pos)
      new  == dist > far.dist
  IN  IF pos >= end THEN far
      ELSE FarthestChain(c, index, end, pos + accel \div 16, IF new THEN 16 ELSE accel + 1,
                         IF new THEN [dist |-> dist, pos |-> pos] ELSE far)

(* LZ4HC_countPattern() and LZ4HC_reverseCountPattern(), which are asked   *)
(* for patterns of one byte only.                                          *)
LZ4HC_countPattern(q, p, end, byte) ==
  LET other == {i \in 0 .. end - p - 1 : At(q.mem, p + i) # byte}
  IN  IF p >= end THEN 0 ELSE IF other = {} THEN end - p ELSE Min(other)

LZ4HC_reverseCountPattern(q, p, low, byte) ==
  LET other == {i \in 1 .. p - low : At(q.mem, p - i) # byte}
  IN  IF other = {} THEN p - low ELSE Min(other) - 1

LZ4HC_protectDictEnd(dictLimit, index) == index \notin dictLimit - 3 .. dictLimit - 1

Pattern(q, ip) == \A i \in 1 .. 3 : At(q.mem, ip + i) = At(q.mem, ip)

MatchCandidate(w) == w.index - 1

CandidatePtr(c, w) == (IF MatchCandidate(w) < c.dictLimit THEN c.dictBase ELSE c.base) + MatchCandidate(w)

IsPatternCandidate(q, c, ip, w) ==
  /\ q.patternAnalysis /\ Delta(c, w.index) = 1 /\ w.chainPos = 0
  /\ Pattern(q, ip) /\ MatchCandidate(w) >= LowestMatchIndex(c, ip)
  /\ LZ4HC_protectDictEnd(c.dictLimit, MatchCandidate(w))
  /\ Same32(q, CandidatePtr(c, w), ip)

(* A run of one byte is not tried at every position, but at its end, if it *)
(* can hold the run at ip, and else at its beginning.                      *)
AlongPattern(q, c, ip, low, w) ==
  LET cand    == MatchCandidate(w)
      ptr     == CandidatePtr(c, w)
      byte    == At(q.mem, ip)
      extDict == cand < c.dictLimit
      lowPrefix == c.base + c.dictLimit
      dictStart == c.dictBase + c.lowLimit
      dictEnd   == c.dictBase + c.dictLimit
      src     == 4 + LZ4HC_countPattern(q, ip + 4, q.matchlimit, byte)
      fwd1    == 4 + LZ4HC_countPattern(q, ptr + 4, IF extDict THEN dictEnd ELSE q.matchlimit, byte)
      forward == fwd1 + (IF extDict /\ ptr + fwd1 = dictEnd
                         THEN LZ4HC_countPattern(q, lowPrefix, q.matchlimit, byte) ELSE 0)
      back1   == LZ4HC_reverseCountPattern(q, ptr, IF extDict THEN dictStart ELSE lowPrefix, byte)
      back2   == back1 + (IF ~extDict /\ ptr - back1 = lowPrefix /\ c.lowLimit < c.dictLimit
                          THEN LZ4HC_reverseCountPattern(q, dictEnd, dictStart, byte) ELSE 0)
      back    == cand - Max({cand - back2, LowestMatchIndex(c, ip)})
      holds   == back + forward >= src /\ forward <= src
      new     == IF holds THEN cand + forward - src ELSE cand - back
      kept    == LZ4HC_protectDictEnd(c.dictLimit, new)
      maxML   == Min({back + forward, src})
      dist    == ip - c.base - new
      longer  == w.best.len < maxML
      v       == IF longer THEN [w EXCEPT !.best = [len |-> maxML, start |-> ip, off |-> dist], !.wild = @ \/ dist <= 0]
                 ELSE w
  IN  IF ~kept THEN [w EXCEPT !.index = c.dictLimit, !.wild = @ \/ extDict]
      ELSE IF holds \/ ip # low THEN [w EXCEPT !.index = new]
      ELSE IF longer /\ dist > LZ4_DISTANCE_MAX THEN [w EXCEPT !.index = new, !.stop = TRUE]
      ELSE IF Delta(c, new) > new THEN [v EXCEPT !.index = new, !.stop = TRUE]
      ELSE [v EXCEPT !.index = new - Delta(c, new)]

(* Which index is next.                                                    *)
NextIndex(q, c, ip, low, w, len) ==
  LET far  == FarthestChain(c, w.index, w.best.len - MINMATCH + 1, 0, 16, [dist |-> 1, pos |-> w.chainPos])
      swap == q.chainSwap /\ len = w.best.len /\ w.index + w.best.len <= ip - c.base
      v    == IF swap THEN [w EXCEPT !.chainPos = far.pos] ELSE w
  IN  IF swap /\ far.dist > w.index THEN [v EXCEPT !.stop = TRUE]
      ELSE IF swap /\ far.dist > 1 THEN [v EXCEPT !.index = @ - far.dist]
      ELSE IF IsPatternCandidate(q, c, ip, v) THEN AlongPattern(q, c, ip, low, v)
      ELSE [v EXCEPT !.index = @ - Delta(c, v.index + v.chainPos)]

RECURSIVE Chained(_, _, _, _, _)
Chained(q, c, ip, low, w) ==
  IF w.stop \/ w.index < LowestMatchIndex(c, ip) \/ w.attempts = 0 THEN w
  ELSE LET m == Compared(q, c, ip, low, w)
           v == Better([w EXCEPT !.attempts = @ - 1, !.wild = @ \/ ~IndexRight(q, c, ip, w)], m)
       IN  IF v.wild THEN v ELSE Chained(q, c, ip, low, NextIndex(q, c, ip, low, v, m.len))

(* The chain of the attached dictionary, which is taken to end where the   *)
(* input begins.                                                           *)
RECURSIVE DictChained(_, _, _, _, _)
DictChained(q, c, ip, low, w) ==
  LET d      == c.dictCtx[1]
      dist   == ip - c.base - LowestMatchIndex(c, ip) + (d.end - d.base) - w.index
      match  == d.base + w.index
      vLimit == Min({ip + (d.end - d.base) - w.index, q.matchlimit})
      back   == LZ4HC_countBack(q, ip, match, low, d.base + d.dictLimit)
      m      == [len |-> MINMATCH + LZ4_count(q, ip + MINMATCH, match + MINMATCH, vLimit) + back, start |-> ip - back,
                 off |-> dist]
      v      == IF Same32(q, match, ip) THEN Better(w, m) ELSE w
  IN  IF dist > LZ4_DISTANCE_MAX \/ w.attempts = 0 THEN w
      ELSE DictChained(q, c, ip, low, [v EXCEPT !.attempts = @ - 1, !.index = @ - Delta(d, w.index),
             !.wild = @ \/ ~Readable(q, match) \/ match + MINMATCH > d.end \/ match < d.base + d.dictLimit])

(* The result has the context, too: positions up to ip are now in it.      *)
LZ4HC_InsertAndGetWiderMatch(q, c0, ip, low, longest) ==
  LET c == LZ4HC_Insert(q.mem, c0, ip)
      h == LZ4HC_hashPtr(q.mem, ip)
      w == Chained(q, c, ip, low, [index |-> c.hash[h], attempts |-> q.nbSearches, chainPos |-> 0, stop |-> FALSE,
                                   best |-> [len |-> longest, start |-> ip, off |-> 0], wild |-> FALSE])
      v == IF q.dict = "usingDictCtxHc" /\ w.attempts > 0 /\ ip - c.base - LowestMatchIndex(c, ip) < LZ4_DISTANCE_MAX
           THEN DictChained(q, c, ip, low, [w EXCEPT !.index = c.dictCtx[1].hash[h]]) ELSE w
  IN  [c |-> c, m |-> v.best, wild |-> v.wild]

-----------------------------------------------------------------------------
(* Writing a block.  f is how far it came: ip, anchor, what is written     *)
(* (out), the context, the matches m0 .. m2 of the parser, the one that    *)
(* did not fit (ov), and at which label the code is.                       *)

GoTo(f, at) == [f EXCEPT !.at = at]

(* LZ4HC_encodeSequence() of the match m.                                  *)
EncodeAs(q, f, m, limited) ==
  LET lit  == m.start - f.anchor
      op   == Len(f.out) + 1
      len  == m.len - MINMATCH
      op2  == op + Len(Extended(lit)) + lit + 2
      wild == \/ lit < 0 \/ m.len < MINMATCH \/ m.off \notin 1 .. LZ4_DISTANCE_MAX
              \/ op + Len(Extended(lit)) + Stripes(lit, 8) > q.capacity
              \/ f.anchor + Stripes(lit, 8) > q.iend
      over == \/ op + lit \div 255 + lit + 2 + 1 + LASTLITERALS > q.oend
              \/ op2 + len \div 255 + 1 + LASTLITERALS > q.oend
  IN  IF limited /\ over THEN [f EXCEPT !.at = "overflow", !.ip = m.start, !.ov = m]
      ELSE IF wild THEN [f EXCEPT !.at = "refused", !.wild = TRUE]
      ELSE [f EXCEPT !.ip = m.start + m.len, !.anchor = m.start + m.len,
                     !.out = @ \o <<16 * Nibble(lit) + Nibble(len)>> \o Extended(lit) \o Bytes(q.mem, f.anchor, lit)
                               \o <<m.off % 256, m.off \div 256>> \o Extended(len)]

LZ4HC_encodeSequence(q, f, m) == EncodeAs(q, f, m, q.limit # "notLimited")

Encoded(f) == f.at \notin {"overflow", "refused"}

(* _dest_overflow: the sequence that does not fit is shortened, if enough  *)
(* of it is left.                                                          *)
Overflow(q, f) ==
  LET ll    == f.ip - f.anchor
      cost  == 1 + (ll + 240) \div 255 + ll
      maxLitPos == q.oend - 3
      op    == Len(f.out)
      maxMl == MINMATCH + (ML_MASK - 1) + (maxLitPos - (op + cost)) * 255
      ml    == Min({f.ov.len, maxMl})
  IN  IF q.limit # "fillOutput" THEN GoTo(f, "refused")
      ELSE IF op + cost <= maxLitPos /\ q.oend + LASTLITERALS - (op + cost + 2) - 1 + ml >= MFLIMIT
      THEN EncodeAs(q, GoTo(f, "last"), [f.ov EXCEPT !.len = ml], FALSE)
      ELSE GoTo(f, "last")

-----------------------------------------------------------------------------
(* LZ4HC_compress_hashChain().  m1 is the match at ip, m2 one that begins  *)
(* inside it, m3 one inside m2; m0 is what m1 was at first.                *)

WiderIf(q, f, cond, ip, m) ==
  IF cond THEN LZ4HC_InsertAndGetWiderMatch(q, f.c, ip, m.start, m.len) ELSE [c |-> f.c, m |-> m, wild |-> FALSE]

After(m) == m.start + m.len

Shifted(m, n) == IF n > 0 THEN [m EXCEPT !.start = @ + n, !.len = @ - n] ELSE m

MainLoop(q, f) ==
  LET r == LZ4HC_InsertAndGetWiderMatch(q, f.c, f.ip, f.ip, MINMATCH - 1)
      g == [f EXCEPT !.c = r.c, !.wild = @ \/ r.wild]
  IN  IF f.ip > q.mflimit THEN GoTo(f, "last")
      ELSE IF r.m.len < MINMATCH THEN [g EXCEPT !.ip = @ + 1]
      ELSE [g EXCEPT !.m0 = r.m, !.m1 = r.m, !.at = "search2"]

Search2(q, f) ==
  LET r  == WiderIf(q, f, After(f.m1) <= q.mflimit, After(f.m1) - 2, f.m1)
      g  == [f EXCEPT !.c = r.c, !.wild = @ \/ r.wild, !.m2 = r.m]
      m1 == IF f.m0.start < f.m1.start /\ r.m.start < f.m1.start + f.m0.len THEN f.m0 ELSE f.m1
  IN  IF r.m.len = f.m1.len THEN LZ4HC_encodeSequence(q, GoTo(g, "main"), f.m1)
      ELSE IF r.m.start - m1.start < 3 THEN [g EXCEPT !.m1 = r.m]
      ELSE [g EXCEPT !.m1 = m1, !.at = "search3"]

(* How long m1 is to be in front of m2, when they overlap.                 *)
Squeezed(m1, m2) ==
  LET ml == Min({m1.len, OPTIMAL_ML})
  IN  IF m1.start + ml > After(m2) - MINMATCH THEN m2.start - m1.start + m2.len - MINMATCH ELSE ml

(* "No better match => encode ML1 and ML2"                                 *)
EncodeBoth(q, f) ==
  LET m1 == IF f.m2.start < After(f.m1) THEN [f.m1 EXCEPT !.len = f.m2.start - f.m1.start] ELSE f.m1
      g  == LZ4HC_encodeSequence(q, GoTo(f, "main"), m1)
  IN  IF Encoded(g) THEN LZ4HC_encodeSequence(q, g, f.m2) ELSE g

(* "Not enough space for match 2 : remove it"                              *)
RemoveSecond(q, f, m3) ==
  LET m2 == Shifted(f.m2, After(f.m1) - f.m2.start)
      m0 == IF f.m2.start < After(f.m1) /\ m2.len < MINMATCH THEN m3 ELSE m2
      g  == LZ4HC_encodeSequence(q, GoTo(f, "search2"), f.m1)
  IN  IF m3.start < After(f.m1) THEN [f EXCEPT !.m2 = m3]
      ELSE IF Encoded(g) THEN [g EXCEPT !.m1 = m3, !.m0 = m0] ELSE g

(* "now we have 3 ascending matches; let's write the first one"            *)
EncodeFirst(q, f, m3) ==
  LET close == f.m2.start - f.m1.start < OPTIMAL_ML
      len == IF f.m2.start >= After(f.m1) THEN f.m1.len
             ELSE IF close THEN Squeezed(f.m1, f.m2) ELSE f.m2.start - f.m1.start
      m2  == IF f.m2.start < After(f.m1) /\ close THEN Shifted(f.m2, len - (f.m2.start - f.m1.start)) ELSE f.m2
      g   == LZ4HC_encodeSequence(q, f, [f.m1 EXCEPT !.len = len])
  IN  IF Encoded(g) THEN [g EXCEPT !.m1 = m2, !.m2 = m3] ELSE g

Search3(q, f0) ==
  LET gap == f0.m2.start - f0.m1.start
      f1  == IF gap < OPTIMAL_ML THEN [f0 EXCEPT !.m2 = Shifted(@, Squeezed(f0.m1, @) - gap)] ELSE f0
      r   == WiderIf(q, f1, After(f1.m2) <= q.mflimit, After(f1.m2) - 3, f1.m2)
      f   == [f1 EXCEPT !.c = r.c, !.wild = @ \/ r.wild]
  IN  IF r.m.len = f.m2.len THEN EncodeBoth(q, f)
      ELSE IF r.m.start < After(f.m1) + 3 THEN RemoveSecond(q, f, r.m)
      ELSE EncodeFirst(q, f, r.m)

RECURSIVE LZ4HC_compress_hashChain(_, _)
LZ4HC_compress_hashChain(q, f) ==
  CASE f.at = "main" -> LZ4HC_compress_hashChain(q, MainLoop(q, f))
    [] f.at = "search2" -> LZ4HC_compress_hashChain(q, Search2(q, f))
    [] f.at = "search3" -> LZ4HC_compress_hashChain(q, Search3(q, f))
    [] f.at = "overflow" -> LZ4HC_compress_hashChain(q, Overflow(q, f))
    [] f.at = "last" -> LastLiterals(q, f)
    [] f.at = "refused" -> f

-----------------------------------------------------------------------------
(* LZ4HC_compress_optimal().  opt has, for a position behind ip, the       *)
(* cheapest way to come there: its price, and the match (or the literals)  *)
(* it ends with.                                                           *)

LZ4HC_literalsPrice(n) == n + (IF n >= RUN_MASK THEN 1 + (n - RUN_MASK) \div 255 ELSE 0)

LZ4HC_sequencePrice(lit, ml) ==
  1 + 2 + LZ4HC_literalsPrice(lit)
  + (IF ml >= ML_MASK + MINMATCH THEN 1 + (ml - ML_MASK - MINMATCH) \div 255 ELSE 0)

Literal(n, price) == [mlen |-> 1, off |-> 0, litlen |-> n, price |-> price]

LZ4HC_FindLongerMatch(q, c, ip, minLen) ==
  LET r   == LZ4HC_InsertAndGetWiderMatch(q, c, ip, ip, minLen)
      len == IF q.favorDecSpeed /\ r.m.len \in 19 .. 36 THEN 18 ELSE r.m.len
  IN  [r EXCEPT !.m.len = IF @ <= minLen THEN 0 ELSE len]

Trailing(opt, last) ==
  [p \in last + 1 .. last + TRAILING_LITERALS |->
     Literal(p - last, opt[last].price + LZ4HC_literalsPrice(p - last))] @@ opt

FirstPrices(llen, m) ==
  Trailing([p \in 0 .. m.len |->
              IF p < MINMATCH THEN Literal(llen + p, LZ4HC_literalsPrice(llen + p))
              ELSE [mlen |-> p, off |-> m.off, litlen |-> llen, price |-> LZ4HC_sequencePrice(llen, p)]], m.len)

(* "not useful to search here if next position has same (or lower) cost"   *)
Useless(q, o) ==
  /\ o.opt[o.cur + 1].price <= o.opt[o.cur].price
  /\ q.fullUpdate => o.opt[o.cur + MINMATCH].price < o.opt[o.cur].price + 3

(* The prices with the match m at cur: first with literals in front of it, *)
(* then with every length of it.                                           *)
WithLiterals(opt, cur) ==
  LET base     == opt[cur].litlen
      price(p) == opt[cur].price - LZ4HC_literalsPrice(base) + LZ4HC_literalsPrice(base + p - cur)
  IN  [p \in {p \in cur + 1 .. cur + MINMATCH - 1 : price(p) < opt[p].price} |-> Literal(base + p - cur, price(p))] @@ opt

WithMatch(q, opt, cur, last, m) ==
  LET here      == opt[cur]
      ll        == IF here.mlen = 1 THEN here.litlen ELSE 0
      before    == IF here.mlen = 1 THEN IF cur > ll THEN opt[cur - ll].price ELSE 0 ELSE here.price
      price(p)  == before + LZ4HC_sequencePrice(ll, p - cur)
      better(p) == p > last + TRAILING_LITERALS \/ price(p) <= opt[p].price - (IF q.favorDecSpeed THEN 1 ELSE 0)
      end       == cur + m.len
      new       == IF better(end) /\ last < end THEN end ELSE last
  IN  [last |-> new, opt |-> Trailing([p \in {p \in cur + MINMATCH .. end : better(p)} |->
                                         [mlen |-> p - cur, off |-> m.off, litlen |-> ll, price |-> price(p)]] @@ opt, new)]

(* "check further positions": until the last one that a match reaches, or  *)
(* a match that is taken at once.                                          *)
RECURSIVE Positions(_, _, _)
Positions(q, f, o) ==
  LET ip  == f.ip + o.cur
      r   == LZ4HC_FindLongerMatch(q, o.c, ip, IF q.fullUpdate THEN MINMATCH - 1 ELSE o.last - o.cur)
      n   == [o EXCEPT !.c = r.c, !.wild = @ \/ r.wild, !.cur = @ + 1]
      t   == WithMatch(q, WithLiterals(o.opt, o.cur), o.cur, o.last, r.m)
      end == o.opt[o.last]
  IN  IF o.cur >= o.last \/ ip > q.mflimit
      THEN [o EXCEPT !.cur = o.last - end.mlen, !.best = [len |-> end.mlen, off |-> end.off]]
      ELSE IF Useless(q, o) THEN Positions(q, f, [o EXCEPT !.cur = @ + 1])
      ELSE IF r.m.len = 0 THEN Positions(q, f, n)
      ELSE IF r.m.len > q.sufficient \/ r.m.len + o.cur >= OptNum
      THEN [n EXCEPT !.cur = o.cur, !.last = o.cur + 1, !.best = [len |-> r.m.len, off |-> r.m.off]]
      ELSE Positions(q, f, [n EXCEPT !.opt = t.opt, !.last = t.last, !.wild = @ \/ t.last + TRAILING_LITERALS >= OptNum + 3])

(* "reverse traversal": every position on the way gets what follows it.    *)
RECURSIVE Traversed(_, _, _)
Traversed(opt, pos, m) ==
  LET next == opt[pos]
      new  == [opt EXCEPT ![pos].mlen = m.len, ![pos].off = m.off]
  IN  IF next.mlen > pos THEN new ELSE Traversed(new, pos - next.mlen, [len |-> next.mlen, off |-> next.off])

RECURSIVE EncodeAll(_, _, _, _, _)
EncodeAll(q, f, opt, rPos, last) ==
  LET here == opt[rPos]
      g    == LZ4HC_encodeSequence(q, f, [start |-> f.ip, len |-> here.mlen, off |-> here.off])
  IN  IF rPos >= last THEN f
      ELSE IF here.mlen = 1 THEN EncodeAll(q, [f EXCEPT !.ip = @ + 1], opt, rPos + 1, last)
      ELSE IF Encoded(g) THEN EncodeAll(q, g, opt, rPos + here.mlen, last) ELSE g

RECURSIVE LZ4HC_compress_optimal(_, _)
LZ4HC_compress_optimal(q, f) ==
  LET r == LZ4HC_FindLongerMatch(q, f.c, f.ip, MINMATCH - 1)
      g == [f EXCEPT !.c = r.c, !.wild = @ \/ r.wild]
      o == Positions(q, f, [c |-> r.c, wild |-> g.wild, opt |-> FirstPrices(f.ip - f.anchor, r.m), cur |-> 1,
                            last |-> r.m.len, best |-> r.m])
  IN  CASE f.at = "main" /\ f.ip > q.mflimit -> LastLiterals(q, f)
        [] f.at = "main" /\ f.ip <= q.mflimit ->
             LZ4HC_compress_optimal(q,
               IF r.m.len = 0 THEN [g EXCEPT !.ip = @ + 1]
               ELSE IF r.m.len > q.sufficient THEN LZ4HC_encodeSequence(q, g, r.m)
               ELSE EncodeAll(q, [g EXCEPT !.c = o.c, !.wild = o.wild], Traversed(o.opt, o.cur, o.best), 0, o.last))
        [] f.at = "overflow" -> LZ4HC_compress_optimal(q, Overflow(q, f))
        [] f.at = "last" -> LastLiterals(q, f)
        [] f.at = "refused" -> f

-----------------------------------------------------------------------------
(* A block at a level.  The table has strategy, nbSearches, targetLength.  *)

clTable ==
  <<<<"hc", 2, 16>>, <<"hc", 2, 16>>, <<"hc", 4, 16>>, <<"hc", 8, 16>>, <<"hc", 16, 16>>, <<"hc", 32, 16>>,
    <<"hc", 64, 16>>, <<"hc", 128, 16>>, <<"hc", 256, 16>>, <<"opt", 96, 64>>, <<"opt", 512, 128>>,
    <<"opt", 16384, OptNum>>>>

LZ4HC_compress_generic_internal(c, mem, source, n, max, level0, limit, dict) ==
  LET level == IF level0 < 1 THEN LZ4HC_CLEVEL_DEFAULT ELSE Min({level0, LZ4HC_CLEVEL_MAX})
      p == clTable[level]
      optimal == p[1] = "opt"
      q == [mem |-> mem, source |-> source, iend |-> source + n, mflimit |-> source + n - MFLIMIT,
            matchlimit |-> source + n - LASTLITERALS, capacity |-> max, olimit |-> max, limit |-> limit, dict |-> dict,
            oend |-> IF limit = "fillOutput" THEN max - LASTLITERALS ELSE max,
            nbSearches |-> p[2], sufficient |-> Min({p[3], OptNum - 1}), chainSwap |-> optimal,
            patternAnalysis |-> optimal \/ p[2] > 128, fullUpdate |-> level = LZ4HC_CLEVEL_MAX,
            favorDecSpeed |-> optimal /\ c.favorDecSpeed]
      none == [start |-> source, len |-> 0, off |-> 0]
      start == [c |-> [c EXCEPT !.end = @ + n], ip |-> source, anchor |-> source, out |-> <<>>, m0 |-> none, m1 |-> none,
                m2 |-> none, ov |-> none, wild |-> FALSE,
                at |-> IF ~optimal /\ n < LZ4_minLength THEN "last" ELSE "main"]
      f == IF optimal THEN LZ4HC_compress_optimal(q, start) ELSE LZ4HC_compress_hashChain(q, start)
      refused == f.at = "refused"
  IN  IF limit = "fillOutput" /\ max < 1 THEN Refused(c)
      ELSE [c |-> [f.c EXCEPT !.dirty = @ \/ refused], out |-> IF refused THEN <<>> ELSE f.out,
            consumed |-> IF refused THEN 0 ELSE f.anchor - source, wild |-> f.wild \/ Len(f.out) > max]

(* The input so far becomes the segment before.                            *)
LZ4HC_setExternalDict(mem, c0, newBlock) ==
  LET c == IF c0.end >= c0.base + c0.dictLimit + 4 THEN LZ4HC_Insert(mem, c0, c0.end - 3) ELSE c0
      limit == c.end - c.base
  IN  [c EXCEPT !.lowLimit = c.dictLimit, !.dictLimit = limit, !.dictBase = c.base, !.base = newBlock - limit,
                !.end = newBlock, !.nextToUpdate = limit, !.dictCtx = <<>>]

LZ4HC_compress_generic(c, mem, source, n, max, level, limit) ==
  LET position == c.end - c.base - c.lowLimit
      Block(d, dict) == LZ4HC_compress_generic_internal(d, mem, source, n, max, level, limit, dict)
  IN  IF c.dictCtx = <<>> THEN Block(c, "noDictCtx")
      ELSE IF position >= KB64 THEN Block([c EXCEPT !.dictCtx = <<>>], "noDictCtx")
      ELSE IF position = 0 /\ n > KB4
      THEN Block([LZ4HC_setExternalDict(mem, c.dictCtx[1], source) EXCEPT !.level = level], "noDictCtx")
      ELSE Block(c, "usingDictCtxHc")

LZ4_resetStreamHC_fast(c, level) ==
  LZ4_setCompressionLevel(
    IF c.dirty THEN LZ4_initStreamHC ELSE [c EXCEPT !.end = IF @ = NULL THEN @ ELSE @ - c.base, !.base = NULL, !.dictCtx = <<>>],
    level)

LZ4_compress_HC_extStateHC_fastReset(c, mem, source, n, max, level) ==
  LZ4HC_compress_generic(LZ4HC_init_internal(LZ4_resetStreamHC_fast(c, level), source), mem, source, n, max, level,
                         Limit(n, max))

LZ4_compress_HC_destSize(mem, source, n, max, level) ==
  LZ4HC_compress_generic(LZ4_setCompressionLevel(LZ4HC_init_internal(LZ4_initStreamHC, source), level),
                         mem, source, n, max, level, "fillOutput")

-----------------------------------------------------------------------------
(* Streams of blocks.                                                      *)

LZ4_loadDictHC(c, mem, dictionary0, n0) ==
  LET n == Min({n0, KB64})
      dictionary == dictionary0 + n0 - n
      d == [LZ4HC_init_internal(LZ4_setCompressionLevel(LZ4_initStreamHC, c.level), dictionary) EXCEPT !.end = @ + n]
  IN  IF n >= 4 THEN LZ4HC_Insert(mem, d, d.end - 3) ELSE d

LZ4_attach_HC_dictionary(c, dicts) == [c EXCEPT !.dictCtx = dicts]

(* Mutant: of a segment that is overwritten, the rest counts from its end. *)
CutDictKept(c, source, sourceEnd0) == c

(* "Check overlapping input/dictionary space"                              *)
CutDict(c, source, sourceEnd0) ==
  LET begin == c.dictBase + c.lowLimit
      end   == c.dictBase + c.dictLimit
      low   == Min({sourceEnd0, end}) - c.dictBase
  IN  IF sourceEnd0 > begin /\ source < end
      THEN [c EXCEPT !.lowLimit = IF c.dictLimit - low < 4 THEN c.dictLimit ELSE low] ELSE c

LZ4_compressHC_continue_generic(c0, mem, source, n, max, limit) ==
  LET c1 == IF c0.base = NULL THEN LZ4HC_init_internal(c0, source) ELSE c0
      keep == Min({c1.end - c1.base - c1.dictLimit, KB64})
      c2 == IF c1.end - c1.base > OffsetMax THEN LZ4_loadDictHC(c1, mem, c1.end - keep, keep) ELSE c1
      c3 == IF source # c2.end THEN LZ4HC_setExternalDict(mem, c2, source) ELSE c2
  IN  LZ4HC_compress_generic(CutDict(c3, source, source + n), mem, source, n, max, c3.level, limit)

LZ4_compress_HC_continue(c, mem, source, n, max) ==
  LZ4_compressHC_continue_generic(c, mem, source, n, max, Limit(n, max))

LZ4_compress_HC_continue_destSize(c, mem, source, n, max) ==
  LZ4_compressHC_continue_generic(c, mem, source, n, max, "fillOutput")

(* LZ4_saveDictHC(): how much is saved, and the context afterwards.        *)
SavedHC(c, n) == Min({IF n < 4 THEN 0 ELSE Min({n, KB64}), c.end - c.base - c.dictLimit})

LZ4_saveDictHC(c, safeBuffer, n0) ==
  LET n     == SavedHC(c, n0)
      index == c.end - c.base
  IN  [c EXCEPT !.end = safeBuffer + n, !.base = safeBuffer + n - index, !.dictLimit = index - n,
                !.lowLimit = index - n, !.nextToUpdate = Max({@, index - n})]

-----------------------------------------------------------------------------
(* The calls of a program, as in LZ4Compress.  A block that is compressed  *)
(* as far as it fits is followed by the rest of it ("split") or not.       *)

AttachedHC(j, mem, c) ==
  LET load(d) == LZ4_loadDictHC(d, mem, j.dictAt, Len(j.dict))
  IN  IF j.dict = <<>> THEN c
      ELSE IF j.attach THEN LZ4_attach_HC_dictionary(c, <<load(LZ4_initStreamHC)>>) ELSE load(c)

SessionHC(j) ==
  LET mem == Stocked(<<>>, j.dictAt, j.dict \o j.behind)
      c   == [LZ4_setCompressionLevel(LZ4_initStreamHC, j.level) EXCEPT !.favorDecSpeed = j.favor]
  IN  Opened(j, mem, AttachedHC(j, mem, c))

SplitCall(j, s, call) ==
  LET mem  == Stocked(s.mem, call.at, call.bytes)
      n    == Len(call.bytes)
      e    == LZ4_compress_HC_continue_destSize(s.c, mem, call.at, n, call.max)
      t    == Continued(j, s, [call EXCEPT !.bytes = SubSeq(@, 1, e.consumed)], mem, e)
      rest == [call EXCEPT !.at = @ + e.consumed, !.bytes = SubSeq(@, e.consumed + 1, n), !.max = 2 * n + 20]
  IN  IF call.op = "part" THEN t
      ELSE Continued(j, t, rest, mem, LZ4_compress_HC_continue(t.c, mem, rest.at, n - e.consumed, rest.max))

CallHC(j, s, call) ==
  LET mem == Stocked(s.mem, call.at, call.bytes)
      n   == Len(call.bytes)
  IN  CASE call.op = "continue" -> Continued(j, s, call, mem, LZ4_compress_HC_continue(s.c, mem, call.at, n, call.max))
        [] call.op \in {"split", "part"} -> SplitCall(j, s, call)
        [] call.op = "single" ->
             Single(s, call, mem, LZ4_compress_HC_extStateHC_fastReset(s.c, mem, call.at, n, call.max, j.level))
        [] call.op = "fill" -> Single(s, call, mem, LZ4_compress_HC_destSize(mem, call.at, n, call.max, j.level))
        [] call.op = "save" ->
             LET k == SavedHC(s.c, call.max)
             IN  [s EXCEPT !.c = LZ4_saveDictHC(@, call.at, call.max), !.mem = Stocked(@, call.at, Bytes(@, s.c.end - k, k))]
        [] call.op = "reset" ->
             [s EXCEPT !.c = AttachedHC(j, s.mem, LZ4_resetStreamHC_fast(@, j.level)), !.dest = OutputStart,
                       !.d = LZ4_setStreamDecode(@, j.dictAt, Len(j.dict))]

OutcomesHC(j) == FoldLeft(LAMBDA s, call : CallHC(j, s, call), SessionHC(j), j.calls).blocks
=============================================================================

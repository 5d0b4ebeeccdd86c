----------------------------- MODULE ZstdMatch ------------------------------
(***************************************************************************)
(* lib/zstd/compress: the window of the input (zstd_compress_internal.h)   *)
(* and the search for matches with one table (zstd_fast.c) or with two     *)
(* (zstd_double_fast.c).                                                   *)
(*                                                                         *)
(* `mem' is the memory: its domain are the addresses of the buffers, and   *)
(* reading at another one is an error.  Positions in the input are indices *)
(* relative to the base of the window, and below dictLimit to dictBase.    *)
(* The match state ms has the window w, the tables hash and chain (the     *)
(* short one of two), what is still valid of old tables behind them, the   *)
(* end of a loaded dictionary, and in dms, as a sequence of at most one,   *)
(* the match state of an attached dictionary.                              *)
(* Which entry of a table belongs to a position is a sum of the bytes      *)
(* hashed: any function of them would do.                                  *)
(***************************************************************************)
EXTENDS ZstdEncode

CONSTANT CurrentMax    \* ZSTD_CURRENT_MAX: where indices are reduced

ASSUME CurrentMaxAssumption == CurrentMax \in Nat \ {0}

HASH_READ_SIZE == 8
kSearchStrength == 8

-----------------------------------------------------------------------------
(* The window.                                                             *)

ZSTD_window_init == [base |-> 0, dictBase |-> 0, dictLimit |-> 1, lowLimit |-> 1, nextSrc |-> 1]

ZSTD_window_clear(w) == [w EXCEPT !.lowLimit = w.nextSrc - w.base, !.dictLimit = w.nextSrc - w.base]

ZSTD_window_hasExtDict(w) == w.lowLimit < w.dictLimit

(* Input that does not follow the last one starts a new segment, and the   *)
(* segment before it becomes the dictionary.                               *)
NewSegment(w, ip) ==
  LET distance == w.nextSrc - w.base
  IN  [w EXCEPT !.lowLimit = IF distance - w.dictLimit < HASH_READ_SIZE THEN distance ELSE w.dictLimit,
                !.dictLimit = distance, !.dictBase = w.base, !.base = ip - distance]

(* Mutant: the segment that was overwritten stays in the window.           *)
OverwrittenKept(w, ip, n) == w

(* What input overwrites of the dictionary is no longer a part of it.      *)
Overwritten(w, ip, n) ==
  IF ip + n > w.dictBase + w.lowLimit /\ ip < w.dictBase + w.dictLimit
  THEN [w EXCEPT !.lowLimit = Min({w.dictLimit, ip + n - w.dictBase})]
  ELSE w

ZSTD_window_update(w, ip, n, force) ==
  IF n = 0 THEN [w |-> w, contiguous |-> TRUE]
  ELSE LET contiguous == ip = w.nextSrc /\ ~force
       IN  [w |-> Overwritten([IF contiguous THEN w ELSE NewSegment(w, ip) EXCEPT !.nextSrc = ip + n], ip, n),
            contiguous |-> contiguous]

ZSTD_matchState_dictMode(ms) ==
  IF ZSTD_window_hasExtDict(ms.w) THEN "extDict" ELSE IF ms.dms # <<>> THEN "dictMatchState" ELSE "noDict"

(* Indices that become too large are all reduced by the same value, which  *)
(* leaves their lowest bits and keeps a full window.                       *)
ZSTD_window_needOverflowCorrection(w, srcEnd) == srcEnd - w.base > CurrentMax

ZSTD_window_correction(w, cycleLog, maxDist, src) ==
  LET curr  == src - w.base
      cycle == 2^cycleLog
  IN  curr - ((IF curr % cycle = 0 THEN cycle ELSE curr % cycle) + Max({maxDist, cycle}))

Reduced(index, correction) == IF index <= correction THEN 1 ELSE index - correction

ZSTD_window_correctOverflow(w, correction) ==
  [w EXCEPT !.base = @ + correction, !.dictBase = @ + correction,
            !.lowLimit = Reduced(@, correction), !.dictLimit = Reduced(@, correction)]

ZSTD_reduceTable(table, correction) ==
  [i \in DOMAIN table |-> IF table[i] < correction THEN 0 ELSE table[i] - correction]

ZSTD_overflowCorrectIfNeeded(ms, cycleLog, maxDist, ip, iend) ==
  LET correction == ZSTD_window_correction(ms.w, cycleLog, maxDist, ip)
  IN  IF ~ZSTD_window_needOverflowCorrection(ms.w, iend) THEN ms
      ELSE [ms EXCEPT !.w = ZSTD_window_correctOverflow(@, correction),
                      !.hash = ZSTD_reduceTable(@, correction), !.chain = ZSTD_reduceTable(@, correction),
                      !.spare = <<>>, !.nextToUpdate = Max({0, @ - correction}), !.loadedDictEnd = 0, !.dms = <<>>]

(* Beyond the size of the window a dictionary is given up, and so are the  *)
(* indices that are too far away.                                          *)
ZSTD_checkDictValidity(ms, blockEnd, maxDist) ==
  IF blockEnd - ms.w.base > ms.loadedDictEnd + maxDist
  THEN [ms EXCEPT !.loadedDictEnd = 0, !.dms = <<>>] ELSE ms

ZSTD_window_enforceMaxDist(ms, blockEnd, maxDist) ==
  LET blockEndIdx == blockEnd - ms.w.base
      low == Max({ms.w.lowLimit, blockEndIdx - maxDist})
  IN  IF blockEndIdx > maxDist + ms.loadedDictEnd
      THEN [ms EXCEPT !.w.lowLimit = low, !.w.dictLimit = Max({@, low}), !.loadedDictEnd = 0, !.dms = <<>>]
      ELSE ms

WithinWindow(ms, curr, lowest, maxDist) ==
  IF ms.loadedDictEnd = 0 /\ curr - lowest > maxDist THEN curr - maxDist ELSE lowest

ZSTD_getLowestMatchIndex(ms, curr, maxDist) == WithinWindow(ms, curr, ms.w.lowLimit, maxDist)

ZSTD_getLowestPrefixIndex(ms, curr, maxDist) == WithinWindow(ms, curr, ms.w.dictLimit, maxDist)

-----------------------------------------------------------------------------
(* What a search sees of a block.  q is the same for the whole block:      *)
(* mode, memory and bases; border, below which indices are those of the    *)
(* dictionary; low and start, the lowest index of the dictionary and of    *)
(* the input that may be used; end and limit; the tables of an attached    *)
(* dictionary, and what its indices are to be raised by.  f is the state   *)
(* of the search: ip, anchor, the last two offsets, tables, and the        *)
(* sequences and literals stored.                                          *)

BaseOf(q, i) == IF i < q.border THEN q.dictBase ELSE q.base

At(q, i) == q.mem[BaseOf(q, i) + i]

(* Bytes that are read at once are next to each other in memory.           *)
Word(q, i, n) == LET a == BaseOf(q, i) + i - 1 IN [k \in 1 .. n |-> q.mem[a + k]]

Same(q, m, i, n) == Word(q, m, n) = Word(q, i, n)

(* ZSTD_count_2segments(), and ZSTD_count(): a match that reaches the end  *)
(* of the dictionary goes on at the start of the input.                    *)
RECURSIVE ZSTD_count(_, _, _)
ZSTD_count(q, i, m) == IF i < q.end /\ At(q, i) = At(q, m) THEN 1 + ZSTD_count(q, i + 1, m + 1) ELSE 0

(* The bytes in front of a match that are the same, too.                   *)
RECURSIVE CatchUp(_, _, _, _)
CatchUp(q, anchor, i, m) ==
  IF i > anchor /\ m > (IF m < q.border THEN q.low ELSE q.start) /\ At(q, i - 1) = At(q, m - 1)
  THEN 1 + CatchUp(q, anchor, i - 1, m - 1) ELSE 0

ZSTD_hashPtr(q, i, mls, table) ==
  FoldLeft(LAMBDA h, b : (31 * h + b) % 8191, 0, Word(q, i, mls)) % Cardinality(DOMAIN table)

Put(q, table, i, mls) == [table EXCEPT ![ZSTD_hashPtr(q, i, mls, table)] = i]

Literals(q, from, to) == [k \in 1 .. to - from |-> At(q, from + k - 1)]

ZSTD_storeSeq(q, f, i, offCode, length) ==
  [f EXCEPT !.seqs = Append(@, [ll |-> i - f.anchor, of |-> offCode, ml |-> length]),
            !.lits = @ \o Literals(q, f.anchor, i), !.ip = i + length, !.anchor = i + length]

(* A match of a last offset o at i.  One that overlaps dictionary and      *)
(* input is not used, nor, from index `far', one before the dictionary.    *)
NoOverlap(q, i) == i >= q.start \/ i < q.start - 3

RepAllowed(q, o, i, far) ==
  CASE q.mode = "noDict" -> o > 0
    [] q.mode = "dictMatchState" -> NoOverlap(q, i - o)
    [] q.mode = "extDict" -> NoOverlap(q, i - o) /\ o <= far - q.low

IsRep(q, o, i, far) == IF RepAllowed(q, o, i, far) THEN Same(q, i - o, i, 4) ELSE FALSE

StoreRep(q, f, i, o) == ZSTD_storeSeq(q, f, i, 0, ZSTD_count(q, i, i - o))

(* The entry of a table for position i, or of the table of the attached    *)
(* dictionary, if n bytes are the same; 0 for none.                        *)
Candidate(q, table, dict, i, n, mls) ==
  LET m  == table[ZSTD_hashPtr(q, i, mls, table)]
      d  == dict[ZSTD_hashPtr(q, i, mls, dict)] + q.delta
      at(j) == IF Same(q, j, i, n) THEN j ELSE 0
  IN  CASE q.mode = "extDict" -> IF m >= q.least THEN at(m) ELSE 0
        [] q.mode # "extDict" /\ m > q.start -> at(m)
        [] q.mode = "dictMatchState" /\ m <= q.start -> IF d > q.low THEN at(d) ELSE 0
        [] q.mode = "noDict" /\ m <= q.start -> 0

StoreMatch(q, f, i, m) ==
  With(CatchUp(q, f.anchor, i, m), LAMBDA b :
    ZSTD_storeSeq(q, [f EXCEPT !.o1 = i - m, !.o2 = f.o1], i - b, i - m + ZSTD_REP_MOVE, b + ZSTD_count(q, i, m)))

Skip(f, step, strength) == [f EXCEPT !.ip = @ + (f.ip - f.anchor) \div 2^strength + step]

(* Both tables, or the only one, get position i.                           *)
Inserted(q, f, i) ==
  IF q.double THEN [f EXCEPT !.hash = Put(q, @, i, 8), !.chain = Put(q, @, i, q.mls)]
  ELSE [f EXCEPT !.hash = Put(q, @, i, q.mls)]

(* After a match, the offset before the last one may be used at once.      *)
RECURSIVE ImmediateReps(_, _, _)
ImmediateReps(q, f, curr) ==
  IF f.ip <= q.limit /\ IsRep(q, f.o2, f.ip, IF q.double THEN f.ip ELSE curr)
  THEN ImmediateReps(q, StoreRep(q, [Inserted(q, f, f.ip) EXCEPT !.o1 = f.o2, !.o2 = f.o1], f.ip, f.o2), curr)
  ELSE f

Complementary(q, f, curr) ==
  IF q.double
  THEN [f EXCEPT !.hash = Put(q, Put(q, @, curr + 2, 8), f.ip - 2, 8),
                 !.chain = Put(q, Put(q, @, curr + 2, q.mls), f.ip - 1, q.mls)]
  ELSE [f EXCEPT !.hash = Put(q, Put(q, @, curr + 2, q.mls), f.ip - 2, q.mls)]

AfterMatch(q, f, curr) == IF f.ip <= q.limit THEN ImmediateReps(q, Complementary(q, f, curr), curr) ELSE f

-----------------------------------------------------------------------------
(* ZSTD_compressBlock_fast_generic(): two positions at a time.             *)
FastMatch(q, f, g, m0, m1) ==
  IF m0 # 0 THEN AfterMatch(q, StoreMatch(q, g, f.ip, m0), f.ip)
  ELSE IF m1 # 0 THEN AfterMatch(q, StoreMatch(q, g, f.ip + 1, m1), f.ip)
  ELSE Skip(g, q.step + 1, kSearchStrength - 1)

FastPair(q, f) ==
  With([f EXCEPT !.hash = Put(q, Put(q, @, f.ip, q.mls), f.ip + 1, q.mls)], LAMBDA g :
    IF IsRep(q, f.o1, f.ip + 2, 0)
    THEN AfterMatch(q, StoreRep(q, g, IF At(q, f.ip + 1) = At(q, f.ip + 1 - f.o1) THEN f.ip + 1 ELSE f.ip + 2, f.o1),
                    f.ip)
    ELSE FastMatch(q, f, g, Candidate(q, f.hash, q.dictHash, f.ip, 4, q.mls),
                   Candidate(q, f.hash, q.dictHash, f.ip + 1, 4, q.mls)))

(* ZSTD_compressBlock_fast_dictMatchState_generic() and                    *)
(* ZSTD_compressBlock_fast_extDict_generic()                               *)
FastOne(q, f) ==
  With(Inserted(q, f, f.ip), LAMBDA g :
    IF IsRep(q, f.o1, f.ip + 1, f.ip + 1) THEN AfterMatch(q, StoreRep(q, g, f.ip + 1, f.o1), f.ip)
    ELSE With(Candidate(q, f.hash, q.dictHash, f.ip, 4, q.mls), LAMBDA m :
           IF m # 0 THEN AfterMatch(q, StoreMatch(q, g, f.ip, m), f.ip) ELSE Skip(g, q.step, kSearchStrength)))

(* ZSTD_compressBlock_doubleFast_generic() and                             *)
(* ZSTD_compressBlock_doubleFast_extDict_generic(): a short match is       *)
(* taken only if there is no long one at the next position.                *)
NextLong(q, f, g, m) ==
  With(Candidate(q, g.hash, q.dictHash, f.ip + 1, 8, 8), LAMBDA l :
    With([g EXCEPT !.hash = Put(q, @, f.ip + 1, 8)], LAMBDA h :
      AfterMatch(q, IF l # 0 THEN StoreMatch(q, h, f.ip + 1, l) ELSE StoreMatch(q, h, f.ip, m), f.ip)))

DoubleOne(q, f) ==
  With(Inserted(q, f, f.ip), LAMBDA g :
    IF IsRep(q, f.o1, f.ip + 1, f.ip + 1) THEN AfterMatch(q, StoreRep(q, g, f.ip + 1, f.o1), f.ip)
    ELSE With(Candidate(q, f.hash, q.dictHash, f.ip, 8, 8), LAMBDA l :
      IF l # 0 THEN AfterMatch(q, StoreMatch(q, g, f.ip, l), f.ip)
      ELSE With(Candidate(q, f.chain, q.dictChain, f.ip, 4, q.mls), LAMBDA m :
        IF m # 0 THEN NextLong(q, f, g, m) ELSE Skip(g, 1, kSearchStrength))))

RECURSIVE SearchLoop(_, _)
SearchLoop(q, f) ==
  IF q.double THEN IF f.ip < q.limit THEN SearchLoop(q, DoubleOne(q, f)) ELSE f
  ELSE IF q.mode # "noDict" THEN IF f.ip < q.limit THEN SearchLoop(q, FastOne(q, f)) ELSE f
  ELSE IF f.ip + 1 < q.limit THEN SearchLoop(q, FastPair(q, f)) ELSE f

(* Without a dictionary, an offset that reaches too far is put aside until *)
(* the end of the block.                                                   *)
OrSaved(o, saved) == IF o # 0 THEN o ELSE saved

SearchFrom(q, f, maxRep, rep) ==
  LET far(o) == q.mode = "noDict" /\ o > maxRep
      saved  == IF far(rep[1]) THEN rep[1] ELSE IF far(rep[2]) THEN rep[2] ELSE 0
      start  == [f EXCEPT !.o1 = IF far(rep[1]) THEN 0 ELSE rep[1], !.o2 = IF far(rep[2]) THEN 0 ELSE rep[2]]
  IN  With(SearchLoop(q, start), LAMBDA g :
        [hash |-> g.hash, chain |-> g.chain, seqs |-> g.seqs, lits |-> g.lits \o Literals(q, g.anchor, q.end),
         rep |-> <<OrSaved(g.o1, saved), OrSaved(g.o2, saved), rep[3]>>])

MatchBytes(p) == IF p.minMatch \in 5 .. 7 THEN p.minMatch ELSE 4

(* What a block compressor sees.  A dictionary that is out of the window   *)
(* is left to the variant without one.                                     *)
View(mem, ms, p, istart, srcSize) ==
  LET curr   == istart - ms.w.base
      end    == curr + srcSize
      lowest == ZSTD_getLowestMatchIndex(ms, end, 2^p.windowLog)
      mode   == IF ZSTD_matchState_dictMode(ms) = "extDict" /\ ms.w.dictLimit <= lowest
                THEN "noDict" ELSE ZSTD_matchState_dictMode(ms)
      d      == IF mode = "dictMatchState" THEN ms.dms[1] ELSE ms
      start  == IF mode = "noDict" THEN ZSTD_getLowestPrefixIndex(ms, end, 2^p.windowLog) ELSE ms.w.dictLimit
      delta  == IF mode = "dictMatchState" THEN start - (d.w.nextSrc - d.w.base) ELSE 0
      low    == CASE mode = "noDict" -> start [] mode = "extDict" -> lowest
                  [] mode = "dictMatchState" -> d.w.dictLimit + delta
  IN  [mem |-> mem, mode |-> mode, base |-> ms.w.base, border |-> ms.w.dictLimit, start |-> start, low |-> low,
       dictBase |-> IF mode = "dictMatchState" THEN d.w.base - delta ELSE ms.w.dictBase, delta |-> delta,
       dictHash |-> d.hash, dictChain |-> d.chain, double |-> p.strategy = 2,
       least |-> IF p.strategy = 2 THEN low + 1 ELSE low, end |-> end, limit |-> end - HASH_READ_SIZE,
       mls |-> MatchBytes(p), step |-> Max({1, p.targetLength})]

ZSTD_compressBlock_search(mem, ms, p, rep, istart, srcSize) ==
  With(View(mem, ms, p, istart, srcSize), LAMBDA q :
    LET curr == istart - ms.w.base
        ip   == IF q.mode = "noDict" /\ curr = q.start THEN curr + 1 ELSE curr
    IN  SearchFrom(q, [ip |-> ip, anchor |-> curr, o1 |-> 0, o2 |-> 0, hash |-> ms.hash, chain |-> ms.chain,
                       seqs |-> <<>>, lits |-> <<>>],
                   ip - ZSTD_getLowestPrefixIndex(ms, ip, 2^p.windowLog), rep))

-----------------------------------------------------------------------------
(* A dictionary fills the tables: every third position and, unless it is   *)
(* to be fast, the others where an entry is empty.                         *)
PutIfEmpty(q, table, i, mls) == IF table[ZSTD_hashPtr(q, i, mls, table)] = 0 THEN Put(q, table, i, mls) ELSE table

FillAt(q, f, i, full) ==
  LET others(t, mls) == IF full THEN PutIfEmpty(q, PutIfEmpty(q, t, i + 1, mls), i + 2, mls) ELSE t
  IN  IF q.double THEN [hash |-> others(Put(q, f.hash, i, 8), 8), chain |-> Put(q, f.chain, i, q.mls)]
      ELSE [hash |-> others(Put(q, f.hash, i, q.mls), q.mls), chain |-> f.chain]

(* ZSTD_fillHashTable() and ZSTD_fillDoubleHashTable()                     *)
RECURSIVE ZSTD_fillHashTable(_, _, _, _)
ZSTD_fillHashTable(q, f, i, full) ==
  IF i + 3 < q.limit + 2 THEN ZSTD_fillHashTable(q, FillAt(q, f, i, full), i + 3, full) ELSE f
=============================================================================

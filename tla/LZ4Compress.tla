---------------------------- MODULE LZ4Compress -----------------------------
(***************************************************************************)
(* lib/lz4/lz4.c: compression into LZ4 blocks with one table of indices,   *)
(* in one call or block after block with the blocks before as history, and *)
(* the decoder that follows it.                                            *)
(*                                                                         *)
(* `mem' is the memory: a function whose domain are the addresses of the   *)
(* buffers.  A context has its table, currentOffset (the index of the next *)
(* byte), the type of its table, where its history is (dictionary,         *)
(* dictSize) and, as a sequence of at most one, the context dictCtx of an  *)
(* attached dictionary.  NULL is address 0.                                *)
(* The window of 64 KB, and with it the width of a 16 bit index and of an  *)
(* offset, is the constant KB64; the other sizes are constants, too.  Of   *)
(* the hash functions it matters only that they read 4 bytes for a table   *)
(* of 16 bit indices and 5 for one of 32 bits.  Pointers in the table      *)
(* (byPtr) are for 32 bit machines and left out.                           *)
(***************************************************************************)
EXTENDS LZ4Block

CONSTANTS
  KB64,       \* 64 KB
  KB4,        \* 4 KB: from here on a table is cleared or copied
  OffsetMax,  \* 0x80000000, where indices are reduced; 1 GB is half of it
  HashSize    \* LZ4_HASH_SIZE_U32

NULL == 0
LZ4_DISTANCE_MAX == KB64 - 1
LZ4_64Klimit == KB64 + MFLIMIT - 1
LZ4_minLength == MFLIMIT + 1
LZ4_skipTrigger == 64
HASH_UNIT == 8

LZ4_compressBound(n) == n + n \div 255 + 16

ClearedTable == [h \in 0 .. 2 * HashSize - 1 |-> 0]

LZ4_initStream ==
  [table |-> ClearedTable, currentOffset |-> 0, tableType |-> "cleared", dictionary |-> NULL, dictSize |-> 0,
   dictCtx |-> <<>>]

At(mem, p) == IF p \in DOMAIN mem THEN mem[p] ELSE -1

Bytes(mem, p, n) == [i \in 1 .. n |-> At(mem, p + i - 1)]

Sum(mem, p, n) == FoldLeft(LAMBDA v, b : v + b, 0, Bytes(mem, p, n))

LZ4_hashPosition(mem, p, type) ==
  IF type = "byU16" THEN Sum(mem, p, 4) % (2 * HashSize) ELSE Sum(mem, p, 5) % HashSize

LZ4_putPosition(mem, table, p, type, base) ==
  [table EXCEPT ![LZ4_hashPosition(mem, p, type)] = IF type = "byU16" THEN (p - base) % KB64 ELSE p - base]

-----------------------------------------------------------------------------
(* One block.  q is the same for all of it: the parameters of              *)
(* LZ4_compress_generic_validated() and what it derives from them first.   *)
(* f is how far it came: positions, the table, the match that was found,   *)
(* what is written (out), and the literals that wait for their match.      *)

External(q) == q.mode \in {"usingExtDict", "usingDictCtx"}

(* The entry of a hash: of the context or, when that is older than the     *)
(* block, of the dictionary.                                               *)
Candidate(q, table, h) ==
  LET own == table[h]
  IN  IF External(q) /\ own < q.startIndex
      THEN LET index == IF q.mode = "usingDictCtx" THEN q.dictTable[h] ELSE own
           IN  [index |-> index + q.dictDelta, match |-> q.dictBase + index, low |-> q.dictionary]
      ELSE [index |-> own, match |-> q.base + own, low |-> q.low]

Valid(q, index, current) ==
  /\ q.dictSmall => index >= q.prefixIdxLimit
  /\ q.type # "byU16" => index + LZ4_DISTANCE_MAX >= current

Readable(q, p) == p .. p + 3 \subseteq DOMAIN q.mem

Same32(q, a, b) == Bytes(q.mem, a, 4) = Bytes(q.mem, b, 4)

(* LZ4_count()                                                             *)
LZ4_count(q, in, match, limit) ==
  LET differ == {i \in 0 .. limit - in - 1 : At(q.mem, in + i) # At(q.mem, match + i)}
  IN  IF in >= limit THEN 0 ELSE IF differ = {} THEN limit - in ELSE Min(differ)

Matches(q, m, ip) == Valid(q, m.index, ip - q.base) /\ Same32(q, m.match, ip)

(* The assertions on an entry and on a match that is taken.                *)
Asserted(q, m, ip) ==
  /\ m.index <= ip - q.base
  /\ q.type = "byU16" => ip - q.base < KB64
  /\ Valid(q, m.index, ip - q.base) => Readable(q, m.match) /\ m.index < ip - q.base
  /\ Matches(q, m, ip) => /\ ip - q.base - m.index <= LZ4_DISTANCE_MAX
                          /\ m.low = q.source \/ ~External(q) \/ m.match + MINMATCH <= q.dictEnd

Looked(q, f, m, ip) ==
  [f EXCEPT !.ip = ip, !.table[f.h] = IF q.type = "byU16" THEN (ip - q.base) % KB64 ELSE ip - q.base,
            !.match = m.match, !.low = m.low, !.offset = ip - q.base - m.index,
            !.wild = @ \/ ~Asserted(q, m, ip)]

(* "Find a match": with growing steps, until the end of the input is near. *)
RECURSIVE Search(_, _, _, _, _)
Search(q, f, ip, step, searchMatchNb) ==
  LET forwardIp == ip + step
      m == Candidate(q, f.table, f.h)
  IN  IF forwardIp > q.mflimitPlusOne THEN [f EXCEPT !.at = "last"]
      ELSE LET g == Looked(q, f, m, ip)
           IN  IF Matches(q, m, ip) THEN [g EXCEPT !.at = "literals", !.filledIp = ip]
               ELSE Search(q, [g EXCEPT !.h = LZ4_hashPosition(q.mem, forwardIp, q.type)],
                           forwardIp, searchMatchNb \div LZ4_skipTrigger, searchMatchNb + 1)

RECURSIVE CatchUp(_, _)
CatchUp(q, f) ==
  IF f.ip > f.anchor /\ f.match > f.low /\ At(q.mem, f.ip - 1) = At(q.mem, f.match - 1)
  THEN CatchUp(q, [f EXCEPT !.ip = @ - 1, !.match = @ - 1]) ELSE f

(* Room for a token, an offset and the last literals behind a match.       *)
FillMargin == 2 + 1 + MFLIMIT - MINMATCH

EncodeLiterals(q, f) ==
  LET lit == f.ip - f.anchor
      op  == Len(f.out) + 1
  IN  IF q.limit = "limitedOutput" /\ op + lit + 2 + 1 + LASTLITERALS + lit \div 255 > q.olimit
      THEN [f EXCEPT !.at = "refused"]
      ELSE IF q.limit = "fillOutput" /\ op + (lit + 240) \div 255 + lit + FillMargin > q.olimit
      THEN [f EXCEPT !.at = "last"]
      ELSE [f EXCEPT !.at = "match", !.run = Nibble(lit), !.lits = Extended(lit) \o Bytes(q.mem, f.anchor, lit),
                     !.wild = @ \/ op + Len(Extended(lit)) + Stripes(lit, 8) > q.capacity
                                \/ f.anchor + Stripes(lit, 8) > q.iend]

(* The length of a match behind its first four bytes.  One that begins in  *)
(* the dictionary goes on at the start of the input.                       *)
MatchCode(q, f) ==
  LET limit == Min({f.ip + q.dictEnd - f.match, q.matchlimit})
      code  == LZ4_count(q, f.ip + MINMATCH, f.match + MINMATCH, limit)
  IN  IF External(q) /\ f.low = q.dictionary
      THEN IF f.ip + MINMATCH + code = limit THEN code + LZ4_count(q, limit, q.source, q.matchlimit) ELSE code
      ELSE LZ4_count(q, f.ip + MINMATCH, f.match + MINMATCH, q.matchlimit)

(* A match shortened below what the table was filled up to takes these     *)
(* entries back.                                                           *)
Cleared(q, f, ip) ==
  [f EXCEPT !.table = [h \in DOMAIN @ |->
     IF \E p \in ip .. f.filledIp : h = LZ4_hashPosition(q.mem, p, q.type) THEN 0 ELSE @[h]]]

(* "Test next position": a match there needs no literals.                  *)
TestNext(q, f) ==
  LET g == [f EXCEPT !.table = LZ4_putPosition(q.mem, @, f.ip - 2, q.type, q.base),
                     !.h = LZ4_hashPosition(q.mem, f.ip, q.type)]
      m == Candidate(q, g.table, g.h)
      l == Looked(q, g, m, f.ip)
  IN  IF f.ip >= q.mflimitPlusOne THEN [f EXCEPT !.at = "last"]
      ELSE IF Matches(q, m, f.ip) THEN [l EXCEPT !.at = "match"]
      ELSE [l EXCEPT !.at = "search", !.ip = f.ip + 1, !.h = LZ4_hashPosition(q.mem, f.ip + 1, q.type)]

(* _next_match                                                             *)
EncodeMatch(q, f) ==
  LET op     == Len(f.out) + 1 + Len(f.lits) + 2
      offset == IF External(q) THEN f.offset ELSE f.ip - f.match
      code0  == MatchCode(q, f)
      over   == q.limit # "notLimited" /\ op + 1 + LASTLITERALS + (code0 + 240) \div 255 > q.olimit
      code   == IF over THEN 15 - 1 + (q.olimit - op - 1 - LASTLITERALS) * 255 ELSE code0
      ip     == f.ip + MINMATCH + code
      g      == IF over /\ ip <= f.filledIp THEN Cleared(q, f, ip) ELSE f
  IN  IF q.limit = "fillOutput" /\ op - 2 + FillMargin > q.olimit THEN [f EXCEPT !.at = "last"]
      ELSE IF over /\ q.limit = "limitedOutput" THEN [f EXCEPT !.at = "refused"]
      ELSE TestNext(q, [g EXCEPT !.ip = ip, !.anchor = ip, !.lits = <<>>, !.run = 0,
             !.out = @ \o <<16 * f.run + Nibble(code)>> \o f.lits
                       \o <<(offset % KB64) % 256, (offset % KB64) \div 256>> \o Extended(code),
             !.wild = @ \/ (code >= ML_MASK /\ op + 4 * (1 + (code - ML_MASK) \div 1020) > q.capacity)])

(* _last_literals                                                          *)
LastLiterals(q, f) ==
  LET op   == Len(f.out)
      all  == q.iend - f.anchor
      over == q.limit # "notLimited" /\ op + all + 1 + (all + 255 - RUN_MASK) \div 255 > q.olimit
      room == q.olimit - op - 1
      run  == IF over THEN room - (room + 256 - RUN_MASK) \div 256 ELSE all
  IN  IF over /\ q.limit = "limitedOutput" THEN [f EXCEPT !.at = "refused"]
      ELSE [f EXCEPT !.at = "done", !.anchor = @ + run,
                     !.out = @ \o <<16 * Nibble(run)>> \o Extended(run) \o Bytes(q.mem, f.anchor, run)]

RECURSIVE Compressing(_, _)
Compressing(q, f) ==
  CASE f.at = "search" -> Compressing(q, Search(q, f, f.ip, 1, q.acceleration * LZ4_skipTrigger))
    [] f.at = "literals" -> Compressing(q, EncodeLiterals(q, CatchUp(q, f)))
    [] f.at = "match" -> Compressing(q, EncodeMatch(q, f))
    [] f.at = "last" -> LastLiterals(q, f)
    [] f.at = "refused" -> f

-----------------------------------------------------------------------------
(* LZ4_compress_generic() with the context c.  The result is the context,  *)
(* the block (<<>> where the code returns 0), how much of the input is in  *)
(* it, and whether there was an access outside a buffer.                   *)

Refused(c) == [c |-> c, out |-> <<>>, consumed |-> 0, wild |-> FALSE]

Parameters(c, mem, source, n, max, limit, type, mode, dictSmall, acceleration, capacity) ==
  LET d == IF mode = "usingDictCtx" THEN c.dictCtx[1] ELSE c
      dictEnd == IF d.dictionary = NULL THEN NULL ELSE d.dictionary + d.dictSize
  IN  [mem |-> mem, source |-> source, iend |-> source + n, olimit |-> max, capacity |-> capacity, limit |-> limit,
       type |-> type, mode |-> mode, dictSmall |-> dictSmall, acceleration |-> acceleration,
       startIndex |-> c.currentOffset, base |-> source - c.currentOffset,
       low |-> IF mode = "withPrefix64k" THEN source - c.dictSize ELSE source,
       dictionary |-> d.dictionary, dictEnd |-> dictEnd, dictTable |-> d.table,
       dictBase |-> dictEnd - d.currentOffset,
       dictDelta |-> c.currentOffset - d.currentOffset,
       prefixIdxLimit |-> c.currentOffset - d.dictSize,
       mflimitPlusOne |-> source + n - MFLIMIT + 1, matchlimit |-> source + n - LASTLITERALS]

(* The history grows by the input, or is the input when there was an       *)
(* attached dictionary.                                                    *)
Grown(c, n, type, mode) ==
  [c EXCEPT !.currentOffset = @ + n, !.tableType = type, !.dictCtx = IF mode = "usingDictCtx" THEN <<>> ELSE @,
            !.dictSize = IF mode = "usingDictCtx" THEN n ELSE @ + n]

LZ4_compress_generic(c, mem, source, n, max, limit, type, mode, dictSmall, acceleration, capacity) ==
  LET q == Parameters(c, mem, source, n, max, limit, type, mode, dictSmall, acceleration, capacity)
      table == LZ4_putPosition(mem, c.table, source, type, q.base)
      short == n < LZ4_minLength
      start == [ip |-> source + 1, anchor |-> source, h |-> IF short THEN 0 ELSE LZ4_hashPosition(mem, source + 1, type),
                table |-> IF short THEN c.table ELSE table, out |-> <<>>, match |-> 0, low |-> q.low, offset |-> 0,
                filledIp |-> source, run |-> 0, lits |-> <<>>, wild |-> FALSE, at |-> IF short THEN "last" ELSE "search"]
      f == Compressing(q, start)
  IN  IF n = 0 THEN IF limit # "notLimited" /\ max <= 0 THEN Refused(c) ELSE [Refused(c) EXCEPT !.out = <<0>>]
      ELSE IF (limit = "fillOutput" /\ max < 1) \/ (type = "byU16" /\ n >= LZ4_64Klimit) THEN Refused(c)
      ELSE [c |-> [Grown(c, n, type, mode) EXCEPT !.table = f.table],
            out |-> IF f.at = "refused" THEN <<>> ELSE f.out,
            consumed |-> IF f.at = "refused" THEN 0 ELSE f.anchor - source,
            wild |-> f.wild \/ Len(f.out) > capacity]

(* A table that was used stays only where its entries cannot be mistaken.  *)
MustClear(c, n, type) ==
  \/ c.tableType # type
  \/ type = "byU16" /\ c.currentOffset + n >= KB64 - 1
  \/ type = "byU32" /\ c.currentOffset > OffsetMax \div 2
  \/ n >= KB4

LZ4_prepareTable(c, n, type) ==
  LET clear == c.tableType # "cleared" /\ MustClear(c, n, type)
      d == IF clear THEN LZ4_initStream ELSE c
  IN  [d EXCEPT !.currentOffset = IF @ # 0 /\ type = "byU32" THEN @ + KB64 ELSE @,
                !.dictCtx = <<>>, !.dictionary = NULL, !.dictSize = 0]

LZ4_resetStream_fast(c) == LZ4_prepareTable(c, 0, "byU32")

TableType(n) == IF n < LZ4_64Klimit THEN "byU16" ELSE "byU32"

Limit(n, max) == IF max >= LZ4_compressBound(n) THEN "notLimited" ELSE "limitedOutput"

LZ4_compress_fast_extState(mem, source, n, max, acceleration) ==
  LZ4_compress_generic(LZ4_initStream, mem, source, n, max, Limit(n, max), TableType(n), "noDict", FALSE,
                       acceleration, max)

LZ4_compress_fast_extState_fastReset(c, mem, source, n, max, acceleration) ==
  LET d == LZ4_prepareTable(c, n, TableType(n))
  IN  LZ4_compress_generic(d, mem, source, n, max, Limit(n, max), TableType(n), "noDict",
                           TableType(n) = "byU16" /\ d.currentOffset # 0, acceleration, max)

LZ4_compress_destSize(mem, source, n, max) ==
  IF max >= LZ4_compressBound(n) THEN LZ4_compress_fast_extState(mem, source, n, max, 1)
  ELSE LZ4_compress_generic(LZ4_initStream, mem, source, n, max, "fillOutput", TableType(n), "noDict", FALSE, 1, max)

-----------------------------------------------------------------------------
(* Streams of blocks.                                                      *)

RECURSIVE PutEvery3(_, _, _, _, _)
PutEvery3(mem, table, p, end, base) ==
  IF p > end - HASH_UNIT THEN table
  ELSE PutEvery3(mem, LZ4_putPosition(mem, table, p, "byU32", base), p + 3, end, base)

LZ4_loadDict(mem, dictionary, n) ==
  LET c   == [LZ4_initStream EXCEPT !.currentOffset = KB64]
      end == dictionary + n
      p   == end - Min({n, KB64})
  IN  IF n < HASH_UNIT THEN c
      ELSE [c EXCEPT !.dictionary = p, !.dictSize = end - p, !.tableType = "byU32",
                     !.table = PutEvery3(mem, @, p, end, end - KB64)]

LZ4_attach_dictionary(c, d) ==
  [c EXCEPT !.currentOffset = IF @ = 0 THEN KB64 ELSE @, !.dictCtx = IF d.dictSize = 0 THEN <<>> ELSE <<d>>]

LZ4_renormDictT(c, n) ==
  LET delta == c.currentOffset - KB64
      size  == Min({c.dictSize, KB64})
  IN  IF c.currentOffset + n <= OffsetMax THEN c
      ELSE [c EXCEPT !.table = [h \in DOMAIN @ |-> IF h < HashSize /\ @[h] >= delta THEN @[h] - delta ELSE 0],
                     !.currentOffset = KB64, !.dictSize = size, !.dictionary = @ + c.dictSize - size]

(* Mutant: the input overwrites a history that stays as long as it was.    *)
OverlapIgnored(c, dictEnd, sourceEnd) == c

(* "Check overlapping input/dictionary space": what the input overwrites   *)
(* of the history is cut off, as long as some of it is left.               *)
Overlap(c, dictEnd, sourceEnd) ==
  LET left == Min({dictEnd - sourceEnd, KB64})
      size == IF left < 4 THEN 0 ELSE left
  IN  IF sourceEnd > c.dictionary /\ sourceEnd < dictEnd
      THEN [c EXCEPT !.dictSize = size, !.dictionary = dictEnd - size] ELSE c

(* The history is shorter than a window, so that older entries of the      *)
(* table have to be told from it.                                          *)
Small(c) == c.dictSize < KB64 /\ c.dictSize < c.currentOffset

LZ4_compress_fast_continue(c0, mem, source, n, max, acceleration) ==
  LET end0 == IF c0.dictSize = 0 THEN NULL ELSE c0.dictionary + c0.dictSize
      c1   == LZ4_renormDictT(c0, n)
      tiny == c1.dictSize < 4 /\ end0 # source /\ n > 0 /\ c1.dictCtx = <<>>
      c2   == IF tiny THEN [c1 EXCEPT !.dictSize = 0, !.dictionary = source] ELSE c1
      end  == IF tiny THEN source ELSE end0
      c    == Overlap(c2, end, source + n)
      Block(d, mode, small) ==
        LZ4_compress_generic(d, mem, source, n, max, "limitedOutput", "byU32", mode, small, acceleration, max)
      r    == IF c.dictCtx # <<>>
              THEN IF n > KB4 THEN Block(c.dictCtx[1], "usingExtDict", FALSE) ELSE Block(c, "usingDictCtx", FALSE)
              ELSE Block(c, "usingExtDict", Small(c))
  IN  IF end = source THEN Block(c, "withPrefix64k", Small(c))
      ELSE [r EXCEPT !.c.dictionary = source, !.c.dictSize = n]

(* LZ4_saveDict(): the history moves to a buffer of the caller.            *)
Saved(c, n) == Min({n, KB64, c.dictSize})

LZ4_saveDict(c, safeBuffer, n) == [c EXCEPT !.dictionary = safeBuffer, !.dictSize = Saved(c, n)]

-----------------------------------------------------------------------------
(* The decoder of a stream: where the last output ended, how much is in    *)
(* front of that, and the segment before (extDict, extDictSize).           *)

LZ4_setStreamDecode(d, dictionary, n) ==
  [d EXCEPT !.prefixSize = n, !.prefixEnd = dictionary + n, !.extDict = NULL, !.extDictSize = 0]

LZ4_decoderRingBufferSize(maxBlockSize) == KB64 + 14 + Max({maxBlockSize, 16})

(* What is decoded goes to memory with all that was written behind it.     *)
Decode(d, src, dest, capacity, prefix, extDict, extSize) ==
  LET r == LZ4_decompress_generic(src, capacity, Bytes(d.mem, dest - prefix, prefix),
                                  Bytes(d.mem, extDict, extSize), FALSE)
  IN  [error |-> r.st = "error", n |-> r.op, wild |-> r.wild,
       mem |-> [a \in {b \in dest .. dest + capacity - 1 : r.mem[b - dest] # -1} |-> r.mem[a - dest]] @@ d.mem]

LZ4_decompress_safe_continue(d, src, dest, capacity) ==
  LET first   == d.prefixSize = 0
      rolling == d.prefixEnd = dest
      e == IF first \/ rolling THEN d
           ELSE [d EXCEPT !.extDictSize = d.prefixSize, !.extDict = d.prefixEnd - d.prefixSize]
      r == IF first THEN Decode(d, src, dest, capacity, 0, NULL, 0)
           ELSE IF ~rolling THEN Decode(d, src, dest, capacity, 0, e.extDict, e.extDictSize)
           ELSE IF d.prefixSize >= KB64 - 1 THEN Decode(d, src, dest, capacity, Min({KB64, d.prefixSize}), NULL, 0)
           ELSE Decode(d, src, dest, capacity, d.prefixSize, d.extDict, d.extDictSize)
  IN  [error |-> r.error, wild |-> r.wild, n |-> r.n,
       d |-> IF r.error \/ r.n = 0 THEN [e EXCEPT !.mem = r.mem]
             ELSE [e EXCEPT !.mem = r.mem, !.prefixEnd = dest + r.n,
                            !.prefixSize = IF rolling /\ ~first THEN @ + r.n ELSE r.n]]

-----------------------------------------------------------------------------
(* How a program uses it: a list of calls with one context, each block     *)
(* decoded at once.  A block that does not fit is sent as it is.  The      *)
(* output goes to one long buffer ("flat"), to two in turn ("double"), or  *)
(* round a buffer of the size LZ4_decoderRingBufferSize() gives ("ring").  *)

Stocked(mem, at, bytes) == [a \in at .. at + Len(bytes) - 1 |-> bytes[a - at + 1]] @@ mem

MaxBlock(j) == Max({0} \cup {Len(j.calls[i].bytes) : i \in DOMAIN j.calls})

OutputStart == 2000

NextDest(j, dest, n) ==
  CASE j.output = "flat" -> dest + n
    [] j.output = "double" -> IF dest = OutputStart THEN OutputStart + 500 ELSE OutputStart
    [] j.output = "ring" ->
         IF dest + n - OutputStart > LZ4_decoderRingBufferSize(MaxBlock(j)) - MaxBlock(j)
         THEN OutputStart ELSE dest + n

Room(j, n) == IF j.output = "ring" THEN MaxBlock(j) ELSE n

(* The state of a session: the encoder's context and memory, the decoder,  *)
(* where its next output goes, and what became of every block.             *)
Attached(j, mem, c) ==
  IF j.dict = <<>> THEN c
  ELSE IF j.attach THEN LZ4_attach_dictionary(c, LZ4_loadDict(mem, j.dictAt, Len(j.dict)))
  ELSE LZ4_loadDict(mem, j.dictAt, Len(j.dict))

Opened(j, mem, c) ==
  [c |-> c, mem |-> mem, dest |-> OutputStart, blocks |-> <<>>,
   d |-> LZ4_setStreamDecode([mem |-> mem, prefixSize |-> 0, prefixEnd |-> NULL, extDict |-> NULL, extDictSize |-> 0],
                             j.dictAt, Len(j.dict))]

Session(j) == LET mem == Stocked(<<>>, j.dictAt, j.dict \o j.behind) IN Opened(j, mem, Attached(j, mem, LZ4_initStream))

Result(e, x, call, out) ==
  [wild |-> e.wild \/ x.wild, error |-> x.error, refused |-> e.out = <<>>, fits |-> Len(e.out) <= call.max,
   enough |-> call.max >= LZ4_compressBound(Len(call.bytes)), out |-> out, source |-> SubSeq(call.bytes, 1, e.consumed)]

(* A block sent as it is becomes the history together with what is in      *)
(* front of it.                                                            *)
SentRaw(d, dest, bytes) ==
  LET before == IF d.prefixEnd = dest THEN d.prefixSize ELSE 0
  IN  [error |-> FALSE, wild |-> FALSE, n |-> Len(bytes),
       d |-> LZ4_setStreamDecode([d EXCEPT !.mem = Stocked(@, dest, bytes)], dest - before, before + Len(bytes))]

Continued(j, s, call, mem, e) ==
  LET x == IF e.out = <<>> THEN SentRaw(s.d, s.dest, call.bytes)
           ELSE LZ4_decompress_safe_continue(s.d, e.out, s.dest, Room(j, Len(call.bytes)))
  IN  [s EXCEPT !.c = e.c, !.mem = mem, !.d = x.d, !.dest = NextDest(j, @, x.n),
                !.blocks = Append(@, [Result(e, x, call, Bytes(x.d.mem, s.dest, x.n)) EXCEPT !.source = call.bytes])]

ContinueCall(j, s, call) ==
  LET mem == Stocked(s.mem, call.at, call.bytes)
  IN  Continued(j, s, call, mem,
                LZ4_compress_fast_continue(s.c, mem, call.at, Len(call.bytes), call.max, call.acceleration))

(* Blocks without a history.                                               *)
Single(s, call, mem, e) ==
  LET x == Decode(s.d, e.out, OutputStart, e.consumed, 0, NULL, 0)
      y == IF e.out = <<>> THEN [error |-> FALSE, wild |-> FALSE] ELSE x
  IN  [s EXCEPT !.c = IF call.op = "fill" THEN @ ELSE e.c, !.mem = mem,
                !.blocks = Append(@, Result(e, y, call, IF e.out = <<>> THEN <<>> ELSE Bytes(x.mem, OutputStart, x.n)))]

SingleCall(s, call) ==
  LET mem == Stocked(s.mem, call.at, call.bytes)
      n   == Len(call.bytes)
  IN  Single(s, call, mem,
             IF call.op = "fill" THEN LZ4_compress_destSize(mem, call.at, n, call.max)
             ELSE LZ4_compress_fast_extState_fastReset(s.c, mem, call.at, n, call.max, call.acceleration))

Call(j, s, call) ==
  CASE call.op = "continue" -> ContinueCall(j, s, call)
    [] call.op \in {"single", "fill"} -> SingleCall(s, call)
    [] call.op = "save" ->
         LET n == Saved(s.c, call.max)
         IN  [s EXCEPT !.c = LZ4_saveDict(@, call.at, call.max),
                       !.mem = Stocked(@, call.at, Bytes(@, s.c.dictionary + s.c.dictSize - n, n))]
    [] call.op = "reset" ->
         [s EXCEPT !.c = Attached(j, s.mem, LZ4_resetStream_fast(@)), !.dest = OutputStart,
                   !.d = LZ4_setStreamDecode(@, j.dictAt, Len(j.dict))]

StreamOutcomes(j) == FoldLeft(LAMBDA s, call : Call(j, s, call), Session(j), j.calls).blocks
=============================================================================

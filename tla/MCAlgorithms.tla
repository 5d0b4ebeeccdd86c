---------------------------- MODULE MCAlgorithms ----------------------------
(***************************************************************************)
(* Inputs for Algorithms: the sizes are the ones at which the code takes   *)
(* another branch.                                                         *)
(***************************************************************************)
EXTENDS Algorithms, ZstdCompress

CONSTANTS KB64, KB4, OffsetMax, HashSize, OptNum

-----------------------------------------------------------------------------
(* How a program uses Zstandard.  One context compresses frame after       *)
(* frame.  A frame comes in chunks, each at an address of its own: a       *)
(* caller may reuse a buffer.  The dictionary is loaded for every frame,   *)
(* or digested once.  Frames use the parameters ps in turn.                *)

NoEntropy == [huf |-> <<>>, hufMode |-> "none", fse |-> [k \in Kinds |-> <<>>], mode |-> [k \in Kinds |-> "none"],
              rep |-> repStartValue]

NoTables == [litEntropy |-> FALSE, fseEntropy |-> FALSE, huf |-> Error, table |-> [k \in Kinds |-> <<>>],
             rep |-> repStartValue, cold |-> FALSE, dictID |-> 0, dict |-> <<>>, hot |-> <<>>]

Content(frame) == FlattenSeq([i \in DOMAIN frame |-> frame[i].bytes])

Source(j) == FlattenSeq([i \in DOMAIN j.frames |-> Content(j.frames[i])])

Stocked(mem, at, bytes) == [i \in at .. at + Len(bytes) - 1 |-> bytes[i - at + 1]] @@ mem

Pledged(j, frame) ==
  CASE j.pledge = "none" -> Unknown
    [] j.pledge = "exact" -> Len(Content(frame))
    [] j.pledge = "short" -> Len(Content(frame)) - 1
    [] j.pledge = "long" -> Len(Content(frame)) + 1

CompressChunk(r, chunk, last) ==
  With([r.c EXCEPT !.mem = Stocked(@, chunk.at, chunk.bytes)], LAMBDA c :
    With(ZSTD_compressContinue(c, chunk.at, Len(chunk.bytes), last), LAMBDA q :
      With(IF last THEN ZSTD_compressEnd(q) ELSE q, LAMBDA e : [c |-> e.c, bits |-> r.bits \o e.bits])))

CompressFrame(r, j, p, frame, cdicts, d) ==
  With([r EXCEPT !.c = ZSTD_compressBegin(@, cdicts, d, p, Pledged(j, frame))], LAMBDA b :
    FoldLeft(LAMBDA q, i : CompressChunk(q, frame[i], i = Len(frame)), b, [i \in DOMAIN frame |-> i]))

CompressAll(j) ==
  LET d == [at |-> j.dictAt, size |-> Len(j.dict), type |-> "auto"]
      skippable == IF j.skippable THEN ZSTD_writeSkippableFrame(<<1, 2, 3>>, 5) ELSE <<>>
  IN  With(ZSTD_initCCtx(NoEntropy, Stocked(<<>>, j.dictAt, j.dict)), LAMBDA c :
        With(IF j.digest THEN <<ZSTD_initCDict(c, j.ps[1], d)>> ELSE <<>>, LAMBDA cdicts :
          FoldLeft(LAMBDA r, i : CompressFrame(r, j, j.ps[1 + ((i - 1) % Len(j.ps))], j.frames[i], cdicts, d),
                   [c |-> c, bits |-> skippable], [i \in DOMAIN j.frames |-> i])))

Compress(j) ==
  LET r == CompressAll(j) IN [bits |-> r.bits, error |-> r.c.error, source |-> Source(j)]

(* The room for the output is what the source takes.                       *)
Decompress(bits, j) ==
  LET n    == Len(Source(j))
      dict == Bytes(j.dict)
  IN  ZSTD_decompressMultiFrame(
        [mem |-> [a \in 0 .. n - 1 |-> -1], low |-> 0, oend |-> n, op |-> 0, dict |-> <<>>, lits |-> <<>>, litPtr |-> 0,
         litSize |-> 0, aarch64 |-> j.aarch64, double |-> j.double, largeWindow |-> j.largeWindow, rest |-> <<>>,
         window |-> 0, wild |-> FALSE, far |-> FALSE, error |-> FALSE], NoTables, bits,
        IF j.digested THEN [how |-> "digested", ddict |-> ZSTD_initDDict(NoTables, dict, "auto")]
        ELSE [how |-> "plain", dict |-> dict]).s

-----------------------------------------------------------------------------
(* The inputs.                                                             *)

(* Runs of literals and matches around 15 (a length with an extension),    *)
(* 16 and 18 (the shortcuts), offsets below 8 and around 16.               *)
MCSeqs == [lit : {0, 14, 15, 33}, off : {1, 3, 5, 8, 17, 40}, len : {4, 18, 19, 70}]

MCTwo == {<<[lit |-> 9, off |-> o, len |-> 20], [lit |-> l, off |-> 30, len |-> 12]>> : o \in {1, 4, 9, 30}, l \in {0, 2, 16}}

MCBlockJobs ==
  {j \in [kind : {"block"}, block : [seqs : {<<>>} \cup {<<s>> : s \in MCSeqs} \cup MCTwo, last : {0, 5, 8, 100}],
          slack : {-1, 0, 12, 70}, history : {"none", "prefix", "dictionary"}, partial : BOOLEAN, cut : {0, 1, 9}] :
     /\ Block!Size(j.block) + j.slack >= 0
     /\ j.partial => j.history = "none"
     /\ j.cut > 0 => j.slack = 0 /\ j.block.last \in {0, 8}}

(* Distributions of 2^5 cells over four symbols, and one with a long gap.  *)
MCNorms ==
  {n \in [0 .. 3 -> {-1, 0, 1, 2, 8, 15, 16, 29, 31}] :
     /\ Cells(n[0]) + Cells(n[1]) + Cells(n[2]) + Cells(n[3]) = 32
     /\ n[3] # 0 /\ Cardinality({s \in 0 .. 3 : n[s] # 0}) > 1}
  \cup {[s \in 0 .. 60 |-> IF s = 0 THEN 20 ELSE IF s = 1 THEN 10 ELSE IF s \in {45, 60} THEN 1 ELSE 0],
        [s \in 0 .. 30 |-> IF s < 29 THEN 1 ELSE IF s = 29 THEN 0 ELSE 3]}

Present(f) == SelectSeq(Symbols(f), LAMBDA s : f[s] # 0)

Sample(f, n, k) == LET p == Present(f) IN [i \in 1 .. n |-> p[1 + ((i * k + (i \div 3)) % Len(p))]]

MCCountJobs ==
  {[kind |-> "count", norm |-> n, src |-> Sample(n, l, k), maxSV1 |-> Cardinality(DOMAIN n) + m] :
     n \in MCNorms, l \in {3, 4, 5, 6, 7, 15, 16, 41}, k \in {0, 1, 2}, m \in {0, 4}}

(* Counts that make deep, flat and uneven trees; with the last three       *)
(* HUF_setMaxHeight() takes too much and gives back.                       *)
MCRows ==
  {<<1, 1, 2, 3, 5, 8, 13, 21>>, <<21, 1, 13, 0, 2, 5, 1, 8, 3>>, <<3, 3, 3, 3, 3, 3, 3, 3>>, <<1, 1>>,
   <<100, 1, 1>>, <<1, 0, 0, 7>>, <<64, 32, 16, 8, 4, 2, 1, 1>>, <<2, 2, 2, 2, 2, 2, 2, 2, 60, 60>>,
   <<1, 1, 2, 4, 8, 16, 32, 64, 128, 256>>, <<80, 30, 16, 8, 4, 3>>, <<200, 50, 30, 10, 10, 8, 3, 3>>,
   <<200, 100, 30, 30, 16, 16, 10, 8, 5, 5, 1>>}

MCCounts == {[s \in 0 .. Len(r) - 1 |-> r[s + 1]] : r \in MCRows}

(* Forty symbols whose weights are worth packing.                          *)
MCMany == [s \in 0 .. 40 |-> IF s % 13 = 5 THEN 0 ELSE IF s % 10 = 0 THEN 4 ELSE 2]

MCCodeJobs ==
  {j \in {[kind |-> "code", count |-> c, maxNbBits |-> b, maxTableLog |-> 7, src |-> Sample(c, l, k)] :
           c \in MCCounts, b \in {3, 4, 5, 7}, l \in {1, 3, 12, 13, 31, 100}, k \in {1, 2}} :
     Cardinality(DOMAIN j.count) <= 2^j.maxNbBits}
  \cup
  {[kind |-> "code", count |-> MCMany, maxNbBits |-> 6, maxTableLog |-> 7,
    src |-> Sample(MCMany, l, 1)] : l \in {13, 131}}

(* Text of repeated words, which differs with the seed.                    *)
MCWords == <<<<65, 66, 67, 68, 69>>, <<70, 66, 72, 73, 74, 75, 76>>, <<65, 66, 67, 68, 69, 77, 78, 79>>, <<80, 81>>,
             <<72, 73, 74, 75, 76, 70, 66, 72, 73>>, <<83>>, <<65, 65, 65, 65, 65, 65, 65>>>>

MCWriting(n, seed) ==
  SubSeq(FoldLeft(LAMBDA t, i : [out |-> t.out \o MCWords[1 + ((t.s \div 8) % 7)], s |-> (t.s * 37 + 11) % 4096],
                  [out |-> <<>>, s |-> 97 * seed + 5], UpTo(4 + n \div 3)).out, 1, n)

(* Calls of the LZ4 compressors, with a context and buffers in use; level  *)
(* 0 is the fast one.                                                      *)
Lz == INSTANCE LZ4HC

MCStreamed(j) ==
  LET blocks == IF j.level = 0 THEN Lz!StreamOutcomes(j) ELSE Lz!OutcomesHC(j) IN blocks

MCCall(op, at, bytes, max) == [op |-> op, at |-> at, bytes |-> bytes, max |-> max, acceleration |-> 1]

MCStreamJob ==
  [kind |-> "stream", level |-> 0, favor |-> FALSE, dict |-> <<>>, behind |-> <<>>, dictAt |-> 100, attach |-> FALSE,
   output |-> "flat", calls |-> <<>>]

(* k blocks of n bytes in a ring of `size' bytes, or in two buffers in     *)
(* turn.                                                                   *)
MCBlocks(n, size, k, seed, max) ==
  [i \in 1 .. k |-> MCCall("continue", 300 + n * ((i - 1) % (size \div n)), MCWriting(n, seed + i), max)]

MCTwoBuffers(n, k, seed) == [i \in 1 .. k |-> MCCall("continue", 300 + (n + 1) * (i % 2), MCWriting(n, seed + i), 200)]

(* Data that repeats after `period' bytes, around the size of the window.  *)
MCPeriodic(n, period, from) == [i \in 1 .. n |-> LET k == (from + i) % period IN (37 * k * k + 11 * k) % 251]

MCFarBlocks(n, k, period) ==
  [i \in 1 .. k |-> MCCall("continue", 300 + n * (i - 1), MCPeriodic(n, period, n * (i - 1)), 200)]

MCHistories ==
  {[MCStreamJob EXCEPT !.output = o, !.calls = MCBlocks(n, size, 6, s, 200)] :
     o \in {"flat", "ring"}, n \in {7, 14, 20}, size \in {20, 42, 80, 1000}, s \in 1 .. 4}
  \cup {[MCStreamJob EXCEPT !.calls = <<MCCall("continue", 300, MCWriting(14, s), 200),
             MCCall("continue", 314, MCWriting(14, s + 1), 200), MCCall("continue", 300, MCWriting(n, s + 2), 200)>>] :
          n \in {13, 14, 27, 28, 40}, s \in 1 .. 3}
  \cup {[MCStreamJob EXCEPT !.output = o, !.calls = MCFarBlocks(n, 220 \div n, period)] :
          o \in {"flat", "ring"}, n \in {13, 20, 31, 50, 110}, period \in 62 .. 65}
  \cup {[MCStreamJob EXCEPT !.output = "double", !.calls = MCTwoBuffers(n, 6, s)] : n \in {7, 20, 40, 70}, s \in 1 .. 3}

(* With a dictionary, loaded or attached; in the second set the data goes  *)
(* on behind it, so that a match may run over its end.                     *)
MCPreset ==
  {[MCStreamJob EXCEPT !.output = o, !.dict = MCWriting(d, 9), !.attach = a, !.calls = MCBlocks(n, size, 6, s, 200)] :
     o \in {"flat", "ring"}, n \in {7, 20, 40}, size \in {80, 100}, s \in 1 .. 3, a \in BOOLEAN, d \in {5, 12, 90}}
  \cup {[MCStreamJob EXCEPT !.dict = SubSeq(MCWriting(80, s), 1, d), !.behind = SubSeq(MCWriting(80, s), d + 1, d + 20),
                            !.attach = a, !.calls = <<MCCall("continue", 300, SubSeq(MCWriting(80, s), from, 80), 200)>>] :
          d \in {30, 40}, from \in {8, 14, 21}, s \in 1 .. 4, a \in BOOLEAN}

(* Destinations of every size, and inputs around 64 KB.                    *)
MCTight ==
  {[MCStreamJob EXCEPT !.calls = MCBlocks(40, 80, 6, s, m)] : m \in 8 .. 45, s \in 1 .. 2}
  \cup {[MCStreamJob EXCEPT !.calls = [i \in 1 .. 4 |-> MCCall("fill", 300, MCWriting(50, s + i), m)]] :
          m \in 1 .. 50, s \in 1 .. 2}
  \cup {[MCStreamJob EXCEPT !.calls = <<MCCall("fill", 300, MCPeriodic(n, 17, 0), m)>>] : m \in 27 .. 33, n \in {850, 1100}}
  \cup {[MCStreamJob EXCEPT !.calls = [i \in 1 .. 5 |-> MCCall("single", 300, MCWriting(n, s + i), m)]] :
          m \in {20, 90, 200}, n \in {16, 28, 29, 31, 50, 73, 74, 75, 76}, s \in 1 .. 2}

(* One context for several streams, an empty block in the middle, and a    *)
(* history that is saved before its buffer is used again.                  *)
MCReset(n, s, v, single) ==
  <<MCCall("continue", 300, MCWriting(30, s), 90)>>
  \o (IF single THEN <<MCCall("single", 300, MCWriting(n, s + 1), 90)>> ELSE <<>>)
  \o <<MCCall("reset", 0, <<>>, 0), MCCall("continue", 300, MCWriting(n, s + 1), 90),
       MCCall("save", 500, <<>>, v), MCCall("continue", 300, MCWriting(n, s + 2), 90)>>

MCSaved ==
  {[MCStreamJob EXCEPT !.dict = d, !.attach = TRUE, !.calls = MCReset(n, s, v, a)] :
     n \in {16, 40}, s \in 1 .. 2, v \in {3, 20, 100}, d \in {<<>>, MCWriting(70, 3)}, a \in BOOLEAN}
  \cup {[MCStreamJob EXCEPT !.output = o,
          !.calls = LET blocks == MCBlocks(n, 80, 6, s, 200)
                    IN  SubSeq(blocks, 1, 3) \o <<MCCall("continue", at, <<>>, 10)>> \o SubSeq(blocks, 4, 6)] :
          n \in {20, 40}, s \in 1 .. 2, o \in {"flat", "ring"}, at \in {300, 800}}
  \cup {[MCStreamJob EXCEPT !.calls = FlattenSeq([i \in 1 .. 4 |->
            <<MCCall("continue", 300, MCWriting(n, s + i), 200), MCCall("save", 500, <<>>, v)>>])] :
          n \in {20, 40}, v \in {3, 10, 20, 100}, s \in 1 .. 3}

(* The same in the high compression mode: at levels with few and with all  *)
(* attempts, with the optimal parser and with its full update, with runs   *)
(* of one byte, and with a dictionary of them.                             *)
MCByteRuns(n, s) ==
  [i \in 1 .. n |-> LET k == (i + s) % 50 IN IF k < 30 THEN 65 ELSE IF k % 7 = 0 THEN 66 + s ELSE 65 + k]

MCLevels == {3, 9, 10, 12}

MCRunBlocks(n, k) == [i \in 1 .. k |-> MCCall("continue", 300 + n * (i - 1), MCByteRuns(n, i), 200)]

MCAtLevels ==
  {[MCStreamJob EXCEPT !.output = o, !.calls = MCBlocks(n, size, 6, 1, 200)] :
     o \in {"flat", "ring"}, n \in {7, 20, 40}, size \in {40, 80, 1000}}
  \cup {[MCStreamJob EXCEPT !.output = o, !.calls = c] :
          o \in {"flat", "ring"},
          c \in UNION {{MCFarBlocks(n, 220 \div n, 63), MCFarBlocks(n, 220 \div n, 64), MCRunBlocks(n, 220 \div n)} :
                       n \in {13, 31, 110}}}
  \cup {[MCStreamJob EXCEPT !.dict = d, !.attach = a, !.calls = MCBlocks(n, 80, 5, 2, 200)] :
          n \in {7, 20, 40}, a \in BOOLEAN, d \in {MCWriting(5, 9), MCWriting(90, 9), MCByteRuns(90, 3)}}
  \cup {[MCStreamJob EXCEPT !.calls = MCBlocks(40, 80, 3, 1, m)] : m \in 8 .. 45}
  \cup {[MCStreamJob EXCEPT !.calls = [i \in 1 .. 3 |-> MCCall(op, 300 + 50 * i, MCWriting(50, i), m)]] :
          op \in {"fill", "split"}, m \in 1 .. 50}
  \cup {[MCStreamJob EXCEPT !.calls = [i \in 1 .. 5 |-> MCCall("single", 300, MCWriting(n, i), m)]] :
          m \in {20, 200}, n \in {16, 50, 76}}
  \cup {[MCStreamJob EXCEPT !.dict = d, !.attach = TRUE, !.calls = MCReset(n, 1, v, a)] :
          n \in {16, 40}, v \in {3, 20, 100}, d \in {<<>>, MCWriting(70, 3)}, a \in BOOLEAN}
  \cup {[MCStreamJob EXCEPT !.dict = MCWriting(70, 3), !.attach = TRUE,
            !.calls = <<MCCall("continue", 300, MCWriting(n, s), 90), MCCall("save", 500, <<>>, v),
                        MCCall("continue", 500 + v, MCWriting(n, s + 1), 90)>>] :
          n \in {16, 40}, v \in {10, 16, 20, 40}, s \in 1 .. 2}
  \cup {[MCStreamJob EXCEPT !.calls = <<MCCall("part", 300, MCWriting(50, s), 20),
                                       MCCall("continue", at, MCWriting(50, s + 1), 200)>>] :
          s \in 1 .. 2, at \in {350, 500}}

(* Addresses are large, so that base is never NULL by chance.              *)
MCHighJobs ==
  {[j EXCEPT !.level = l, !.favor = (l = 10), !.dictAt = @ + 10000,
             !.calls = [i \in DOMAIN @ |-> [@[i] EXCEPT !.at = @ + 10000]]] : j \in MCAtLevels, l \in MCLevels}

MCStreamJobs == MCHistories \cup MCPreset \cup MCTight \cup MCSaved \cup MCHighJobs

MCParameters ==
  [strategy |-> 1, windowLog |-> 7, hashLog |-> 5, chainLog |-> 4, minMatch |-> 4, targetLength |-> 0,
   literals |-> "auto", split |-> FALSE, contentSizeFlag |-> TRUE, noDictID |-> FALSE, magicless |-> FALSE,
   attach |-> "default", forceWindow |-> FALSE, deterministicRefPrefix |-> FALSE]

MCFrameJob ==
  [kind |-> "frames", ps |-> <<MCParameters>>, dict |-> <<>>, dictAt |-> 110, digest |-> FALSE, digested |-> FALSE,
   pledge |-> "exact", aarch64 |-> FALSE, double |-> FALSE, largeWindow |-> FALSE, skippable |-> FALSE, cut |-> 0,
   flip |-> 0, frames |-> <<>>]

(* k chunks of n bytes in a ring of m buffers.                             *)
MCRing(n, seed, k, m) == [i \in 1 .. k |-> [at |-> 200 + 100 * ((i - 1) % m), bytes |-> MCWriting(n, seed + i)]]

(* A context in use: windows slide, indices overflow, buffers are reused,  *)
(* tables change their size.                                               *)
MCReuse ==
  {[MCFrameJob EXCEPT !.ps = <<[MCParameters EXCEPT !.strategy = st, !.windowLog = w, !.hashLog = h],
                               [MCParameters EXCEPT !.strategy = st2, !.hashLog = 4]>>,
                      !.frames = <<MCRing(60, s, 2, m), MCRing(40, s + 1, 3, m), MCRing(60, s + 2, 5, m)>>,
                      !.aarch64 = (s = 2), !.largeWindow = (s = 1), !.pledge = IF m = 1 THEN "exact" ELSE "none"] :
     st \in {1, 2}, st2 \in {1, 2}, w \in {5, 6, 7}, h \in {5, 6}, s \in {1, 2}, m \in {1, 2, 3}}

(* Runs of n units of l new bytes and a pattern that was there before: the *)
(* sequences of a run are alike, and a block of two runs is split.         *)
MCPatterns == <<<<65, 66, 67, 68>>, <<69, 70, 71, 72, 73, 74>>, <<75, 76, 77, 78, 79>>>>

MCUnits(runs) ==
  FoldLeft(LAMBDA out, r :
             FoldLeft(LAMBDA o, i : o \o [k \in 1 .. r[1] |-> 100 + ((7 * Len(o) + k) % 150)] \o MCPatterns[r[2]],
                      out, UpTo(r[3])), <<>>, runs)

MCRuns == {<<9, 1, 3>>, <<7, 2, 3>>, <<8, 3, 2>>, <<2, 1, 8>>, <<0, 2, 6>>, <<14, 1, 2>>}

MCSplit ==
  {[MCFrameJob EXCEPT !.ps = <<[MCParameters EXCEPT !.strategy = st, !.windowLog = 8, !.split = TRUE, !.hashLog = 8]>>,
                      !.frames = <<<<[at |-> 200, bytes |-> MCUnits(<<first, second, third>>)]>>>>] :
     st \in {1, 2}, first \in {<<9, 1, 3>>, <<8, 3, 2>>}, second \in MCRuns, third \in MCRuns}

(* A dictionary with tables: a Huffman code of all bytes, as               *)
(* HUF_writeCTable() describes it, and distributions of every code or, of  *)
(* the offsets, of the smaller ones only.                                  *)
MCCode ==
  <<39, 16, 200, 141, 3, 255, 255, 255, 255, 255, 255, 255, 127, 67, 81, 20, 69, 81, 20, 69, 81, 20, 69, 81, 20, 238, 78,
    12, 215, 117, 93, 215, 117, 93, 215, 117, 93, 215, 181, 45>>

MCWide == FromZero(Times(2, 12) \o Times(1, 6) \o <<2>>)

MCNarrow == FromZero(<<2, 2, 4, 8, 8, 8>>)

MCLE(v) == [i \in 1 .. 4 |-> (v \div 256^(i - 1)) % 256]

MCDictionary(offsets, content) ==
  <<55, 164, 48, 236>> \o MCLE(300) \o MCCode \o BytesOf(FSE_writeNCount(offsets, 5))
  \o BytesOf(FSE_writeNCount(FromZero(<<6, 5, 3>> \o Times(1, 50)), 6))
  \o BytesOf(FSE_writeNCount(FromZero(<<16, 10, 5>> \o Times(1, 33)), 6)) \o MCLE(3) \o MCLE(9) \o MCLE(17) \o content

MCFull == MCDictionary(MCWide, MCWriting(60, 9))

MCPartial == MCDictionary(MCNarrow, MCWriting(60, 9))

MCRaw(n) == MCWriting(n, 9)

(* Input in rings of m buffers.  What becomes of an attached dictionary     *)
(* when there is only one for more than one chunk is left out.             *)
MCPresets == {<<FALSE, "default">>, <<TRUE, "attach">>, <<TRUE, "copy">>, <<TRUE, "load">>}

BehindGap(how, k, m) == how[2] = "attach" /\ k > 1 /\ m = 1

MCDictionaries ==
  {[MCFrameJob EXCEPT !.ps = <<[MCParameters EXCEPT !.strategy = st, !.attach = ring[1][2]]>>,
                      !.dict = dict, !.dictAt = 700, !.digest = ring[1][1], !.digested = (s = 1), !.double = (st = 2),
                      !.frames = <<MCRing(60, s, ring[2], ring[3]), MCRing(50, s, ring[2], 2)>>] :
     st \in {1, 2}, s \in {1, 2}, dict \in {MCFull, MCPartial, MCRaw(5), MCRaw(12), MCRaw(90)},
     ring \in {r \in MCPresets \X {1, 4} \X {1, 2, 3} : ~BehindGap(r[1], r[2], r[3])}}

(* Sizes that are not the pledged ones, and frames that are damaged.       *)
MCPledges ==
  {[MCFrameJob EXCEPT !.pledge = p, !.skippable = TRUE, !.frames = <<MCRing(n, 3, k, 2)>>] :
     p \in {"none", "exact", "short", "long"}, n \in {1, 30}, k \in {1, 2}}
  \cup {[MCFrameJob EXCEPT !.pledge = p, !.frames = <<MCRing(0, 3, 1, 2), MCRing(0, 3, 2, 2), MCRing(1, 3, 1, 1)>>] :
           p \in {"none", "exact"}}

MCDamaged ==
  {[MCFrameJob EXCEPT !.frames = <<MCRing(90, s, 1, 1)>>, !.flip = f] : s \in {3, 4}, f \in 1 .. 100}
  \cup {[MCFrameJob EXCEPT !.frames = <<MCRing(90, 3, 1, 1)>>, !.cut = n] : n \in 1 .. 30}

MCFrameJobs == MCReuse \cup MCSplit \cup MCDictionaries \cup MCPledges \cup MCDamaged

(* Pieces around the size of a stripe of either hash.                      *)
MCHashJobs ==
  LET sizes == {0, 1, 3, 15, 16, 17, 31, 32, 33}
  IN  [kind : {"hash"}, alg : {32, 64}, lengths : UNION {[1 .. n -> sizes] : n \in 1 .. 3}]

(* A stub as the linker leaves it, with two sections.                      *)
MCStub(align, size, gap) ==
  LET falign == 2
      first  == [name |-> ".text", virtual_address |-> 8, virtual_size |-> size,
                 pointer_to_raw_data |-> 4, size_of_raw_data |-> 4]
      second == [name |-> ".data", virtual_address |-> 8 + gap, virtual_size |-> 3,
                 pointer_to_raw_data |-> 8, size_of_raw_data |-> 4]
  IN  [size |-> 12, pe |-> [magic |-> "PE32+", offset_ok |-> TRUE, machine |-> "arm64", file_alignment |-> 0,
         section_alignment |-> align, size_of_image |-> 0, sections |-> <<first, second>>,
         relocs_stripped |-> FALSE, reversed |-> FALSE, stripped |-> FALSE]]

MCKernel(align, size) ==
  [magic |-> "PE32+", offset_ok |-> TRUE, machine |-> "arm64", file_alignment |-> 2, section_alignment |-> align,
   size_of_image |-> size, sections |-> <<>>, relocs_stripped |-> FALSE, reversed |-> FALSE, stripped |-> FALSE]

MCKernels ==
  {[size |-> 5, pe |-> Image!NoPe]}
  \cup {[size |-> s, pe |-> MCKernel(a, 9)] : s \in {3, 6, 9}, a \in {4, 8}}
  \cup {[size |-> 6, pe |-> [MCKernel(4, 9) EXCEPT !.machine = "x64"]]}

MCPlain == {[size |-> s, pe |-> Image!NoPe] : s \in {1, 4, 7}}

MCFiles ==
  {(".linux" :> k) @@ f : k \in MCKernels,
     f \in UNION {[names -> MCPlain] : names \in SUBSET {".cmdline", ".initrd", ".dtb"}}}
  \cup {".initrd" :> p : p \in MCPlain}

MCImageJobs ==
  {[kind |-> "image", stub |-> MCStub(a, s, 8), files |-> f, fails |-> x] :
     a \in {0, 4}, s \in {1, 5}, f \in MCFiles, x \in {{}, {"outfile"}, {".initrd"}}}
  \cup {[kind |-> "image", stub |-> [MCStub(4, 5, 8) EXCEPT !.pe.relocs_stripped = TRUE],
         files |-> (".linux" :> [size |-> 5, pe |-> Image!NoPe]), fails |-> {}],
        [kind |-> "image", stub |-> [MCStub(4, 5, 8) EXCEPT !.pe.sections[2].size_of_raw_data = 0],
         files |-> (".linux" :> [size |-> 5, pe |-> Image!NoPe]), fails |-> {}]}

MCParts ==
  [garbage : {FALSE}, char : {65, 127, 128, 2047, 2048, 65535}, bytes : {<<>>}]
  \cup [garbage : {TRUE}, char : {0}, bytes : {<<255>>, <<194>>, <<226, 130>>, <<240, 159, 152>>}]

MCTexts == UNION {[1 .. n -> MCParts] : n \in 1 .. 4}

MCNames == UNION {[1 .. n -> {65, 66}] : n \in 0 .. 3}

MCTextJobs ==
  [kind : {"text"}, what : {"number"}, v : (-130 .. 130) \cup {-32768, -32767, 32767, 12345, -9999}]
  \cup [kind : {"text"}, what : {"time"},
        t : [year : {0, 9, 10, 99, 100, 999, 1000, 9999}, month : {1, 9, 10}, day : {1, 31}, hour : {0, 9, 10},
             minute : {0, 9, 59}, second : {0, 10}]]
  \cup [kind : {"text"}, what : {"text"}, parts : MCTexts]
  \cup [kind : {"text"}, what : {"names"}, a : MCNames, b : MCNames, n : 0 .. 4]
=============================================================================

----------------------------- MODULE Algorithms -----------------------------
(***************************************************************************)
(* The pure algorithms of the loader and of the tools that build its       *)
(* images, each run on one input of a set and compared with a reference:   *)
(* LZ4 blocks, FSE and Huffman coding, Zstandard frames, the checksums,    *)
(* the image tools and the conversions of text.                            *)
(***************************************************************************)
EXTENDS Huf

CONSTANTS
  BlockJobs,    \* LZ4 blocks with the room and the history to decode them
  StreamJobs,   \* lists of calls of the LZ4 compressor
  Streamed(_),  \* what becomes of every block of such a list
  CountJobs,    \* distributions and sources for FSE
  CodeJobs,     \* counts and sources for Huffman coding
  FrameJobs,    \* inputs, parameters and dictionaries for Zstandard
  Compressed(_),       \* what becomes of such a job: the bits, and whether it is refused
  Decompressed(_, _),  \* what becomes of those bits
  HashJobs,     \* inputs in pieces
  ImageJobs,    \* stubs and files for build_image
  TextJobs,     \* numbers, dates, names and texts
  PE_HEADER_SIZE, DefaultAlignment, DefaultFile, INT_RANGE, LEN_RANGE

ASSUME RangesAssumption == LEN_RANGE \in Nat \ {0} /\ INT_RANGE \in Nat \ {0}

ASSUME AlignmentAssumption == DefaultAlignment \in Nat \ {0} /\ DefaultFile \in Nat \ {0}

VARIABLES
  job,       \* the input
  result     \* <<>>, then <<what the code makes of it>>

vars == <<job, result>>

Block == INSTANCE LZ4Block
Hash == INSTANCE XXHash
Image == INSTANCE ImageTools
Strings == INSTANCE Text

-----------------------------------------------------------------------------
(* LZ4 blocks.  The history is what a frame decoded before: in front of    *)
(* the output (prefix) or somewhere else (dictionary).                     *)

History(j) == IF j.history = "none" THEN <<>> ELSE [i \in 1 .. 24 |-> 500 + i]

Stored(j) ==
  LET whole == Block!Encode(j.block)
  IN  SubSeq(whole, 1, Len(whole) - (IF j.cut < Len(whole) THEN j.cut ELSE 0))

WholeBlock(j) == Stored(j) = Block!Encode(j.block)

DecodeBlock ==
  /\ result = <<>> /\ job.kind = "block"
  /\ \E r \in {Block!LZ4_decompress_generic(Stored(job), Block!Size(job.block) + job.slack,
                 IF job.history = "prefix" THEN History(job) ELSE <<>>,
                 IF job.history = "dictionary" THEN History(job) ELSE <<>>, job.partial)} :
         result' = <<[wild |-> r.wild, inside |-> r.op <= r.oend, full |-> r.op = r.oend,
                      ended |-> r.st = "end", out |-> [i \in 1 .. r.op |-> r.mem[i - 1]]]>>
  /\ UNCHANGED job

(* LZ4 streams: blocks are compressed and decoded one after the other.     *)
CodeStreams ==
  /\ result = <<>> /\ job.kind = "stream"
  /\ result' = <<Streamed(job)>>
  /\ UNCHANGED job

(* FSE: a source is coded with the tables of a distribution, whose         *)
(* description is written and read back.                                   *)
CodeSymbols ==
  /\ result = <<>> /\ job.kind = "count"
  /\ \E header \in {FSE_writeNCount(job.norm, FSE_MIN_TABLELOG)},
        stream \in {FSE_compress(job.src, FSE_buildCTable(job.norm, FSE_MIN_TABLELOG), 200)} :
       result' = <<[read |-> FSE_readNCount(header \o stream, job.maxSV1), size |-> Len(header) \div 8,
                    decoded |-> FSE_decompress_wksp(header \o stream, Len(job.src), 6, job.maxSV1)]>>
  /\ UNCHANGED job

(* Huffman: a code is made, written, read and used with both decoders.     *)
CodeLiterals ==
  /\ result = <<>> /\ job.kind = "code"
  /\ \E ct \in {HUF_buildCTable(job.count, job.maxNbBits)} :
     \E header \in {HUF_writeCTable(ct)}, one \in {HUF_compress1X(job.src, ct, 400)},
        four \in {HUF_compress4X(job.src, ct, 400)} :
     \E stats \in {HUF_readStats(header)} :
     \E tables \in {{HUF_DTableX1(stats, job.maxTableLog), HUF_DTableX2(stats, job.maxTableLog)}} :
       result' = <<[code |-> ct, stats |-> stats, size |-> Len(header) \div 8,
                    packed |-> ByteAt(header, 0) < 128,
                    decoded |-> {HUF_decompress1X(one, dt, Len(job.src)) : dt \in tables}
                                \cup (IF four = <<>> THEN {}
                                      ELSE {HUF_decompress4X(four, dt, Len(job.src)) : dt \in tables})]>>
  /\ UNCHANGED job

(* Zstandard: frames are compressed, maybe damaged, and decompressed.      *)
(* What is left of the frames, with one bit the wrong way round.           *)
Damaged(bits, j) ==
  LET n == Len(bits) - 8 * j.cut
  IN  [i \in 1 .. n |-> IF j.flip > 0 /\ i = n - j.flip THEN 1 - bits[i] ELSE bits[i]]

CodeFrames ==
  /\ result = <<>> /\ job.kind = "frames"
  /\ \E r \in {Compressed(job)} :
     \E s \in {Decompressed(Damaged(r.bits, job), job)} :
       result' = <<[refused |-> r.error, source |-> r.source, wild |-> s.wild, far |-> s.far, error |-> s.error,
                    out |-> [i \in 1 .. s.op |-> s.mem[i - 1]]]>>
  /\ UNCHANGED job

HashInput ==
  /\ result = <<>> /\ job.kind = "hash"
  /\ result' = <<[streamed |-> Hash!Digest(Hash!Input(job.lengths), job.alg),
                  whole |-> Hash!xxh(FlattenSeq(Hash!Input(job.lengths)), job.alg)]>>
  /\ UNCHANGED job

(* An image is linked, completed by pe_fixup and filled by build_image.    *)
BuildImage ==
  /\ result = <<>> /\ job.kind = "image"
  /\ LET fixed == Image!pe_fixup(job.stub)
     IN  result' = <<[fixed |-> fixed,
                      built |-> IF fixed.status # 0 THEN fixed
                                ELSE Image!build_image([size |-> fixed.size, pe |-> fixed.pe],
                                                       job.files, job.fails)]>>
  /\ UNCHANGED job

ConvertText ==
  /\ result = <<>> /\ job.kind = "text"
  /\ result' = <<[right |-> CASE job.what = "number" -> Strings!NumberReadsBack(job.v)
                              [] job.what = "time"   -> Strings!TimeHasPlaces(job.t)
                              [] job.what = "text"   -> Strings!TextConverted(job.parts)
                              [] job.what = "names"  -> Strings!NamesCompared(job.a, job.b, job.n)]>>
  /\ UNCHANGED job

Init ==
  /\ result = <<>>
  /\ \/ job \in HashJobs
     \/ job \in ImageJobs
     \/ job \in TextJobs
     \/ job \in BlockJobs
     \/ job \in CountJobs
     \/ job \in CodeJobs
     \/ job \in StreamJobs
     \/ job \in FrameJobs

Next ==
  \/ DecodeBlock \/ CodeStreams \/ CodeSymbols \/ CodeLiterals \/ CodeFrames \/ HashInput \/ BuildImage \/ ConvertText

Spec == Init /\ [][Next]_vars

Did(kind) == result # <<>> /\ job.kind = kind

-----------------------------------------------------------------------------
(* Calls after which the compressor counts on a history that is not there: *)
(* the input covers the end of the block before it, which the test for an  *)
(* overlap does not see (lz4.c:1570);                                      *)
HistoryGone(j) ==
  /\ j.level = 0
  /\ \E i \in 2 .. Len(j.calls) :
       LET last  == j.calls[i - 1].at + Len(j.calls[i - 1].bytes)
           first == j.calls[i].at
       IN  /\ j.calls[i - 1].op = "continue" /\ j.calls[i].op = "continue"
           /\ first < last /\ last <= first + Len(j.calls[i].bytes)

(* a part of the prefix is saved and the next input follows it, with an    *)
(* attached dictionary, which LZ4_saveDictHC() keeps;                      *)
HistoryMoved(j) ==
  /\ j.level > 0 /\ j.attach
  /\ \E i \in 2 .. Len(j.calls) - 1 :
       /\ j.calls[i].op = "save" /\ j.calls[i].max < Len(j.calls[i - 1].bytes)
       /\ j.calls[i + 1].at = j.calls[i].at + j.calls[i].max

(* other input comes next than what LZ4_compress_HC_continue_destSize()    *)
(* left.                                                                   *)
HistoryAhead(j) == \E i \in DOMAIN j.calls : j.calls[i].op = "part"

(* LZ4_decompress_generic() writes inside its output and reads inside its  *)
(* input whatever the block; a sound block of at most the given size is    *)
(* decoded to its content, by the fast loop, the shortcut and the safe     *)
(* loop alike; what a decoder stops early with is a part of the content;   *)
(* a block that refers to data before its history is refused.              *)
(* A block that the compressor makes stays inside its destination, and is  *)
(* refused only where LZ4_compressBound() did not fit.  It is decoded to   *)
(* its input with the history, the table and the dictionary that the calls *)
(* before left, and although the next input overwrites a part of the       *)
(* history; but not, in this code, after HistoryGone, HistoryMoved or      *)
(* HistoryAhead, where only the bounds are claimed.                        *)
BlocksDecoded ==
  /\ Did("block") =>
       LET r       == result[1]
           sound   == Block!Sound(History(job), job.block)
           content == Block!Decoded(History(job), job.block)
       IN  /\ ~r.wild /\ r.inside
           /\ WholeBlock(job) /\ sound /\ Block!EndRules(job.block) =>
                IF job.slack >= 0 THEN r.ended /\ r.out = content
                ELSE job.partial => r.ended /\ r.full
           /\ r.ended /\ sound => r.out = SubSeq(content, 1, Len(r.out))
           /\ r.ended /\ ~job.partial => sound \/ ~WholeBlock(job)
  /\ Did("stream") =>
       \A i \in DOMAIN result[1] :
         LET b == result[1][i]
         IN  /\ ~b.wild /\ b.fits
             /\ b.enough => ~b.refused
             /\ HistoryGone(job) \/ HistoryMoved(job) \/ HistoryAhead(job) \/ (~b.error /\ b.out = b.source)

(* What the encoders write, the decoders read back.  FSE: the description  *)
(* of the distribution, with its exact size and without a count stored     *)
(* behind the table, and then every symbol.  Huffman: HUF_setMaxHeight()   *)
(* keeps every code inside the limit, and the code complete and monotone   *)
(* (a more frequent symbol has no longer code); the decoders rebuild it    *)
(* from its weights, and the single and the double symbol decoder, of one  *)
(* and of four streams, return the source.  Zstandard: every input of the  *)
(* pledged size comes back, with the context, window and tables that the   *)
(* frames before left, from offsets inside the window that the header      *)
(* announces, and an input of another size is refused; whatever is done to *)
(* the frames, the decoder stays inside its buffers and writes no more     *)
(* than fits.  Not among the inputs: a dictionary that is attached while a *)
(* chunk overwrites the whole segment before it (BehindGap of              *)
(* MCAlgorithms), where the assertion of zstd_compress.c:2731 fails.       *)
EntropyDecoded ==
  /\ Did("count") =>
       LET r == result[1]
       IN  /\ ~r.read.error /\ ~r.read.wild /\ r.read.norm = job.norm /\ r.read.size = r.size
           /\ r.decoded = [error |-> FALSE, out |-> job.src]
  /\ Did("code") =>
       LET r == result[1]
           bits(s) == r.code[s].nbBits
       IN  /\ ~r.stats.error /\ r.stats.size = r.size
           /\ \A s \in DOMAIN job.count :
                /\ bits(s) <= job.maxNbBits
                /\ (job.count[s] = 0) = (bits(s) = 0)
                /\ bits(s) = IF r.stats.weight[s] = 0 THEN 0 ELSE r.stats.tableLog + 1 - r.stats.weight[s]
                /\ \A t \in DOMAIN job.count :
                     job.count[s] > job.count[t] /\ job.count[t] > 0 => bits(s) <= bits(t)
           /\ r.decoded = {[error |-> FALSE, out |-> job.src]}
  /\ Did("frames") =>
       LET r == result[1]
       IN  /\ ~r.wild
           /\ r.refused = (job.pledge \in {"short", "long"})
           /\ ~r.refused /\ job.cut = 0 /\ job.flip = 0 => ~r.error /\ ~r.far /\ r.out = r.source

(* The checksum of an input does not depend on how it is cut, also when    *)
(* total_len_32 wraps around.                                              *)
HashStreams == Did("hash") => result[1].streamed = result[1].whole

(* What build_image puts into a stub, PE_locate_sections() finds.          *)
ImageHoldsFiles ==
  Did("image") /\ result[1].built.status = 0 =>
    Image!HoldsItsFiles([size |-> result[1].fixed.size, pe |-> result[1].fixed.pe], job.files, result[1].built)

(* Numbers, dates, names and texts are converted to what they say.         *)
TextRight == Did("text") => result[1].right
=============================================================================

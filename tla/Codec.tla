------------------------------- MODULE Codec -------------------------------
(***************************************************************************)
(* The two decoders of the library, each with the program that calls it.   *)
(* A context belongs to one format for as long as it lives.                *)
(***************************************************************************)
EXTENDS CodecStream

CONSTANTS
  KB64, U64, BlockSizeMax, WindowMin, WindowMax,
  Overlength, NoProgressMax, TooLargeFactor, TooLargeDuration

L == INSTANCE LZ4Frame

Z == INSTANCE ZstdStream

IsLZ4 == frame.fmt = "lz4"

(* The sizes of the fields and buffers, as far as the bounds rest on them: *)
(* a skippable header needs no more than the longest header of a frame and *)
(* no less than the shortest one, and a checksum fits into either buffer.  *)
ASSUME SizesAssumption ==
  /\ Feeds \subseteq Nat /\ Rooms \subseteq Nat
  /\ {SizeField, KB64, CheckSize, BlockSizeMax, WindowMin, Overlength} \subseteq Nat
  /\ {MagicSize, minFHSize, BHSize, BFSize, HeaderPrefix, BlockHeader, U64} \subseteq Nat \ {0}
  /\ MagicSize <= minFHSize /\ minFHSize <= SkipHeader /\ SkipHeader <= maxFHSize
  /\ BHSize <= BFSize /\ BFSize <= maxFHSize /\ maxFHSize + BHSize <= U64

IsLZ4Frame(f) ==
  /\ {f.skippable, f.linked, f.bcheck, f.ccheck} \subseteq BOOLEAN
  /\ f.declared \in 0 .. U64 - 1 /\ f.size \in 0 .. U64
  /\ f.maxBlockSize \in Nat \ {0} /\ f.maxBlockSize + 2 * BFSize + BHSize <= U64
  /\ f.blocks \in Seq([raw : BOOLEAN, size : Nat, units : Nat, bad : BOOLEAN])

IsZstdFrame(f) ==
  /\ {f.skippable, f.single, f.ccheck} \subseteq BOOLEAN
  /\ f.size \in Nat /\ f.window \in Nat /\ f.declared \in Nat \cup {-1}
  /\ f.single => f.declared >= 0
  /\ f.blocks \in Seq([type : {"raw", "rle", "compressed", "reserved"}, size : Nat,
                       units : Nat, bad : BOOLEAN])

ASSUME FramesAssumption ==
  /\ Later \subseteq Frames
  /\ \A f \in Frames : IF f.fmt = "lz4" THEN IsLZ4Frame(f) ELSE IsZstdFrame(f)

(* LZ4F_getBlockSize(): 64 KB, 256 KB, 1 MB and 4 MB are further apart     *)
(* than the 128 KB of history that a linked frame adds to its buffer.      *)
(* dstage_init looks at the size of tmpOutBuffer only and trusts that      *)
(* tmpIn is then large enough, too; this is why it is.                     *)
ASSUME BlockSizesAssumption ==
  \A f, g \in Frames :
     f.fmt = "lz4" /\ g.fmt = "lz4" /\ f.maxBlockSize < g.maxBlockSize
       => f.maxBlockSize + 2 * KB64 < g.maxBlockSize

Init == L!Init \/ Z!Init

Next == (IsLZ4 /\ L!Next) \/ (~IsLZ4 /\ Z!Next)

(* A call runs until it returns.  A caller who wants the content offers    *)
(* all of the rest, with room for it, again and again, whatever it does in *)
(* between.                                                                *)
Fairness ==
  /\ WF_vars(IsLZ4 /\ L!Stages) /\ SF_vars(IsLZ4 /\ L!Serve)
  /\ WF_vars(~IsLZ4 /\ Z!Stages) /\ SF_vars(~IsLZ4 /\ Z!Serve)

Spec == Init /\ [][Next]_vars /\ Fairness

-----------------------------------------------------------------------------
(* Properties.                                                             *)

(* The types, and the bounds of every buffer of both decoders: nothing is  *)
(* ever stored behind the end of one (lz4frame.c 1299-1890,                *)
(* zstd_decompress.c 1817-2060).                                           *)
BuffersBounded == IF IsLZ4 THEN L!TypeOK ELSE Z!TypeOK

IsSound(f) == IF f.fmt = "lz4" THEN L!IsSound(f) ELSE Z!IsSound(f)

IsChecked(f) == IF f.fmt = "lz4" THEN L!IsChecked(f) ELSE Z!IsChecked(f)

(* LZ4F_decompress() and ZSTD_decompressStream() are stream decoders as    *)
(* StreamContract describes them, however the caller cuts the input and    *)
(* the output into pieces, and whatever the context was used for before.   *)
Contract == INSTANCE StreamContract WITH
              Sound <- IsSound, Intact <- IsIntact, Checked <- IsChecked,
              Length <- StreamLength, Total <- Size, excused <- fault # "none"

IsStreamDecoder == Contract!Spec

(* A call that is given input and room makes progress, so that a caller    *)
(* that goes on as decompress.c does (81-93 and 143-150) never spins.      *)
NeverSpins ==
  [][call.busy /\ ~call'.busy /\ res' > 0 /\ call.end > fed /\ call.room > 0
       => fed' > fed \/ Len(out') > Len(out)]_vars

(* Every stage leads to another one or back to the caller, so that one who *)
(* goes on offering the rest, and never spins, learns how the frame ends.  *)
KeepsGoing == NeverSpins /\ (res > 0 ~> res <= 0)
=============================================================================

----------------------------- MODULE ZstdTables -----------------------------
(***************************************************************************)
(* lib/zstd/common/zstd_internal.h: the codes of sequences.  A literal     *)
(* length, an offset and a match length are each a code and some bits; the *)
(* codes have distributions that every frame may use.                      *)
(***************************************************************************)
EXTENDS Huf

CONSTANTS HufLog,          \* 12: the longest code a decoding table has room for
          MinWindowLog     \* ZSTD_WINDOWLOG_ABSOLUTEMIN, 10

ASSUME HufLogAssumption == HufLog \in 2 .. HUF_TABLELOG_MAX

ASSUME MinWindowLogAssumption == MinWindowLog \in 1 .. 10

LONGNBSEQ == 32512
MaxLL == 35
MaxOff == 31
MaxML == 52
DefaultMaxOff == 28
ZSTD_BLOCKSIZE_MAX == 2^17
MIN_CBLOCK_SIZE == 3
Kinds == {"LL", "OF", "ML"}

set_basic == 0
set_rle == 1
set_compressed == 2
set_repeat == 3

MaxCode == [k \in Kinds |-> CASE k = "LL" -> MaxLL [] k = "OF" -> MaxOff [] k = "ML" -> MaxML]

FSELog == [k \in Kinds |-> IF k = "OF" THEN 8 ELSE 9]

Times(v, n) == [i \in 1 .. n |-> v]

LL_bits == FromZero(Times(0, 16) \o <<1, 1, 1, 1, 2, 2, 3, 3, 4, 6, 7, 8, 9, 10, 11, 12, 13, 14, 15, 16>>)

ML_bits == FromZero(Times(0, 32) \o <<1, 1, 1, 1, 2, 2, 3, 3, 4, 4, 5, 7, 8, 9, 10, 11, 12, 13, 14, 15, 16>>)

OF_bits == [c \in 0 .. MaxOff |-> c]

AdditionalBits == [k \in Kinds |-> CASE k = "LL" -> LL_bits [] k = "OF" -> OF_bits [] k = "ML" -> ML_bits]

LL_defaultNorm ==
  FromZero(<<4, 3>> \o Times(2, 11) \o <<1, 1, 1>> \o Times(2, 9) \o <<3, 2, 1, 1, 1, 1, 1>> \o Times(-1, 4))

ML_defaultNorm == FromZero(<<1, 4, 3>> \o Times(2, 6) \o Times(1, 37) \o Times(-1, 7))

OF_defaultNorm == FromZero(Times(1, 6) \o <<2, 2, 2>> \o Times(1, 15) \o Times(-1, 5))

DefaultNorm == [k \in Kinds |-> CASE k = "LL" -> LL_defaultNorm [] k = "OF" -> OF_defaultNorm [] k = "ML" -> ML_defaultNorm]

DefaultNormLog == [k \in Kinds |-> IF k = "OF" THEN 5 ELSE 6]

repStartValue == <<1, 4, 8>>

bt_raw == 0
bt_rle == 1
bt_compressed == 2

-----------------------------------------------------------------------------
(* Frames and dictionaries are sequences of bits, 8 to the byte.           *)

ZSTD_MAGICNUMBER == Bytes(<<40, 181, 47, 253>>)
ZSTD_MAGIC_DICTIONARY == Bytes(<<55, 164, 48, 236>>)
ZSTD_MAGIC_SKIPPABLE_START == Bytes(<<80, 42, 77, 24>>)
ZSTD_SKIPPABLEHEADERSIZE == 8

Unknown == -1    \* ZSTD_CONTENTSIZE_UNKNOWN

SizeOf(bits) == Len(bits) \div 8

(* A field of 32 bits, for numbers below 2^31.                             *)
Bits32(v) == Bits(v, 31) \o <<0>>

Slice(src, at, n) == Value(SubSeq(src, at + 1, at + n))

From(bits, byte) == SubSeq(bits, 8 * byte + 1, Len(bits))

IsDictionary(dict) == SizeOf(dict) >= 8 /\ SubSeq(dict, 1, 32) = ZSTD_MAGIC_DICTIONARY

(* The last offsets in a dictionary, which lie in the content behind them. *)
LastOffsets(src) == [i \in 1 .. 3 |-> Slice(src, 32 * (i - 1), 32)]

DictOffsets(src, size) ==
  IF SizeOf(src) < 12 THEN Error
  ELSE IF \E i \in 1 .. 3 : LastOffsets(src)[i] \notin 1 .. SizeOf(src) - 12 THEN Error
  ELSE [error |-> FALSE, rep |-> LastOffsets(src), size |-> size + 12]
=============================================================================

------------------------------- MODULE XXHash -------------------------------
(***************************************************************************)
(* lib/xxhash.c, the checksums of LZ4 frames (xxh32) and of zstd frames    *)
(* (xxh64): of a whole input, and of an input that comes in pieces.        *)
(*                                                                         *)
(* A hash is symbolic, the record of what was mixed in and in which order: *)
(* a lane is the sequence of the words it was given, and every mixing      *)
(* function is taken to be injective.  `alg' is 32 or 64.                  *)
(***************************************************************************)
EXTENDS Integers, Sequences, SequencesExt

(* LEN_RANGE stands for 2^32, the range of xxh32_state.total_len_32.       *)
CONSTANT LEN_RANGE

Word(alg) == alg \div 8
Stripe(alg) == 4 * Word(alg)

(* The words of the next stripe go to the four lanes.                      *)
Rounds(v, bytes, alg) ==
  [k \in 1 .. 4 |-> Append(v[k], SubSeq(bytes, (k - 1) * Word(alg) + 1, k * Word(alg)))]

RECURSIVE Stripes(_, _, _)
Stripes(v, bytes, alg) ==
  IF Len(bytes) < Stripe(alg) THEN [v |-> v, rest |-> bytes]
  ELSE Stripes(Rounds(v, bytes, alg), SubSeq(bytes, Stripe(alg) + 1, Len(bytes)), alg)

NoRounds == [k \in 1 .. 4 |-> <<>>]

(* What is left is mixed in by words, by a half word (xxh64) and by bytes. *)
RECURSIVE Pieces(_, _)
Pieces(bytes, size) ==
  IF Len(bytes) < size THEN <<>>
  ELSE <<SubSeq(bytes, 1, size)>> \o Pieces(SubSeq(bytes, size + 1, Len(bytes)), size)

Rest(bytes, size) == SubSeq(bytes, (Len(bytes) \div size) * size + 1, Len(bytes))

Finalized(bytes, alg) ==
  LET rest == Rest(bytes, Word(alg))
  IN  Pieces(bytes, Word(alg)) \o Pieces(rest, 4) \o Pieces(Rest(rest, 4), 1)

(* xxh32() and xxh64(): of the whole input.                                *)
Length(n, alg) == IF alg = 32 THEN n % LEN_RANGE ELSE n

xxh(input, alg) ==
  LET s == Stripes(NoRounds, input, alg)
  IN  [from |-> IF Len(input) >= Stripe(alg) THEN <<"lanes", s.v>> ELSE <<"seed">>,
       length |-> Length(Len(input), alg), rest |-> Finalized(s.rest, alg)]

(* xxh32_reset() and xxh64_reset()                                         *)
xxh_reset == [v |-> NoRounds, mem |-> <<>>, total_len |-> 0, large_len |-> FALSE]

(* xxh32_update() and xxh64_update(): less than a stripe waits in mem.     *)
LargeByTotal(state, len, total, alg) == total >= Stripe(alg)

Large(state, len, total, alg) == state.large_len \/ len >= Stripe(alg) \/ total >= Stripe(alg)

xxh_update(state, input, alg) ==
  LET total  == Length(state.total_len + Len(input), alg)
      missing == Stripe(alg) - Len(state.mem)
      counted == [state EXCEPT !.total_len = total, !.large_len = Large(state, Len(input), total, alg)]
      first  == state.mem # <<>>
      v      == IF first THEN Rounds(state.v, state.mem \o SubSeq(input, 1, missing), alg) ELSE state.v
      s      == Stripes(v, IF first THEN SubSeq(input, missing + 1, Len(input)) ELSE input, alg)
  IN  IF Len(state.mem) + Len(input) < Stripe(alg) THEN [counted EXCEPT !.mem = @ \o input]
      ELSE [counted EXCEPT !.v = s.v, !.mem = s.rest]

(* xxh32_digest() and xxh64_digest(): xxh64 has no flag, it compares the   *)
(* length.                                                                 *)
xxh_digest(state, alg) ==
  LET large == IF alg = 32 THEN state.large_len ELSE state.total_len >= Stripe(alg)
  IN  [from |-> IF large THEN <<"lanes", state.v>> ELSE <<"seed">>,
       length |-> state.total_len, rest |-> Finalized(state.mem, alg)]

-----------------------------------------------------------------------------
(* The content checksum of a frame is the same however its blocks are cut. *)
Digest(chunks, alg) ==
  xxh_digest(FoldLeft(LAMBDA state, chunk : xxh_update(state, chunk, alg), xxh_reset, chunks), alg)

Input(lengths) ==
  LET before(i) == FoldLeft(LAMBDA n, l : n + l, 0, SubSeq(lengths, 1, i - 1))
  IN  [i \in DOMAIN lengths |-> [j \in 1 .. lengths[i] |-> before(i) + j]]
=============================================================================

------------------------------ MODULE LZ4Block ------------------------------
(***************************************************************************)
(* lib/lz4/lz4.c: decoding of one LZ4 block, LZ4_decompress_generic() as   *)
(* LZ4_decompress_safe_usingDict() and LZ4_decompress_safe_partial()       *)
(* instantiate it.                                                         *)
(*                                                                         *)
(* The code is fast because it copies more than it has to, in steps of 8,  *)
(* 16 and 32 bytes, and relies on distances to the ends of its buffers.    *)
(* The constants are the real ones and every copy is made with its real    *)
(* extent (Memory).  Bytes of literals are numbers above 255 so that each  *)
(* is told apart from the others; what reads one as a token takes its low  *)
(* 8 bits.                                                                 *)
(***************************************************************************)
EXTENDS Memory, SequencesExt

MINMATCH == 4
WILDCOPYLENGTH == 8
LASTLITERALS == 5
MFLIMIT == 12
MATCH_SAFEGUARD_DISTANCE == 2 * WILDCOPYLENGTH - MINMATCH
FASTLOOP_SAFE_DISTANCE == 64
ML_MASK == 15
RUN_MASK == 15

-----------------------------------------------------------------------------
(* The state of a decoding: the input, the output with `prefix' bytes in   *)
(* front of it, an external dictionary, the two positions, and how it      *)
(* stands (running, "end" or "error").                                     *)

Start(src, capacity, prefix, dict, partial) ==
  [src |-> src, mem |-> [a \in -Len(prefix) .. capacity - 1 |->
                           IF a < 0 THEN prefix[Len(prefix) + a + 1] ELSE -1],
   oend |-> capacity, low |-> -Len(prefix), dict |-> dict, partial |-> partial,
   ip |-> 0, op |-> 0, loop |-> "fast", st |-> "run", wild |-> FALSE]

iend(s) == Len(s.src)

Error(s) == [s EXCEPT !.st = "error"]

Byte(s, i) == IF i < iend(s) THEN s.src[i + 1] % 256 ELSE 0

(* memcpy(at, src + from, n) from the input.                               *)
CopyIn(s, at, from, n) == CopyFrom(s, at, s.src, from, n)

(* LZ4_wildCopy8() and LZ4_wildCopy32(), from the input and within the     *)
(* output.                                                                 *)
WildCopyIn(s, at, from, length, step) == CopyIn(s, at, from, Stripes(length, step))

LZ4_wildCopy32(s, at, from, end) ==
  WildCopy(s, at, from, at + Stripes(end - at, 32), 16)

inc32table == <<0, 1, 2, 1, 0, 4, 4, 4>>
dec64table == <<0, 0, 0, -1, -4, 1, 2, 3>>

(* The first 8 bytes of a match less than 8 bytes away, and where its      *)
(* source goes on.                                                         *)
Spread(s, at, offset) ==
  LET zeroed == [s EXCEPT !.mem = [a \in DOMAIN @ |-> IF a \in at .. at + 3 THEN 0 ELSE @[a]]]
  IN  Copy(CopyBytes(zeroed, at, at - offset, at + 4),
           at + 4, at - offset + inc32table[offset + 1], 4)

Spreaded(at, offset) == at - offset + inc32table[offset + 1] - dec64table[offset + 1]

FirstEight(s, at, offset) == IF offset < 8 THEN Spread(s, at, offset) ELSE Copy(s, at, at - offset, 8)

AfterEight(at, offset) == IF offset < 8 THEN Spreaded(at, offset) ELSE at - offset + 8

(* LZ4_memcpy_using_offset(): a pattern of 1, 2 or 4 bytes is written in   *)
(* stripes of 8, others are spread.                                        *)
LZ4_memcpy_using_offset(s, at, end, offset) ==
  IF offset \in {1, 2, 4}
  THEN LET n == Stripes(end - at, 8)
       IN  Wild([s EXCEPT !.mem = [a \in DOMAIN @ |->
                                     IF a \in at .. at + n - 1 THEN @[at - offset + ((a - at) % offset)]
                                     ELSE @[a]]], at + n > s.oend \/ at - offset < s.low)
  ELSE WildCopy(FirstEight(s, at, offset), at + 8, AfterEight(at, offset), end, 8)

-----------------------------------------------------------------------------

(* read_variable_length(): the sum, the position behind it and the error.  *)
RECURSIVE read_variable_length(_, _, _, _, _)
read_variable_length(s, ip, lencheck, initial, sum) ==
  IF initial /\ ip >= lencheck THEN [length |-> sum, ip |-> ip, error |-> "initial", wild |-> FALSE]
  ELSE LET b == Byte(s, ip)
       IN  IF ip + 1 >= lencheck
           THEN [length |-> sum + b, ip |-> ip + 1, error |-> "loop", wild |-> ip >= iend(s)]
           ELSE IF b = 255 THEN read_variable_length(s, ip + 1, lencheck, FALSE, sum + b)
           ELSE [length |-> sum + b, ip |-> ip + 1, error |-> "ok", wild |-> FALSE]

Offset(s, ip) == Byte(s, ip) + 256 * Byte(s, ip + 1)

TakeOffset(s) == Wild([s EXCEPT !.ip = @ + 2], s.ip + 2 > iend(s))

(* A match that begins in the external dictionary.                         *)
DictMatch(s, length0, offset) ==
  LET near   == s.op + length0 > s.oend - LASTLITERALS
      length == IF near THEN Min({length0, s.oend - s.op}) ELSE length0
      back   == s.low - (s.op - offset)
      first  == Min({length, back})
      t      == CopyDict(s, s.op, back, first)
      rest   == length - back
      u      == IF rest <= 0 THEN t
                ELSE IF rest > s.op + back - s.low
                THEN CopyBytes(t, s.op + back, s.low, s.op + length)
                ELSE Copy(t, s.op + back, s.low, rest)
  IN  IF near /\ ~s.partial THEN Error(s) ELSE [u EXCEPT !.op = s.op + length]

OutsideUnchecked(s, offset) == FALSE

(* "Error : offset outside buffers"                                        *)
Outside(s, offset) == s.op - offset + Len(s.dict) < s.low

InDict(s, offset) == s.dict # <<>> /\ s.op - offset < s.low

(* safe_match_copy                                                         *)
Safeguard(s, cpy) == cpy > s.oend - MATCH_SAFEGUARD_DISTANCE

PartialMatch(s, length, offset) ==
  LET mlen == Min({length, s.oend - s.op})
      t    == IF mlen > offset THEN CopyBytes(s, s.op, s.op - offset, s.op + mlen)
              ELSE Copy(s, s.op, s.op - offset, mlen)
  IN  [t EXCEPT !.op = s.op + mlen, !.st = IF s.op + mlen = s.oend THEN "end" ELSE @]

SafeMatch(s, length, offset) ==
  LET cpy   == s.op + length
      eight == FirstEight(s, s.op, offset)
      op    == s.op + 8
      match == AfterEight(s.op, offset)
      limit == s.oend - (WILDCOPYLENGTH - 1)
      near  == IF op < limit
               THEN CopyBytes(WildCopy(eight, op, match, limit, 8), limit, match + limit - op, cpy)
               ELSE CopyBytes(eight, op, match, cpy)
      far   == LET t == Copy(eight, op, match, 8)
               IN  IF length > 16 THEN WildCopy(t, op + 8, match + 8, cpy, 8) ELSE t
  IN  IF Outside(s, offset) THEN Error(s)
      ELSE IF InDict(s, offset) THEN DictMatch(s, length, offset)
      ELSE IF s.partial /\ Safeguard(s, cpy) THEN PartialMatch(s, length, offset)
      ELSE IF Safeguard(s, cpy)
      THEN IF cpy > s.oend - LASTLITERALS THEN Error(eight) ELSE [near EXCEPT !.op = cpy]
      ELSE [far EXCEPT !.op = cpy]

(* _copy_match                                                             *)
CopyMatch(s, ml, offset) ==
  LET r == read_variable_length(s, s.ip, iend(s) - LASTLITERALS + 1, FALSE, ML_MASK)
      t == Wild([s EXCEPT !.ip = r.ip], r.wild)
  IN  IF ml < ML_MASK THEN SafeMatch(s, ml + MINMATCH, offset)
      ELSE IF r.error # "ok" THEN Error(t)
      ELSE SafeMatch(t, r.length + MINMATCH, offset)

(* safe_literal_copy: close to the end of a buffer it must be the last run *)
(* of literals, or the decoding is a partial one.                          *)
SafeLiterals(s, ml, length0) ==
  LET close  == s.op + length0 > s.oend - MFLIMIT
                \/ s.ip + length0 > iend(s) - (2 + 1 + LASTLITERALS)
      length == IF close /\ s.partial
                THEN Min({length0, iend(s) - s.ip, s.oend - s.op}) ELSE length0
      t      == IF close THEN CopyIn(s, s.op, s.ip, length)
                ELSE WildCopyIn(s, s.op, s.ip, length, 8)
      u      == [t EXCEPT !.ip = s.ip + length, !.op = s.op + length]
      last   == ~s.partial \/ u.op = s.oend \/ u.ip >= iend(s) - 2
  IN  IF close /\ ~s.partial /\ (s.ip + length # iend(s) \/ s.op + length > s.oend) THEN Error(s)
      ELSE IF close /\ last THEN [u EXCEPT !.st = "end"]
      ELSE CopyMatch(TakeOffset(u), ml, Offset(u, u.ip))

-----------------------------------------------------------------------------

(* The length of the literals, read on when the token does not hold it.    *)
Literals(s, lit) ==
  IF lit < RUN_MASK THEN [length |-> lit, ip |-> s.ip, error |-> "ok", wild |-> FALSE]
  ELSE read_variable_length(s, s.ip, iend(s) - RUN_MASK, TRUE, RUN_MASK)

Token(s) == Byte(s, s.ip)

Behind(s) == Wild([s EXCEPT !.ip = @ + 1], s.ip >= iend(s))

(* One turn of the fast loop.                                              *)
FastMatch(s, ml, offset) ==
  LET r      == read_variable_length(s, s.ip, iend(s) - LASTLITERALS + 1, FALSE, ML_MASK)
      t      == IF ml < ML_MASK THEN s ELSE Wild([s EXCEPT !.ip = r.ip], r.wild)
      length == MINMATCH + (IF ml < ML_MASK THEN ml ELSE r.length)
      cpy    == t.op + length
  IN  IF ml = ML_MASK /\ (Outside(s, offset) \/ r.error # "ok") THEN Error(t)
      ELSE IF cpy >= t.oend - FASTLOOP_SAFE_DISTANCE
      THEN SafeMatch([t EXCEPT !.loop = "safe"], length, offset)
      ELSE IF ml < ML_MASK /\ t.op - offset >= t.low /\ offset >= 8
      THEN [Copy(Copy(Copy(t, t.op, t.op - offset, 8), t.op + 8, t.op - offset + 8, 8),
                 t.op + 16, t.op - offset + 16, 2) EXCEPT !.op = cpy]
      ELSE IF Outside(t, offset) THEN Error(t)
      ELSE IF InDict(t, offset) THEN DictMatch(t, length, offset)
      ELSE IF offset < 16 THEN [LZ4_memcpy_using_offset(t, t.op, cpy, offset) EXCEPT !.op = cpy]
      ELSE [LZ4_wildCopy32(t, t.op, t.op - offset, cpy) EXCEPT !.op = cpy]

FastTurn(s0) ==
  LET lit == Token(s0) \div 16
      ml  == Token(s0) % 16
      r   == Literals(Behind(s0), lit)
      s   == Wild([Behind(s0) EXCEPT !.ip = r.ip], r.wild)
      n   == r.length
      unsafe == IF lit = RUN_MASK THEN s.op + n > s.oend - 32 \/ s.ip + n > iend(s) - 32
                ELSE s.ip > iend(s) - (16 + 1)
      t   == IF lit = RUN_MASK THEN WildCopyIn(s, s.op, s.ip, n, 32) ELSE CopyIn(s, s.op, s.ip, 16)
      u   == [t EXCEPT !.ip = s.ip + n, !.op = s.op + n]
  IN  IF r.error = "initial" THEN Error(s)
      ELSE IF unsafe THEN SafeLiterals([s EXCEPT !.loop = "safe"], ml, n)
      ELSE FastMatch(TakeOffset(u), ml, Offset(u, u.ip))

(* One turn of the main loop, with the shortcut for short runs far from    *)
(* the ends.                                                               *)
SafeTurn(s0) ==
  LET lit == Token(s0) \div 16
      ml  == Token(s0) % 16
      s   == Behind(s0)
      r   == Literals(s, lit)
      short == lit # RUN_MASK /\ s.ip < iend(s) - 14 - 2 /\ s.op <= s.oend - 14 - 18
      u   == [CopyIn(s, s.op, s.ip, 16) EXCEPT !.ip = s.ip + lit, !.op = s.op + lit]
      offset == Offset(u, u.ip)
      v   == TakeOffset(u)
      m   == v.op - offset
  IN  IF short
      THEN IF ml # ML_MASK /\ offset >= 8 /\ m >= v.low
           THEN [Copy(Copy(Copy(v, v.op, m, 8), v.op + 8, m + 8, 8), v.op + 16, m + 16, 2)
                   EXCEPT !.op = v.op + ml + MINMATCH]
           ELSE CopyMatch(v, ml, offset)
      ELSE IF r.error = "initial" THEN Error(s)
      ELSE SafeLiterals(Wild([s EXCEPT !.ip = r.ip], r.wild), ml, r.length)

RECURSIVE Run(_)
Run(s) ==
  IF s.st # "run" THEN s
  ELSE Run(IF s.loop = "fast" THEN FastTurn(s) ELSE SafeTurn(s))

LZ4_decompress_generic(src, capacity, prefix, dict, partial) ==
  LET s == Start(src, capacity, prefix, dict, partial)
  IN  IF capacity = 0 THEN [s EXCEPT !.st = IF partial \/ src = <<0>> THEN "end" ELSE "error"]
      ELSE IF src = <<>> THEN Error(s)
      ELSE Run([s EXCEPT !.loop = IF capacity < FASTLOOP_SAFE_DISTANCE THEN "safe" ELSE "fast"])

-----------------------------------------------------------------------------
(* The format itself, as a reference: a block is a list of sequences, each *)
(* a run of literals and a match, and a last run of literals.  Encode      *)
(* writes a list down and Decoded says what it stands for, byte by byte.   *)

(* Literals are told apart by their numbers.                               *)
Numbered(from, n) == [i \in 1 .. n |-> 1000 + from + i]

RECURSIVE Extension(_)
Extension(n) == IF n < 255 THEN <<n>> ELSE <<255>> \o Extension(n - 255)

Extended(n) == IF n < 15 THEN <<>> ELSE Extension(n - 15)

Nibble(n) == IF n < 15 THEN n ELSE 15

LitsBefore(block, k) == FoldLeft(LAMBDA n, q : n + q.lit, 0, SubSeq(block.seqs, 1, k - 1))

EncodeSeq(block, k) ==
  LET q == block.seqs[k]
  IN  <<16 * Nibble(q.lit) + Nibble(q.len - 4)>> \o Extended(q.lit)
      \o Numbered(LitsBefore(block, k), q.lit)
      \o <<q.off % 256, q.off \div 256>> \o Extended(q.len - 4)

Encode(block) ==
  FlattenSeq([k \in 1 .. Len(block.seqs) |-> EncodeSeq(block, k)])
  \o <<16 * Nibble(block.last)>> \o Extended(block.last)
  \o Numbered(LitsBefore(block, Len(block.seqs) + 1), block.last)

RECURSIVE Matched(_, _, _)
Matched(out, off, n) == IF n = 0 THEN out ELSE Matched(Append(out, out[Len(out) - off + 1]), off, n - 1)

(* What comes out, given the history in front of it; <<>> for a match that *)
(* reaches behind the history.                                             *)
Sound(history, block) ==
  \A k \in DOMAIN block.seqs :
    LET before == FoldLeft(LAMBDA n, q : n + q.lit + q.len, Len(history), SubSeq(block.seqs, 1, k - 1))
    IN  block.seqs[k].off \in 1 .. before + block.seqs[k].lit

Decoded(history, block) ==
  LET step(out, k) == Matched(out \o Numbered(LitsBefore(block, k), block.seqs[k].lit),
                              block.seqs[k].off, block.seqs[k].len)
      n == Len(block.seqs)
      all == FoldLeft(step, history, [k \in 1 .. n |-> k])
             \o Numbered(LitsBefore(block, n + 1), block.last)
  IN  SubSeq(all, Len(history) + 1, Len(all))

Size(block) == FoldLeft(LAMBDA n, q : n + q.lit + q.len, block.last, block.seqs)

(* The rules for the end of a block: the last five bytes are literals and  *)
(* the last match begins at least twelve bytes before the end.             *)
EndRules(block) ==
  block.seqs = <<>> \/ (block.last >= 5 /\ Last(block.seqs).len + block.last >= 12)
=============================================================================

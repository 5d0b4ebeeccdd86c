------------------------------- MODULE Memory -------------------------------
(***************************************************************************)
(* Copies in the memory of a decoder of blocks.  The state `s' of a        *)
(* decoding has in mem the destination, from `low' (what is in front of    *)
(* the output) up to `oend', as a function from addresses to bytes, an     *)
(* external dictionary in dict, and in `wild' whether there was an access  *)
(* outside a buffer or a memcpy between ranges that overlap.               *)
(***************************************************************************)
EXTENDS Integers, Sequences, FiniteSetsExt, TLC

Wild(s, cond) == [s EXCEPT !.wild = @ \/ cond]

Written(mem, at, n) == (at .. at + n - 1) \cap DOMAIN mem

(* memcpy(at, from, n) within the output and what is in front of it.       *)
Copy(s, at, from, n) ==
  Wild([s EXCEPT !.mem = [a \in Written(@, at, n) |->
                            IF from + a - at \in DOMAIN @ THEN @[from + a - at] ELSE @[a]] @@ @],
       n > 0 /\ (from < s.low \/ from + n > s.oend \/ at + n > s.oend \/ (at > from /\ at < from + n)))

(* memcpy(at, bytes + from, n) from another buffer.                        *)
CopyFrom(s, at, bytes, from, n) ==
  Wild([s EXCEPT !.mem = [a \in Written(@, at, n) |->
                            IF from + a - at < Len(bytes) THEN bytes[from + a - at + 1] ELSE @[a]] @@ @],
       n > 0 /\ (from + n > Len(bytes) \/ at + n > s.oend))

(* memcpy(at, dictEnd - back, n) from the external dictionary.             *)
CopyDict(s, at, back, n) ==
  Wild([s EXCEPT !.mem = [a \in Written(@, at, n) |->
                            IF back - (a - at) \in 1 .. Len(s.dict)
                            THEN s.dict[Len(s.dict) - (back - (a - at)) + 1] ELSE @[a]] @@ @],
       n > 0 /\ (back > Len(s.dict) \/ n > back \/ at + n > s.oend))

(* Byte by byte: while (op < end) *op++ = *match++                         *)
RECURSIVE CopyBytes(_, _, _, _)
CopyBytes(s, at, from, end) ==
  IF at >= end THEN s ELSE CopyBytes(Copy(s, at, from, 1), at + 1, from + 1, end)

(* In steps, at least one, until `end' is reached or passed.  Behind an    *)
(* access outside a buffer nothing is told apart.                          *)
RECURSIVE WildCopy(_, _, _, _, _)
WildCopy(s, at, from, end, step) ==
  LET t == Copy(s, at, from, step)
  IN  IF t.wild \/ at + step >= end THEN t ELSE WildCopy(t, at + step, from + step, end, step)

Stripes(length, step) == step * Max({1, (length + step - 1) \div step})
=============================================================================

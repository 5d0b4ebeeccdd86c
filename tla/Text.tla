-------------------------------- MODULE Text --------------------------------
(***************************************************************************)
(* The conversions of lib/efilib: numbers to text (efiprint.c), UTF-8 to   *)
(* UTF-16 (mbtowc in string.h, mbstowcs in string.c), and the comparison   *)
(* of names (strncmp in string.c).                                         *)
(*                                                                         *)
(* Characters and bytes are their codes.  A string in memory is a sequence *)
(* that goes on behind its end: reading there is noted in the result.      *)
(***************************************************************************)
EXTENDS Integers, Sequences, SequencesExt

CONSTANT INT_RANGE   \* numbers of an int64_t, 2^64

Wrapped(v) == ((v + INT_RANGE \div 2) % INT_RANGE) - INT_RANGE \div 2

(* C division rounds towards 0.                                            *)
Quotient(v, d) == IF v < 0 THEN -((-v) \div d) ELSE v \div d

(* lldiv() until nothing is left: the digits, the last one first.  Of the  *)
(* smallest number the negation is the number itself, and its digits are   *)
(* negative.                                                               *)
RECURSIVE Digits(_, _)
Digits(v, base) ==
  IF v = 0 THEN <<>> ELSE <<v - base * Quotient(v, base)>> \o Digits(Quotient(v, base), base)

(* value_to_string()                                                       *)
value_to_string(v) ==
  IF v = 0 THEN <<48>>
  ELSE LET text(ds) == [i \in DOMAIN ds |-> 48 + ds[i]]
       IN  IF v < 0 THEN <<45>> \o text(Reverse(Digits(Wrapped(-v), 10)))
           ELSE text(Reverse(Digits(v, 10)))

hex == <<48, 49, 50, 51, 52, 53, 54, 55, 56, 57, 97, 98, 99, 100, 101, 102>>

(* value_to_hex_string()                                                   *)
value_to_hex_string(v) ==
  IF v = 0 THEN <<48>>
  ELSE LET ds == Reverse(Digits(v, 16)) IN [i \in DOMAIN ds |-> hex[ds[i] + 1]]

(* time_to_string(), the date and the time of day.                         *)
Padded(v, limits) ==
  FlattenSeq([i \in DOMAIN limits |-> IF v < limits[i] THEN <<48>> ELSE <<>>]) \o value_to_string(v)

time_to_string(t) ==
  Padded(t.year, <<1000, 100, 10>>) \o <<45>> \o Padded(t.month, <<10>>) \o <<45>>
  \o Padded(t.day, <<10>>) \o <<84>> \o Padded(t.hour, <<10>>) \o <<58>>
  \o Padded(t.minute, <<10>>) \o <<58>> \o Padded(t.second, <<10>>)

-----------------------------------------------------------------------------
(* UTF-8.  The length of a character is told by its first byte.            *)

LeadLength(b) ==
  IF b < 128 THEN 1 ELSE IF b < 192 THEN -1 ELSE IF b < 224 THEN 2 ELSE IF b < 240 THEN 3
  ELSE IF b < 248 THEN 4 ELSE IF b < 252 THEN 5 ELSE IF b < 254 THEN 6 ELSE -1

LeadBits(b, len) == IF len = 1 THEN b ELSE b % 2^(7 - len)

Continues(b) == b \in 128 .. 191

mbtowc_unbounded(s, at, n) ==
  LET len == IF n = 0 THEN -1 ELSE LeadLength(s[at])
      bad == {i \in 1 .. len - 1 : at + i > Len(s) \/ ~Continues(s[at + i])}
  IN  IF len = -1 \/ bad # {}
      THEN [len |-> -1, char |-> 0, beyond |-> len > n]
      ELSE [len |-> len, beyond |-> len > n,
            char |-> FoldLeft(LAMBDA u, i : (u * 64 + (s[at + i] % 64)) % 65536,
                              LeadBits(s[at], len), [i \in 1 .. len - 1 |-> i])]

(* mbtowc(): the character at `at', of which n bytes may be read, and its  *)
(* length, or -1.  A char16_t keeps the low 16 bits.                       *)
mbtowc(s, at, n) ==
  LET len == IF n = 0 THEN -1 ELSE LeadLength(s[at])
      bad == {i \in 1 .. len - 1 : ~Continues(s[at + i])}
  IN  IF len = -1 \/ len > n THEN [len |-> -1, char |-> 0, beyond |-> FALSE]
      ELSE IF bad # {} THEN [len |-> -1, char |-> 0, beyond |-> FALSE]
      ELSE [len |-> len, beyond |-> FALSE,
            char |-> FoldLeft(LAMBDA u, i : (u * 64 + (s[at + i] % 64)) % 65536,
                              LeadBits(s[at], len), [i \in 1 .. len - 1 |-> i])]

(* mbstowcs(): what cannot be converted is skipped, byte by byte.          *)
RECURSIVE mbstowcs_from(_, _)
mbstowcs_from(s, i) ==
  IF i > Len(s) THEN [text |-> <<>>, beyond |-> FALSE]
  ELSE LET c    == mbtowc(s, i, Len(s) - i + 1)
           rest == mbstowcs_from(s, i + (IF c.len <= 0 THEN 1 ELSE c.len))
       IN  [text   |-> (IF c.len <= 0 THEN <<>> ELSE <<c.char>>) \o rest.text,
            beyond |-> c.beyond \/ rest.beyond]

mbstowcs(s) == mbstowcs_from(s, 1)

(* strncmp() of two strings that end with a NUL or fill their field.       *)
CharAt(s, i) == IF i \in DOMAIN s THEN s[i] ELSE 0

RECURSIVE strncmp_from(_, _, _, _)
strncmp_from(a, b, length, i) ==
  IF CharAt(a, i) # 0 /\ CharAt(a, i) = CharAt(b, i) /\ length > 0
  THEN strncmp_from(a, b, length - 1, i + 1)
  ELSE IF length = 0 THEN 0 ELSE CharAt(a, i) - CharAt(b, i)

strncmp(a, b, length) == strncmp_from(a, b, length, 1)

-----------------------------------------------------------------------------
(* References.                                                             *)

RECURSIVE Number(_, _)
Number(ds, base) ==
  IF ds = <<>> THEN 0 ELSE base * Number(Front(ds), base) + Last(ds)

DigitOf(c) == IF c >= 97 THEN c - 87 ELSE c - 48

ReadHex(text) == Number([i \in DOMAIN text |-> DigitOf(text[i])], 16)

ReadDecimal(text) ==
  IF text[1] = 45 THEN -Number([i \in 1 .. Len(text) - 1 |-> DigitOf(text[i + 1])], 10)
  ELSE Number([i \in DOMAIN text |-> DigitOf(text[i])], 10)

(* UTF-8 of a character below 2^16.                                        *)
Utf8(c) ==
  IF c < 128 THEN <<c>>
  ELSE IF c < 2048 THEN <<192 + c \div 64, 128 + (c % 64)>>
  ELSE <<224 + c \div 4096, 128 + ((c \div 64) % 64), 128 + (c % 64)>>

(* A number is written so that it reads back, except the smallest one,     *)
(* whose negation value_to_string() does not have.                         *)
NumberReadsBack(v) ==
  /\ v # -(INT_RANGE \div 2) => ReadDecimal(value_to_string(v)) = v
  /\ v >= 0 => ReadHex(value_to_hex_string(v)) = v

(* Every part of a date stands at its place, whatever its value.           *)
TimeHasPlaces(t) ==
  LET text == time_to_string(t)
      at(from, to) == ReadDecimal(SubSeq(text, from, to))
  IN  /\ Len(text) = 19
      /\ at(1, 4) = t.year /\ at(6, 7) = t.month /\ at(9, 10) = t.day
      /\ at(12, 13) = t.hour /\ at(15, 16) = t.minute /\ at(18, 19) = t.second

(* What mbstowcs() makes of text with garbage in it (a part that is a      *)
(* sequence of bytes) is the text, and it reads nothing behind the text.   *)
TextConverted(parts) ==
  LET bytes == FlattenSeq([i \in DOMAIN parts |-> IF parts[i].garbage THEN parts[i].bytes
                                                  ELSE Utf8(parts[i].char)])
      kept  == SelectSeq(parts, LAMBDA p : ~p.garbage)
      r     == mbstowcs(bytes)
  IN  ~r.beyond /\ r.text = [i \in DOMAIN kept |-> kept[i].char]

(* strncmp() finds two names equal exactly when they are, up to the length *)
(* of the field.                                                           *)
NamesCompared(a, b, n) ==
  strncmp(a, b, n) = 0 <=> \A i \in 1 .. n : (\A j \in 1 .. i - 1 : CharAt(a, j) # 0) => CharAt(a, i) = CharAt(b, i)
=============================================================================

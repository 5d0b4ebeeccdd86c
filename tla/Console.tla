------------------------------ MODULE Console -------------------------------
(***************************************************************************)
(* lib/efilib/efiprint.c: printf() on the console (_iprint) and into a     *)
(* string (vswprintf), both through _print().                              *)
(*                                                                         *)
(* _print() collects characters in a small buffer and hands it to the      *)
(* console when it is full, when the colour changes and at the end.  The   *)
(* colour of a character is the one the console has when the buffer is     *)
(* handed over, not the one that was in force when it was put.  The format *)
(* is chosen one element at a time, the arguments are the texts that the   *)
(* conversions of module Text make of them.  Attributes are numbers,       *)
(* 16 * background + foreground, as in the code.                           *)
(*                                                                         *)
(* vswprintf() has no output function, and nothing in _print() looks at    *)
(* the end of its array: a text that does not fit is written behind it     *)
(* (Overrun).  What happens then is undefined, and the model ends there.   *)
(***************************************************************************)
EXTENDS Integers, Sequences, FiniteSets

CONSTANTS
  Capacities,   \* characters of a buffer: its array has room for one more
  Chars,        \* characters of a format, other than a newline
  MultiByte,    \* the ones of them that are two bytes of a char8_t text
  Lengths,      \* lengths of the texts of arguments
  Widths,       \* numbers in a format
  Attributes,   \* attributes that %A sets and that a console may have
  FixedWidth,   \* width of %X
  MaxElements,  \* bound: elements of the formats
  MaxPrints      \* bound: calls

ASSUME ConsoleAssumption ==
  /\ Capacities \subseteq Nat \ {0}
  /\ Lengths \subseteq Nat
  /\ Widths \subseteq Nat /\ FixedWidth \in Nat
  /\ Attributes \subseteq 0 .. 255
  /\ Chars \cap {"\n", "\r"} = {}
  /\ MultiByte \subseteq Chars

VARIABLES
  ppc,       \* "idle", "text", "item" (behind a %) or "put" (in ptr_item)
  ps,       \* struct print_state
  item,     \* struct _pitem
  queue,    \* characters of the item that are still to be put
  console,  \* [shown, attribute]: what was shown, with its attribute
  count     \* [elements, calls]

pvars == <<ppc, ps, item, queue, console, count>>

(* The texts that the arguments of a format stand for.                     *)
Texts == UNION {[1 .. n -> Chars] : n \in Lengths}

(* What the caller means, kept beside the code: the characters with their  *)
(* colours, the standing colour and the one of the current field, and      *)
(* whether the format leaves what is documented (a second colour in one    *)
(* field, the colour 0; bytes: a width for a text of multi-byte characters)*)
VARIABLE meant

NORMAL == 7
HIGHLIGHT == 14
ERROR == 12

Background(attr) == 16 * (attr \div 16)

Coloured(text, attr) == [i \in 1 .. Len(text) |-> [char |-> text[i], attr |-> attr]]

Repeat(c, n) == [i \in 1 .. n |-> c]

Larger(a, b) == IF a > b THEN a ELSE b

Smaller(a, b) == IF a < b THEN a ELSE b

-----------------------------------------------------------------------------
(* The parts of _print().  Each takes the console and the print state.     *)

(* ptr_flush(): without an output function the text stays in the buffer.   *)
ptr_flush(c, p) ==
  IF p.output
  THEN [console |-> [c EXCEPT !.shown = @ \o Coloured(p.buffer, c.attribute)],
        ps      |-> [p EXCEPT !.buffer = <<>>]]
  ELSE [console |-> c, ps |-> p]

ptr_setattr_unflushed(c, p, attr) ==
  [console |-> IF p.output THEN [c EXCEPT !.attribute = attr] ELSE c,
   ps      |-> [p EXCEPT !.restore_attr = p.attr, !.attr = attr]]

ptr_setattr(c, p, attr) ==
  LET f == ptr_flush(c, p)
  IN  [console |-> IF p.output THEN [f.console EXCEPT !.attribute = attr] ELSE f.console,
       ps      |-> [f.ps EXCEPT !.restore_attr = p.attr, !.attr = attr]]

(* One character into the buffer, which is flushed when it is full.        *)
PutOne(c, p, char) ==
  LET q == [p EXCEPT !.buffer = Append(@, char), !.len = @ + 1]
  IN  IF Len(q.buffer) >= q.capacity THEN ptr_flush(c, q) ELSE [console |-> c, ps |-> q]

(* ptr_putc(): a newline on the console gets a carriage return.            *)
ptr_putc(c, p, char) ==
  IF char = "\n" /\ p.output
  THEN LET r == PutOne(c, p, "\r") IN PutOne(r.console, r.ps, char)
  ELSE PutOne(c, p, char)

NoField == -1

NewItem == [width |-> 0, field_width |-> NoField, parse |-> "width", pad_char |-> " ", pad_before |-> TRUE]

(* The index of ptr_getc() behind a text: it counts bytes in a char8_t     *)
(* text, characters in a char16_t one.                                     *)
Index(text, wide) ==
  Len(text) + IF wide THEN 0 ELSE Cardinality({k \in 1 .. Len(text) : text[k] \in MultiByte})

(* The characters read: each one before which the index is still below the *)
(* field width, so that the last one may be longer than what was left.     *)
Cut(i, text, wide) ==
  IF i.field_width = NoField THEN text
  ELSE SubSeq(text, 1,
         Cardinality({n \in 0 .. Len(text) - 1 : Index(SubSeq(text, 1, n), wide) < i.field_width}))

(* ptr_item(): what it puts for a text.                                    *)
ptr_item(i, text, wide) ==
  LET cut   == Cut(i, text, wide)
      len   == Index(cut, wide)
      field == IF i.field_width = NoField THEN len ELSE i.field_width
      width == Larger(i.width, len)
      outer == Repeat(" ", field - width)
      body  == Repeat(i.pad_char, width - len) \o cut
  IN  IF i.pad_before THEN outer \o body ELSE body \o outer

-----------------------------------------------------------------------------
(* What is documented in print.h: `w' fills a value up with its padding,   *)
(* `l' is the field it is cut to and justified in.                         *)

Filled(text, w, pad) == Repeat(pad, w - Len(text)) \o text

Justified(text, l, left) ==
  IF left THEN text \o Repeat(" ", l - Len(text)) ELSE Repeat(" ", l - Len(text)) \o text

Documented(i, text) ==
  IF i.field_width = NoField THEN Filled(text, i.width, i.pad_char)
  ELSE Justified(Filled(SubSeq(text, 1, Smaller(Len(text), i.field_width)), i.width, i.pad_char),
                 i.field_width, ~i.pad_before)

(* A console that does not tell its attribute counts as light gray.        *)
Shade(attr) == IF attr = 0 THEN NORMAL ELSE attr

(* Widths are documented as numbers of characters.                         *)
InBytes(i, text, wide) ==
  Index(text, wide) # Len(text) /\ (i.width # 0 \/ i.field_width # NoField)

Means(text, attr) == meant' = [meant EXCEPT !.text = @ \o Coloured(text, attr)]

FieldColour == IF meant.field = 0 THEN meant.standing ELSE meant.field

-----------------------------------------------------------------------------

PrintInit ==
  /\ ppc = "idle" /\ item = NewItem /\ queue = <<>>
  /\ ps = [output |-> TRUE, capacity |-> 1, buffer |-> <<>>, len |-> 0,
           attr |-> NORMAL, restore_attr |-> 0, norm |-> NORMAL]
  /\ console \in [shown : {<<>>}, attribute : Attributes]
  /\ count = [elements |-> 0, calls |-> 0]
  /\ meant = [text |-> <<>>, standing |-> NORMAL, field |-> 0, undocumented |-> FALSE,
              bytes |-> FALSE]

(* _iprint() and vswprintf() set the state up.  A string has no attributes.*)
Call(output, capacity) ==
  LET attr == IF output THEN Shade(console.attribute) ELSE 0
  IN  /\ ppc = "idle" /\ count.calls < MaxPrints
      /\ ppc' = "text"
      /\ ps' = [output |-> output, capacity |-> capacity, buffer |-> <<>>, len |-> 0,
                attr |-> attr, restore_attr |-> 0, norm |-> attr]
      /\ count' = [count EXCEPT !.calls = @ + 1]
      /\ console' = [console EXCEPT !.shown = <<>>]
      /\ meant' = [text |-> <<>>, standing |-> attr, field |-> 0, undocumented |-> FALSE,
                   bytes |-> FALSE]
      /\ UNCHANGED <<item, queue>>

Element == count.elements < MaxElements /\ count' = [count EXCEPT !.elements = @ + 1]

(* A character that is not a %.                                            *)
Literal(char) ==
  LET r == ptr_putc(console, ps, char)
  IN  /\ ppc = "text" /\ Element
      /\ console' = r.console /\ ps' = r.ps
      /\ Means(IF char = "\n" /\ ps.output THEN <<"\r", char>> ELSE <<char>>, meant.standing)
      /\ UNCHANGED <<ppc, item, queue>>

(* A % sets up a new item.                                                 *)
Percent ==
  /\ ppc = "text" /\ Element
  /\ ppc' = "item" /\ item' = NewItem
  /\ ps' = [ps EXCEPT !.restore_attr = 0]
  /\ meant' = [meant EXCEPT !.field = 0]
  /\ UNCHANGED <<queue, console>>

(* 0, -, . and a number, in the format or (with a star) as an argument.    *)
Flag(i) ==
  /\ ppc = "item" /\ Element
  /\ item' = i
  /\ UNCHANGED <<ppc, ps, queue, console, meant>>

Modify ==
  \/ Flag([item EXCEPT !.pad_char = "0"])
  \/ Flag([item EXCEPT !.pad_before = FALSE])
  \/ Flag([item EXCEPT !.parse = "field_width"])
  \/ \E n \in Widths : Flag([item EXCEPT ![item.parse] = n])

(* n, b and e: the colour of this field.                                   *)
FieldAttr(attr) ==
  LET r == ptr_setattr(console, ps, attr)
  IN  /\ ppc = "item" /\ Element
      /\ console' = r.console /\ ps' = r.ps
      /\ meant' = [meant EXCEPT !.field = attr, !.undocumented = @ \/ meant.field # 0]
      /\ UNCHANGED <<ppc, item, queue>>

(* N, B, E, T and A: the colour from here on.  0 is no colour, and the     *)
(* item goes on.                                                           *)
StandingAttr(attr) ==
  LET r == ptr_setattr(console, ps, attr)
  IN  /\ ppc = "item" /\ Element
      /\ IF attr = 0 THEN UNCHANGED <<ppc, ps, console>>
         ELSE /\ ppc' = "text" /\ console' = r.console
              /\ ps' = [r.ps EXCEPT !.restore_attr = 0]
      /\ meant' = [meant EXCEPT !.standing = attr, !.undocumented = @ \/ attr = 0]
      /\ UNCHANGED <<item, queue>>

Colours == {ps.norm, HIGHLIGHT + Background(ps.norm), ERROR + Background(ps.norm)}

(* An argument; %X and %p have a width and a padding of their own.         *)
Item(i, text, wide) ==
  /\ ppc = "item" /\ Element
  /\ ppc' = "put" /\ queue' = ptr_item(i, text, wide)
  /\ meant' = [meant EXCEPT !.text = @ \o Coloured(Documented(i, text), FieldColour),
                            !.bytes = @ \/ InBytes(i, text, wide)]
  /\ UNCHANGED <<ps, item, console>>

Argument(text) ==
  \/ \E wide \in BOOLEAN : Item(item, text, wide)
  \/ Item([item EXCEPT !.width = FixedWidth, !.pad_char = "0"], text, TRUE)

(* A turn of the loops of ptr_item().                                      *)
Put ==
  LET r == ptr_putc(console, ps, Head(queue))
  IN  /\ ppc = "put" /\ queue # <<>>
      /\ queue' = Tail(queue)
      /\ console' = r.console /\ ps' = r.ps
      /\ UNCHANGED <<ppc, item, count, meant>>

(* The field is over.                                                      *)
Restored(c, p) ==
  IF p.restore_attr # 0 THEN ptr_setattr(c, p, p.restore_attr) ELSE [console |-> c, ps |-> p]

ItemEnd ==
  LET r == Restored(console, ps)
  IN  /\ ppc = "put" /\ queue = <<>>
      /\ ppc' = "text" /\ console' = r.console /\ ps' = r.ps
      /\ UNCHANGED <<item, queue, count, meant>>

(* The end of the format.                                                  *)
Return ==
  LET r == ptr_flush(console, ps)
  IN  /\ ppc = "text"
      /\ ppc' = "idle" /\ console' = r.console /\ ps' = r.ps
      /\ UNCHANGED <<item, queue, count, meant>>

(* A string has been written behind its array: a character (efiprint.c:350)*)
(* or the NUL of the return (:744).                                        *)
Overrun ==
  ~ps.output /\ Len(ps.buffer) > (IF ppc = "idle" THEN ps.capacity ELSE ps.capacity + 1)

PrintStep ==
  \/ \E output \in BOOLEAN, capacity \in Capacities : Call(output, capacity)
  \/ \E char \in Chars \cup {"\n"} : Literal(char)
  \/ Percent
  \/ Modify
  \/ \E attr \in Colours : FieldAttr(attr)
  \/ \E attr \in Attributes \cup Colours \cup {(a % 16) + Background(ps.attr) : a \in Attributes} :
       StandingAttr(attr)
  \/ \E text \in Texts : Argument(text)
  \/ Put
  \/ ItemEnd
  \/ Return

PrintNext == ~Overrun /\ PrintStep

PrintSpec == PrintInit /\ [][PrintNext]_<<pvars, meant>>

-----------------------------------------------------------------------------

Shaded(text) == [i \in DOMAIN text |-> [text[i] EXCEPT !.attr = Shade(@)]]

(* What a caller asked for is what comes out, whatever the size of the     *)
(* buffer.  On the console: every character once, in its order and in its  *)
(* colour; the buffer is handed over before the colour changes, a field    *)
(* gives its colour back, and there is always room for the character that  *)
(* comes and the NUL of a flush.  In a string: all of it, and the number   *)
(* returned is its length; _print() does not keep to the array, but it     *)
(* puts nothing the caller does not mean, so that the array is left only   *)
(* by a text that cannot be in it with its NUL, and always by such a one.  *)
(* Not in it: colours that are not documented, and widths for a char8_t    *)
(* text with multi-byte characters, which the code counts in bytes.        *)
OutputAsMeant ==
  IF ps.output
  THEN /\ meant.undocumented \/ meant.bytes
          \/ Shaded(console.shown \o Coloured(ps.buffer \o queue, console.attribute)) = Shaded(meant.text)
       /\ Len(ps.buffer) < ps.capacity
       /\ ppc = "idle" => ps.buffer = <<>>
  ELSE /\ ps.len = Len(ps.buffer)
       /\ meant.bytes
          \/ /\ ps.buffer \o queue = [i \in DOMAIN meant.text |-> meant.text[i].char]
             /\ Overrun => Len(meant.text) > ps.capacity
             /\ ppc = "idle" /\ Len(meant.text) > ps.capacity => Overrun
=============================================================================

------------------------------ MODULE MCCodec ------------------------------
(***************************************************************************)
(* Frames for Codec: of each format, frames that use every kind of block,  *)
(* that wrap the history, that are damaged, mislabelled or only skipped.   *)
(***************************************************************************)
EXTENDS Codec

Raw(n) == [raw |-> TRUE, size |-> n, units |-> n, bad |-> FALSE]

Packed(n, m) == [raw |-> FALSE, size |-> n, units |-> m, bad |-> FALSE]

Damaged(b) == [b EXCEPT !.bad = TRUE]

Linked == [fmt |-> "lz4", skippable |-> FALSE, size |-> 0, declared |-> 0, linked |-> TRUE,
           bcheck |-> FALSE, ccheck |-> FALSE, maxBlockSize |-> 2, header |-> "ok",
           blocks |-> <<>>]

Independent == [Linked EXCEPT !.linked = FALSE]

LZ4Later == {[Linked EXCEPT !.maxBlockSize = 8, !.blocks = <<Packed(1, 3), Packed(1, 1)>>]}

LZ4Frames == LZ4Later \cup {
  [Linked EXCEPT !.blocks = <<Packed(1, 2), Raw(1), Packed(2, 2), Raw(2), Packed(1, 1)>>],
  [Linked EXCEPT !.blocks = <<Raw(1), Packed(1, 1), Raw(1), Packed(1, 1), Raw(1), Packed(1, 2)>>],
  [Linked EXCEPT !.maxBlockSize = 8,
                 !.blocks = <<Packed(1, 5), Raw(3), Packed(2, 8), Packed(1, 1)>>],
  [Independent EXCEPT !.declared = 3, !.bcheck = TRUE, !.ccheck = TRUE,
                      !.blocks = <<Packed(1, 2), Raw(1)>>],
  [Independent EXCEPT !.bcheck = TRUE, !.blocks = <<Raw(2), Damaged(Packed(1, 2))>>],
  [Independent EXCEPT !.bcheck = TRUE, !.blocks = <<Damaged(Raw(2))>>],
  [Independent EXCEPT !.ccheck = TRUE, !.blocks = <<Raw(1), Damaged(Packed(1, 2))>>],
  [Independent EXCEPT !.blocks = <<Damaged(Packed(1, 2)), Raw(3)>>],
  [Independent EXCEPT !.declared = 2, !.blocks = <<Packed(1, 1)>>],
  [Independent EXCEPT !.header = "flags"],
  [Independent EXCEPT !.header = "checksum", !.declared = 1],
  [Independent EXCEPT !.skippable = TRUE, !.size = 2] }

ZRaw(n) == [type |-> "raw", size |-> n, units |-> n, bad |-> FALSE]

ZRle(n) == [ZRaw(n) EXCEPT !.type = "rle", !.size = 1]

ZPacked(n, m) == [ZRaw(m) EXCEPT !.type = "compressed", !.size = n]

Unsized == [fmt |-> "zstd", skippable |-> FALSE, size |-> 0, declared |-> -1,
            single |-> FALSE, window |-> 2, ccheck |-> FALSE, header |-> "ok", blocks |-> <<>>]

ZstdLater == {[Unsized EXCEPT !.window = 3, !.blocks = <<ZPacked(1, 2), ZPacked(2, 1), ZRaw(2)>>]}

ZstdFrames == ZstdLater \cup {
  [Unsized EXCEPT !.window = 3, !.blocks = <<ZPacked(1, 2), ZRaw(2), ZPacked(2, 2), ZRle(2),
                    ZPacked(1, 1), ZPacked(1, 2), ZRaw(1), ZPacked(1, 2)>>],
  [Unsized EXCEPT !.blocks = [b \in 1 .. 7 |-> ZPacked(1, 2)]],
  [Unsized EXCEPT !.declared = 4, !.single = TRUE, !.blocks = <<ZPacked(1, 2), ZRle(2)>>],
  [Unsized EXCEPT !.declared = 11, !.ccheck = TRUE,
                  !.blocks = <<ZPacked(1, 2), ZRle(2), ZPacked(1, 2), ZRaw(2), ZPacked(1, 1),
                               ZPacked(2, 2)>>],
  [Unsized EXCEPT !.ccheck = TRUE, !.blocks = <<Damaged(ZPacked(1, 2)), ZRaw(2)>>],
  [Unsized EXCEPT !.declared = 3, !.blocks = <<Damaged(ZPacked(1, 2)), ZRaw(2)>>],
  [Unsized EXCEPT !.declared = 3, !.blocks = <<ZPacked(1, 2), ZRaw(0)>>],
  [Unsized EXCEPT !.blocks = <<ZRaw(0), [ZRaw(1) EXCEPT !.type = "reserved"]>>],
  [Unsized EXCEPT !.blocks = <<ZRaw(1), ZPacked(1, 3)>>],
  [Unsized EXCEPT !.declared = 4, !.blocks = <<ZRaw(4)>>],
  [Unsized EXCEPT !.window = 5, !.blocks = <<ZRaw(1)>>],
  [Unsized EXCEPT !.header = "magic"],
  [Unsized EXCEPT !.header = "reserved", !.blocks = <<ZRaw(1)>>],
  [Unsized EXCEPT !.skippable = TRUE, !.size = 6],
  [Unsized EXCEPT !.skippable = TRUE, !.size = 0] }

MCFrames == LZ4Frames \cup ZstdFrames

MCLater == LZ4Later \cup ZstdLater
=============================================================================

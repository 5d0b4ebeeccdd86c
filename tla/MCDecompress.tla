---------------------------- MODULE MCDecompress ----------------------------
(* Small sections for Decompress: frames of up to MaxBlocks blocks, with   *)
(* and without checksums, cut short, followed by other data, damaged in a  *)
(* way that shows or does not, or with a wrong or no content size.         *)
EXTENDS Decompress

CONSTANT MaxBlocks   \* blocks of the longest frame

Frames ==
  {s \in [fmt : Compressed, size : 0 .. MaxBlocks + 5, declared : NoSize .. MaxBlocks + 1,
          blocks : 0 .. MaxBlocks, bad : 0 .. MaxBlocks, decodes : BOOLEAN, header : {TRUE},
          sums : SUBSET {"block", "content"}, behind : {"junk", "empty", "frame"}] :
     /\ s.bad <= s.blocks /\ (s.bad = 0 => s.decodes)
     /\ s.fmt = "zstd" => "block" \notin s.sums
     /\ s.size <= FrameEnd(s) + 2
     /\ s.size <= FrameEnd(s) => s.behind = "junk"}

NoFrame(fmts, sizes) ==
  [fmt : fmts, size : sizes, declared : {NoSize}, blocks : {0}, bad : {0}, decodes : {TRUE},
   header : {FALSE}, sums : {{}}, behind : {"junk"}]

MCSections ==
  Frames \cup NoFrame(Compressed, 0 .. 3) \cup NoFrame({"pe", "other"}, {0, 2})
=============================================================================

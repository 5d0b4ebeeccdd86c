--------------------------- MODULE StreamContract ---------------------------
(***************************************************************************)
(* What a streaming decoder promises to the program that calls it: the     *)
(* interface decompress.c uses of LZ4F_decompress() and                    *)
(* ZSTD_decompressStream().  The content of a frame is 1, 2, ..., Total.   *)
(***************************************************************************)
EXTENDS Integers, Sequences, SequencesExt

CONSTANTS
  Frames,
  Intact(_),     \* nothing in the frame was damaged
  Sound(_),      \* and it is as an encoder writes it
  Checked(_),    \* it carries checksums over all of its content
  Length(_),     \* bytes of its stream
  Total(_)       \* bytes of its content

VARIABLES
  frame, fed, out,   \* the frame, what was consumed, what was delivered
  res,               \* -1 an error, 0 complete, more when input is wanted
  excused            \* the decoder has a reason to fail that is not the frame

contract == <<frame, fed, out, res, excused>>

Begin == frame \in Frames /\ fed = 0 /\ out = <<>> /\ res > 0

(* Input is only consumed and output only added.                           *)
Advance ==
  /\ fed' \in fed .. Length(frame) /\ IsPrefix(out, out')
  /\ Intact(frame) => out' = [k \in 1 .. Len(out') |-> k] /\ Len(out') <= Total(frame)

(* The stream is not finished.  As long as output is missing some of the   *)
(* input is left, so that a caller who stops with its input loses nothing. *)
Decode ==
  /\ res > 0 /\ res' > 0
  /\ Advance /\ fed' < Length(frame)

(* The end is only announced when all of it was read and delivered, and    *)
(* never over damage that the checksums of the frame can tell.             *)
Finish ==
  /\ res > 0 /\ res' = 0
  /\ Advance /\ fed' = Length(frame)
  /\ Intact(frame) => Len(out') = Total(frame)
  /\ Checked(frame) => Intact(frame)

(* A sound frame is only refused for a reason outside of it.               *)
Refuse ==
  /\ res > 0 /\ res' = -1
  /\ Advance
  /\ Sound(frame) => excused'

Restart ==
  frame' \in Frames /\ fed' = 0 /\ out' = <<>> /\ res' > 0

Spec == Begin /\ [][(UNCHANGED frame /\ (Decode \/ Finish \/ Refuse)) \/ Restart]_contract
=============================================================================

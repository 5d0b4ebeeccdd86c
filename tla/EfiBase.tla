------------------------------ MODULE EfiBase ------------------------------
(***************************************************************************)
(* What every part of zloader is written on top of: EFI status codes, the  *)
(* assert() macro, malloc/free over the firmware's pool, and the           *)
(* simple_buffer structure of util.h.                                      *)
(*                                                                         *)
(* The pool is a function `heap' from the names of the blocks the program  *)
(* ever allocates to the state of that block.  Pointers are block names    *)
(* (or "NULL"), sizes are counted in abstract units.                       *)
(***************************************************************************)
EXTENDS Naturals

CONSTANT NDEBUG   \* TRUE in a Release build: assert() expands to (void)0

ASSUME NdebugAssumption == NDEBUG \in BOOLEAN

EfiError(status) == status # "EFI_SUCCESS"

(***************************************************************************)
(* assert(cond) in a build that keeps assertions prints and calls          *)
(* exit(EFI_UNSUPPORTED); AssertFails says that this happens.              *)
(***************************************************************************)
AssertFails(cond) == ~NDEBUG /\ ~cond

-----------------------------------------------------------------------------
(* The pool.  "corrupt" marks a block that was freed while not live.       *)

BlockState == {"none", "live", "freed", "corrupt"}

Malloc(heap, b) == [heap EXCEPT ![b] = "live"]

Free(heap, b) == [heap EXCEPT ![b] = IF @ = "live" THEN "freed" ELSE "corrupt"]

-----------------------------------------------------------------------------
(* struct simple_buffer.  `free' is the function pointer of the structure. *)

NullBuffer ==
  [buffer |-> "NULL", length |-> 0, pos |-> 0, allocated |-> 0, free |-> "NULL"]

(* The assertions of buffer_pos() and buffer_len().                        *)
BufferPosOk(b) == b.buffer # "NULL" /\ b.pos < b.allocated

BufferLenOk(b) == b.buffer # "NULL" /\ b.pos < b.length

BufferLen(b) == b.length - b.pos

(* What allocate_simple_buffer() leaves behind when malloc succeeds.       *)
AllocateSimpleBuffer(b, block, length) ==
  [b EXCEPT !.buffer = block, !.length = 0, !.pos = 0,
            !.allocated = length, !.free = "free_simple_buffer"]

KeepSimpleBuffer(heap, b) == heap

(* free_simple_buffer(): only buffers that were allocated are freed.       *)
FreeSimpleBuffer(heap, b) ==
  IF b.allocated > 0 THEN Free(heap, b.buffer) ELSE heap

(* free_buffer(), also run by _cleanup_buffer when a scope is left.        *)
FreeBuffer(heap, b) ==
  IF b.buffer # "NULL" /\ b.free # "NULL" THEN FreeSimpleBuffer(heap, b) ELSE heap
=============================================================================

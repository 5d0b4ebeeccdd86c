--------------------------- MODULE BootStubProofs ---------------------------
(***************************************************************************)
(* Proofs about BootStub, for every bootable image, firmware, kernel and   *)
(* build that the constants describe.                                      *)
(*                                                                         *)
(* The inductive invariant BootInv has one part for each part of the stub: *)
(* DecompressInv, taken over from DecompressProofs; LoaderPool, the blocks *)
(* the PE loader holds at each of its labels; TreeInv, where the device    *)
(* tree is; OptionsInv for the command line.  ControlInv ties them         *)
(* together: which parts have run by the time efi_main is at a label, and  *)
(* which status they left.  A part keeps its own invariant, touches its    *)
(* own blocks of the pool only (Untouched), and so disturbs no other       *)
(* (Undisturbed).                                                          *)
(*                                                                         *)
(* The refinement of BootContract needs no more than this invariant and    *)
(* what efi_main sees of a step of the loader (LoaderMoves).               *)
(***************************************************************************)
EXTENDS BootStub, WellFoundedInduction, TLAPS

DP == INSTANCE DecompressProofs

-----------------------------------------------------------------------------
(* The steps of decompress() are the ones DecompressProofs is about.       *)

LEMMA SameHelpers ==
  /\ D!Running = DP!Running /\ D!dvars = DP!dvars /\ D!NullBuffer = DP!NullBuffer
  /\ D!Supported = DP!Supported /\ D!CodecError = DP!CodecError /\ D!AssertExit = DP!AssertExit
  /\ \A x : /\ D!Goto(x) = DP!Goto(x) /\ D!Return(x) = DP!Return(x)
            /\ D!EfiError(x) = DP!EfiError(x) /\ D!AssertFails(x) = DP!AssertFails(x)
            /\ D!BufferPosOk(x) = DP!BufferPosOk(x) /\ D!FrameEnd(x) = DP!FrameEnd(x)
            /\ D!Min(x) = DP!Min(x) /\ D!MarkEnd(x) = DP!MarkEnd(x)
            /\ D!LastBlock(x) = DP!LastBlock(x) /\ D!DamageUncovered(x) = DP!DamageUncovered(x)
  /\ D!NoSize = DP!NoSize
  /\ \A x, y : D!CutReported(x, y) = DP!CutReported(x, y)
  /\ \A x, y : /\ D!Malloc(x, y) = DP!Malloc(x, y) /\ D!Free(x, y) = DP!Free(x, y)
               /\ D!FreeSimpleBuffer(x, y) = DP!FreeSimpleBuffer(x, y)
  /\ \A x, y, z : D!AllocateSimpleBuffer(x, y, z) = DP!AllocateSimpleBuffer(x, y, z)
<1>1. /\ D!Running = DP!Running /\ D!dvars = DP!dvars /\ D!NullBuffer = DP!NullBuffer
      /\ D!Supported = DP!Supported /\ D!CodecError = DP!CodecError /\ D!AssertExit = DP!AssertExit
  BY Zenon
  DEF D!Running, DP!Running, D!dvars, DP!dvars, D!NullBuffer, DP!NullBuffer, D!Supported,
      DP!Supported, D!CodecError, DP!CodecError, D!AssertExit, DP!AssertExit
<1>2. ASSUME NEW x
      PROVE  /\ D!Goto(x) = DP!Goto(x) /\ D!Return(x) = DP!Return(x)
             /\ D!EfiError(x) = DP!EfiError(x) /\ D!AssertFails(x) = DP!AssertFails(x)
             /\ D!BufferPosOk(x) = DP!BufferPosOk(x) /\ D!FrameEnd(x) = DP!FrameEnd(x)
             /\ D!Min(x) = DP!Min(x) /\ D!MarkEnd(x) = DP!MarkEnd(x)
             /\ D!LastBlock(x) = DP!LastBlock(x) /\ D!DamageUncovered(x) = DP!DamageUncovered(x)
  BY Zenon
  DEF D!Goto, DP!Goto, D!Return, DP!Return, D!EfiError, DP!EfiError, D!AssertFails,
      DP!AssertFails, D!BufferPosOk, DP!BufferPosOk, D!FrameEnd, DP!FrameEnd, D!Min, DP!Min,
      D!MarkEnd, DP!MarkEnd, D!LastBlock, DP!LastBlock, D!DamageUncovered, DP!DamageUncovered
<1>3. ASSUME NEW x, NEW y
      PROVE  /\ D!Malloc(x, y) = DP!Malloc(x, y) /\ D!Free(x, y) = DP!Free(x, y)
             /\ D!FreeSimpleBuffer(x, y) = DP!FreeSimpleBuffer(x, y)
  BY Zenon
  DEF D!Malloc, DP!Malloc, D!Free, DP!Free, D!FreeSimpleBuffer, DP!FreeSimpleBuffer
<1>4. ASSUME NEW x, NEW y, NEW z
      PROVE  D!AllocateSimpleBuffer(x, y, z) = DP!AllocateSimpleBuffer(x, y, z)
  BY Zenon DEF D!AllocateSimpleBuffer, DP!AllocateSimpleBuffer
<1>5. D!NoSize = DP!NoSize /\ \A x, y : D!CutReported(x, y) = DP!CutReported(x, y)
  BY Zenon DEF D!NoSize, DP!NoSize, D!CutReported, DP!CutReported, D!FrameEnd, DP!FrameEnd
<1> QED
  BY <1>1, <1>2, <1>3, <1>4, <1>5, Zenon

LEMMA SameLibrary ==
  ASSUME NEW s, NEW in, NEW out
  PROVE  /\ D!LZ4F_decompress(s, in, out) = DP!LZ4F_decompress(s, in, out)
         /\ D!ZSTD_decompressStream(s, in, out) = DP!ZSTD_decompressStream(s, in, out)
<1>1. /\ \A n : D!BlockRefused(s, n) = DP!BlockRefused(s, n)
      /\ \A n : D!ContentRefused(s, n) = DP!ContentRefused(s, n)
      /\ D!NextFrame(s, in, out) = DP!NextFrame(s, in, out)
  BY SameHelpers, Zenon
  DEF D!BlockRefused, DP!BlockRefused, D!ContentRefused, DP!ContentRefused, D!NextFrame, DP!NextFrame
<1>2. D!CodecCall(s, in, out) = DP!CodecCall(s, in, out)
  BY <1>1, SameHelpers, Zenon DEF D!CodecCall, DP!CodecCall
<1> QED
  BY <1>2, SameHelpers, Zenon
  DEF D!LZ4F_decompress, DP!LZ4F_decompress, D!ZSTD_decompressStream, DP!ZSTD_decompressStream

LEMMA SameSteps == (D!Call \/ D!Steps) => (DP!Call \/ DP!Steps)
<1>1. D!Call => DP!Call
  BY SameHelpers, Zenon DEF D!Call, DP!Call
<1>2. D!Detect => DP!Detect
  BY SameHelpers, Zenon DEF D!Detect, DP!Detect
<1>3. D!LZ4CreateContext => DP!LZ4CreateContext
  BY SameHelpers, Zenon DEF D!LZ4CreateContext, DP!LZ4CreateContext
<1>4. D!LZ4FrameInfo => DP!LZ4FrameInfo
  BY SameHelpers, Zenon
  DEF D!LZ4FrameInfo, DP!LZ4FrameInfo, D!LZ4Fail, DP!LZ4Fail, D!AllocateKernel, DP!AllocateKernel
<1>5. D!LZ4Loop => DP!LZ4Loop
  <2>1. ASSUME NEW r, D!LZ4Result(r) PROVE DP!LZ4Result(r)
    BY <2>1, SameHelpers, Zenon DEF D!LZ4Result, DP!LZ4Result
  <2>2. D!Running = DP!Running /\ D!AssertExit = DP!AssertExit
        /\ D!AssertFails(D!BufferPosOk(outbuf)) = DP!AssertFails(DP!BufferPosOk(outbuf))
    BY SameHelpers, Zenon
  <2>3. D!LZ4F_decompress(section, inbuf, outbuf) = DP!LZ4F_decompress(section, inbuf, outbuf)
    BY SameLibrary, Zenon
  <2> QED
    BY <2>1, <2>2, <2>3, Zenon DEF D!LZ4Loop, DP!LZ4Loop
<1>6. D!LZ4Eof => DP!LZ4Eof
  BY SameHelpers, Zenon DEF D!LZ4Eof, DP!LZ4Eof
<1>7. D!LZ4End => DP!LZ4End
  BY SameHelpers, Zenon DEF D!LZ4End, DP!LZ4End
<1>8. D!ZSTDPrepare => DP!ZSTDPrepare
  BY SameHelpers, Zenon DEF D!ZSTDPrepare, DP!ZSTDPrepare
<1>9. D!ZSTDLoop => DP!ZSTDLoop
  BY SameHelpers, SameLibrary DEF D!ZSTDLoop, DP!ZSTDLoop
<1>10. D!ZSTDEof => DP!ZSTDEof
  BY SameHelpers, Zenon DEF D!ZSTDEof, DP!ZSTDEof
<1>11. D!ZSTDEnd => DP!ZSTDEnd
  BY SameHelpers, Zenon DEF D!ZSTDEnd, DP!ZSTDEnd
<1> QED
  BY <1>1, <1>2, <1>3, <1>4, <1>5, <1>6, <1>7, <1>8, <1>9, <1>10, <1>11 DEF D!Steps, DP!Steps

-----------------------------------------------------------------------------
(* The parts keep their own invariants and touch their own blocks only.    *)

Blocks == {"kernel", "dp", "lp", "fdt", "options"}

PoolOK == heap \in [Blocks -> BlockState]

(* Every block but those in B is as it was.                                *)
Untouched(B) == PoolOK' /\ \A b \in Blocks \ B : heap'[b] = heap[b]

LEMMA UnpackStep ==
  ASSUME PoolOK, DP!DecompressInv, D!Call \/ D!Steps
  PROVE  DP!DecompressInv' /\ Untouched({"kernel"})
<1>1. DP!Call \/ DP!Steps
  BY SameSteps
<1>2. D!DecompressAssumption <=> DP!DecompressAssumption
  BY DEF D!DecompressAssumption, DP!DecompressAssumption, D!NoSize, DP!NoSize
<1>3. DP!DecompressInv'
  BY <1>1, <1>2, DP!PartStep, SectionsAssumption, NdebugAssumption, Zenon
<1>4. /\ DP!PoolOK' /\ DOMAIN heap' = DOMAIN heap
      /\ \A b \in DOMAIN heap \ {"kernel"} : heap'[b] = heap[b]
  BY <1>1, <1>2, DP!PoolStep, SectionsAssumption, NdebugAssumption, Zenon
<1>5. DOMAIN heap = Blocks
  BY DEF PoolOK
<1>6. heap' \in [Blocks -> BlockState]
  BY <1>4, <1>5 DEF DP!PoolOK, DP!BlockState, BlockState
<1> QED
  BY <1>3, <1>4, <1>5, <1>6 DEF PoolOK, Untouched

(* malloc() and free() block by block, as the loader and the device tree   *)
(* code use them.                                                          *)
LEMMA Blockwise ==
  ASSUME NEW h \in [Blocks -> BlockState], NEW b \in Blocks
  PROVE  /\ L!Malloc(h, b) \in [Blocks -> BlockState] /\ L!Free(h, b) \in [Blocks -> BlockState]
         /\ T!Malloc(h, b) \in [Blocks -> BlockState] /\ Malloc(h, b) \in [Blocks -> BlockState]
         /\ \A c \in Blocks :
              /\ L!Malloc(h, b)[c] = IF c = b THEN "live" ELSE h[c]
              /\ L!Free(h, b)[c] = IF c # b THEN h[c]
                                   ELSE IF h[b] = "live" THEN "freed" ELSE "corrupt"
              /\ T!Malloc(h, b)[c] = IF c = b THEN "live" ELSE h[c]
              /\ Malloc(h, b)[c] = IF c = b THEN "live" ELSE h[c]
BY DEF L!Malloc, L!Free, T!Malloc, Malloc, BlockState

(* The labels of the loader: before the first block is taken, before the   *)
(* kernel is entered, and while it is reachable through its handle.        *)
BeforePool == {"idle", "allocate", "headers", "sections", "fixup", "device_path"}
Entering == BeforePool \cup {"loaded_image", "install", "loaded"}
Reachable == {"loaded", "kernel", "unload", "uninstall"}

Pair(dp, lp) == heap["dp"] = dp /\ heap["lp"] = lp

LoaderPool ==
  /\ lpc \in Entering \cup Reachable \cup {"returned", "failed"}
  /\ lpc \in BeforePool => Pair("none", "none")
  /\ lpc = "loaded_image" => Pair("live", "none")
  /\ lpc \in {"install"} \cup Reachable => Pair("live", "live")
  /\ lpc = "returned" => Pair("live", "live") \/ Pair("freed", "freed")
  /\ lpc = "failed" => heap["dp"] \in {"none", "freed"} /\ heap["lp"] \in {"none", "freed"}

(* Errors == the statuses that are not EFI_SUCCESS.                        *)
Errors == EfiStatuses \ {"EFI_SUCCESS"}

(* What efi_main sees of one step of the loader.                           *)
LoaderMoves ==
  \/ /\ lpc \in Entering /\ stub' \in {"exited", "crashed"} /\ UNCHANGED <<lpc, lerr>>
  \/ /\ lpc \in Entering /\ UNCHANGED stub
     /\ \/ lpc' = "failed" /\ lerr' \in Errors
        \/ lpc' \in Entering /\ lerr' \in {lerr, "EFI_SUCCESS"}
  \/ lpc = "loaded" /\ lpc' = "kernel" /\ UNCHANGED <<stub, lerr>>
  \/ lpc \in {"unload", "uninstall"} /\ lpc' \in {"uninstall", "returned"} /\ UNCHANGED <<stub, lerr>>

LEMMA LoaderStatuses ==
  /\ \A i : L!read_headers(i) \in {"EFI_SUCCESS", "EFI_LOAD_ERROR", "EFI_UNSUPPORTED"}
  /\ \A i, base, buffer, sec :
       L!relocation_fixup(i, base, buffer, sec) \subseteq {"EFI_SUCCESS", "EFI_UNSUPPORTED"}
BY DEF L!read_headers, L!relocation_fixup

LEMMA LoaderStep ==
  ASSUME PoolOK, LoaderPool, lerr \in EfiStatuses, L!HandleImage \/ L!Steps
  PROVE  /\ LoaderPool' /\ LoaderMoves /\ Untouched({"dp", "lp"})
         /\ UNCHANGED <<outbuf, options>>
<1>h. /\ heap \in [Blocks -> BlockState] /\ "dp" \in Blocks /\ "lp" \in Blocks
  BY DEF PoolOK, Blocks
<1>u. ASSUME UNCHANGED heap PROVE Untouched({"dp", "lp"})
  BY <1>u DEF Untouched, PoolOK
<1>x. ASSUME stub' \in {"exited", "crashed"}, UNCHANGED <<L!lvars, outbuf, options, heap>>,
             lpc \in Entering
      PROVE  /\ LoaderPool' /\ LoaderMoves /\ Untouched({"dp", "lp"})
             /\ UNCHANGED <<outbuf, options>>
  BY <1>u, <1>x DEF L!lvars, LoaderMoves, LoaderPool, Pair
<1>e. ASSUME lpc \in BeforePool, UNCHANGED <<heap, outbuf, options, stub>>,
             \/ lpc' = "failed" /\ lerr' \in Errors
             \/ lpc' \in BeforePool /\ lerr' = lerr
      PROVE  /\ LoaderPool' /\ LoaderMoves /\ Untouched({"dp", "lp"})
             /\ UNCHANGED <<outbuf, options>>
  BY <1>u, <1>e DEF LoaderMoves, LoaderPool, Pair, BeforePool, Entering, Reachable
<1>1. CASE L!HandleImage
  <2>1. lpc = "idle"
    BY <1>1 DEF L!HandleImage
  <2>2. CASE L!AssertExit
    BY <1>x, <2>1, <2>2 DEF L!AssertExit, Entering, BeforePool
  <2>3. CASE ~L!AssertExit
    <3>1. UNCHANGED <<heap, outbuf, options, stub>>
      BY <1>1, <2>3 DEF L!HandleImage, L!Unchanged
    <3>2. \/ lpc' = "failed" /\ lerr' \in Errors
          \/ lpc' = "allocate" /\ lerr' = lerr
      BY <1>1, <2>3, LoaderStatuses
      DEF L!HandleImage, L!Fail, L!Goto, L!EfiError, Errors, EfiStatuses
    <3> QED
      BY <1>e, <2>1, <3>1, <3>2 DEF BeforePool
  <2> QED
    BY <2>2, <2>3
<1>2. CASE L!AllocatePages
  BY <1>2, <1>e DEF L!AllocatePages, L!Goto, L!Unchanged, BeforePool
<1>3. CASE L!CopyHeaders
  <2>1. CASE stub' = "crashed" /\ UNCHANGED <<L!lvars, outbuf, options, heap>>
    BY <1>3, <1>x, <2>1 DEF L!CopyHeaders, Entering, BeforePool
  <2> QED
    BY <1>3, <1>e, <2>1
    DEF L!CopyHeaders, L!Fail, L!Goto, L!Unchanged, BeforePool, Errors, EfiStatuses
<1>4. CASE L!RelocateSections
  <2>1. CASE L!AssertExit
    BY <1>4, <1>x, <2>1 DEF L!RelocateSections, L!AssertExit, Entering, BeforePool
  <2> QED
    BY <1>4, <1>e, <2>1
    DEF L!RelocateSections, L!Fail, L!Goto, L!Unchanged, BeforePool, Errors, EfiStatuses
<1>5. CASE L!RelocationFixup
  <2>1. lpc = "fixup" /\ UNCHANGED <<heap, outbuf, options, stub>>
    BY <1>5 DEF L!RelocationFixup, L!Unchanged
  <2>2. PICK st \in {"EFI_SUCCESS", "EFI_UNSUPPORTED"} :
          IF L!EfiError(st) THEN L!Fail(st)
          ELSE L!Goto("device_path") /\ UNCHANGED <<held, lerr>>
    BY <1>5, LoaderStatuses DEF L!RelocationFixup
  <2> QED
    BY <1>e, <2>1, <2>2 DEF L!EfiError, L!Fail, L!Goto, BeforePool, Errors, EfiStatuses
<1>6. CASE L!CreateDevicePath
  <2>1. lpc = "device_path" /\ UNCHANGED <<outbuf, options, stub>>
    BY <1>6 DEF L!CreateDevicePath, L!Unchanged
  <2>2. CASE L!Fail("EFI_OUT_OF_RESOURCES") /\ UNCHANGED heap
    BY <1>e, <2>1, <2>2 DEF L!Fail, L!Goto, BeforePool, Errors, EfiStatuses
  <2>3. CASE heap' = L!Malloc(heap, "dp") /\ L!Goto("loaded_image") /\ UNCHANGED lerr
    <3>1. /\ heap' \in [Blocks -> BlockState] /\ heap'["dp"] = "live" /\ heap'["lp"] = heap["lp"]
          /\ \A b \in Blocks \ {"dp", "lp"} : heap'[b] = heap[b]
      BY <1>h, <2>3, Blockwise
    <3> QED
      BY <2>1, <2>3, <3>1
      DEF L!Goto, LoaderPool, LoaderMoves, Untouched, PoolOK, Pair, BeforePool, Entering, Reachable
  <2> QED
    BY <1>6, <2>2, <2>3 DEF L!CreateDevicePath
<1>7. CASE L!CreateLoadedImage
  <2>1. lpc = "loaded_image" /\ Pair("live", "none") /\ UNCHANGED <<outbuf, options, stub>>
    BY <1>7 DEF L!CreateLoadedImage, L!Unchanged, LoaderPool
  <2>2. CASE L!Fail("EFI_OUT_OF_RESOURCES") /\ L!FreeDevicePath
    <3>1. /\ heap' \in [Blocks -> BlockState] /\ heap'["dp"] = "freed" /\ heap'["lp"] = "none"
          /\ \A b \in Blocks \ {"dp", "lp"} : heap'[b] = heap[b]
      BY <1>h, <2>1, <2>2, Blockwise DEF L!FreeDevicePath, Pair
    <3> QED
      BY <2>1, <2>2, <3>1
      DEF L!Fail, L!Goto, LoaderPool, LoaderMoves, Untouched, PoolOK, Pair, BeforePool, Entering,
          Reachable, Errors, EfiStatuses
  <2>3. CASE heap' = L!Malloc(heap, "lp") /\ L!Goto("install") /\ UNCHANGED lerr
    <3>1. /\ heap' \in [Blocks -> BlockState] /\ heap'["lp"] = "live" /\ heap'["dp"] = "live"
          /\ \A b \in Blocks \ {"dp", "lp"} : heap'[b] = heap[b]
      BY <1>h, <2>1, <2>3, Blockwise DEF Pair
    <3> QED
      BY <2>1, <2>3, <3>1
      DEF L!Goto, LoaderPool, LoaderMoves, Untouched, PoolOK, Pair, BeforePool, Entering, Reachable
  <2> QED
    BY <1>7, <2>2, <2>3 DEF L!CreateLoadedImage
<1>8. CASE L!Install
  <2>1. lpc = "install" /\ Pair("live", "live") /\ UNCHANGED <<outbuf, options, stub>>
    BY <1>8 DEF L!Install, L!Unchanged, LoaderPool
  <2>2. CASE L!InstallFailed
    <3> DEFINE h == L!Free(heap, "dp")
    <3>1. /\ h \in [Blocks -> BlockState] /\ h["dp"] = "freed" /\ h["lp"] = "live"
          /\ \A b \in Blocks \ {"dp", "lp"} : h[b] = heap[b]
      BY <1>h, <2>1, Blockwise DEF Pair
    <3>2. heap' = L!Free(h, "lp")
      BY <2>2 DEF L!InstallFailed
    <3> HIDE DEF h
    <3>3. /\ heap' \in [Blocks -> BlockState] /\ heap'["dp"] = "freed" /\ heap'["lp"] = "freed"
          /\ \A b \in Blocks \ {"dp", "lp"} : heap'[b] = heap[b]
      BY <1>h, <3>1, <3>2, Blockwise
    <3> QED
      BY <2>1, <2>2, <3>3
      DEF L!InstallFailed, L!Fail, L!Goto, LoaderPool, LoaderMoves, Untouched, PoolOK, Pair,
          BeforePool, Entering, Reachable, Errors, EfiStatuses
  <2>3. CASE L!Goto("loaded") /\ lerr' = "EFI_SUCCESS" /\ UNCHANGED heap
    BY <1>u, <2>1, <2>3
    DEF L!Goto, LoaderPool, LoaderMoves, Pair, BeforePool, Entering, Reachable
  <2> QED
    BY <1>8, <2>2, <2>3 DEF L!Install
<1>9. CASE L!StartImage
  <2>1. CASE L!AssertExit
    BY <1>9, <1>x, <2>1 DEF L!StartImage, L!AssertExit, Entering
  <2> QED
    BY <1>9, <1>u, <2>1
    DEF L!StartImage, L!Goto, L!Unchanged, LoaderPool, LoaderMoves, Pair, BeforePool, Entering,
        Reachable
<1>10. CASE L!UnloadOpen
  BY <1>10, <1>u
  DEF L!UnloadOpen, L!UnloadLabel, L!Goto, L!Unchanged, LoaderPool, LoaderMoves, Pair, BeforePool,
      Entering, Reachable
<1>11. CASE L!UnloadUninstall
  <2>1. lpc = "uninstall" /\ lpc' = "returned" /\ Pair("live", "live")
        /\ UNCHANGED <<outbuf, options, stub, lerr>>
    BY <1>11 DEF L!UnloadUninstall, L!Goto, L!Unchanged, LoaderPool, Reachable
  <2>2. CASE UNCHANGED heap
    BY <1>u, <2>1, <2>2 DEF LoaderPool, LoaderMoves, Pair, BeforePool, Entering, Reachable
  <2>3. CASE heap' = L!Free(L!Free(heap, "lp"), "dp")
    <3> DEFINE h == L!Free(heap, "lp")
    <3>1. /\ h \in [Blocks -> BlockState] /\ h["lp"] = "freed" /\ h["dp"] = "live"
          /\ \A b \in Blocks \ {"dp", "lp"} : h[b] = heap[b]
      BY <1>h, <2>1, Blockwise DEF Pair
    <3>2. heap' = L!Free(h, "dp")
      BY <2>3
    <3> HIDE DEF h
    <3>3. /\ heap' \in [Blocks -> BlockState] /\ heap'["dp"] = "freed" /\ heap'["lp"] = "freed"
          /\ \A b \in Blocks \ {"dp", "lp"} : heap'[b] = heap[b]
      BY <1>h, <3>1, <3>2, Blockwise
    <3> QED
      BY <2>1, <3>3
      DEF LoaderPool, LoaderMoves, Untouched, PoolOK, Pair, BeforePool, Entering, Reachable
  <2> QED
    BY <1>11, <2>2, <2>3 DEF L!UnloadUninstall, L!FreeProtocols
<1> QED
  BY <1>1, <1>2, <1>3, <1>4, <1>5, <1>6, <1>7, <1>8, <1>9, <1>10, <1>11 DEF L!Steps

-----------------------------------------------------------------------------
(* The device tree                                                         *)

TreeBuffer == D!BufferType({"NULL", "section", "fdt"})

(* The tree has not been moved, or is in the block it was moved to.        *)
NotMoved == heap["fdt"] = "none" /\ table = "none" /\ fdt.free = "NULL"

InBlock ==
  /\ heap["fdt"] = "live" /\ table = "none" /\ fdt.buffer = "fdt"
  /\ fixup = "EFI_SUCCESS" => tree["fdt"] = "fixed" /\ fdt.allocated >= size

Published ==
  /\ terr = "EFI_SUCCESS" /\ table = "fdt" /\ heap["fdt"] = "live" /\ tree["fdt"] = "fixed"
  /\ fdt.allocated >= size /\ fdt.free = "NULL"

TreeInv ==
  /\ tpc \in {"idle", "fixup", "allocate", "again", "install", "returned"}
  /\ fdt \in TreeBuffer /\ fdt.pos = 0 /\ size \in Nat
  /\ tree \in [{"section", "fdt"} -> {"none", "plain", "fixed", "torn"}]
  /\ tpc \in {"idle", "fixup", "allocate"} => NotMoved
  /\ tpc = "allocate" => (fixup = "EFI_SUCCESS" => tree["section"] = "fixed")
  /\ tpc \in {"again", "install"} => InBlock
  /\ tpc = "again" => fdt.allocated = size
  /\ tpc = "returned" =>
       \/ Published
       \/ table = "none" /\ terr # "EFI_SUCCESS" /\ heap["fdt"] \in {"none", "live"}

(* What fixup->fixup() does to the tree at a place.                        *)
LEMMA FixupStep ==
  ASSUME TreeInv, NEW place \in {"section", "fdt"}, T!Fixup(place)
  PROVE  /\ tree' \in [{"section", "fdt"} -> {"none", "plain", "fixed", "torn"}]
         /\ size' \in Nat
         /\ fixup' = "EFI_SUCCESS" => tree'[place] = "fixed" /\ size' = size
BY GrowthAssumption DEF T!Fixup, TreeInv

LEMMA TreeStep ==
  ASSUME PoolOK, TreeInv, T!LocateFixup \/ T!Steps
  PROVE  TreeInv' /\ Untouched({"fdt"}) /\ stub' \in {stub, "exited"}
<1>h. heap \in [Blocks -> BlockState] /\ "fdt" \in Blocks
  BY DEF PoolOK, Blocks
<1>u. ASSUME UNCHANGED heap PROVE Untouched({"fdt"})
  BY <1>u DEF Untouched, PoolOK
<1>b. /\ fdt \in TreeBuffer /\ fdt.pos = 0 /\ size \in Nat
      /\ tree \in [{"section", "fdt"} -> {"none", "plain", "fixed", "torn"}]
  BY DEF TreeInv
<1>x. ASSUME T!AssertExit PROVE TreeInv' /\ Untouched({"fdt"}) /\ stub' \in {stub, "exited"}
  BY <1>x, <1>u DEF T!AssertExit, T!tvars, TreeInv, NotMoved, InBlock, Published
<1>1. CASE T!LocateFixup
  <2>1. tpc = "idle" /\ UNCHANGED <<fdt, tree, fixup, table, heap>>
    BY <1>1 DEF T!LocateFixup
  <2>2. NotMoved'
    BY <2>1 DEF TreeInv, NotMoved
  <2>3. CASE tpc' = "returned" /\ terr' # "EFI_SUCCESS" /\ UNCHANGED <<size, stub>>
    BY <1>u, <2>1, <2>2, <2>3 DEF TreeInv, NotMoved
  <2>4. CASE stub' = "exited" /\ UNCHANGED <<tpc, size, terr>>
    BY <1>u, <2>1, <2>2, <2>4 DEF TreeInv
  <2>5. CASE size' = T!BufferLen(fdt) /\ tpc' = "fixup" /\ UNCHANGED <<terr, stub>>
    <3>1. size' \in Nat
      BY <1>b, <2>5 DEF T!BufferLen, TreeBuffer, D!BufferType
    <3> QED
      BY <1>u, <2>1, <2>2, <2>5, <3>1 DEF TreeInv
  <2> QED
    BY <1>1, <2>3, <2>4, <2>5 DEF T!LocateFixup, T!Return, T!Goto
<1>2. CASE T!FirstFixup
  <2>1. CASE T!Fixup("section") /\ T!Goto("allocate") /\ UNCHANGED <<fdt, table, terr, heap, stub>>
             /\ tpc = "fixup"
    <3>1. NotMoved'
      BY <2>1 DEF TreeInv, NotMoved
    <3> QED
      BY <1>u, <1>b, <2>1, <3>1, FixupStep DEF T!Goto, TreeInv
  <2> QED
    BY <1>2, <1>x, <2>1 DEF T!FirstFixup
<1>3. CASE T!AllocateTree
  <2>1. tpc = "allocate" /\ NotMoved /\ UNCHANGED <<size, fixup, table, stub>>
        /\ (fixup = "EFI_SUCCESS" => tree["section"] = "fixed")
    BY <1>3 DEF T!AllocateTree, TreeInv
  <2>2. CASE T!Return("EFI_OUT_OF_RESOURCES") /\ UNCHANGED <<fdt, tree, heap>>
    BY <1>u, <1>b, <2>1, <2>2 DEF T!Return, TreeInv, NotMoved
  <2>3. CASE /\ heap' = T!FreeBuffer(T!Malloc(heap, "fdt"), fdt)
             /\ tree' = [tree EXCEPT !["fdt"] = tree["section"]]
             /\ fdt' = T!Moved(fdt, size) /\ T!Goto("again") /\ UNCHANGED terr
    <3>1. heap' = T!Malloc(heap, "fdt")
      BY <2>1, <2>3 DEF T!FreeBuffer, NotMoved
    <3>2. /\ heap' \in [Blocks -> BlockState] /\ heap'["fdt"] = "live"
          /\ \A b \in Blocks \ {"fdt"} : heap'[b] = heap[b]
      BY <1>h, <3>1, Blockwise
    <3>3. /\ fdt' \in TreeBuffer /\ fdt'.buffer = "fdt" /\ fdt'.allocated = size /\ fdt'.pos = 0
      BY <1>b, <2>3 DEF T!Moved, TreeBuffer, D!BufferType
    <3>4. /\ tree' \in [{"section", "fdt"} -> {"none", "plain", "fixed", "torn"}]
          /\ tree'["fdt"] = tree["section"]
      BY <1>b, <2>3
    <3>5. InBlock'
      BY <1>b, <2>1, <3>2, <3>3, <3>4 DEF InBlock, NotMoved
    <3> QED
      BY <1>b, <2>1, <2>3, <3>2, <3>3, <3>4, <3>5 DEF T!Goto, TreeInv, Untouched, PoolOK
  <2> QED
    BY <1>3, <2>2, <2>3 DEF T!AllocateTree
<1>4. CASE T!SecondFixup
  <2>1. tpc = "again" /\ InBlock /\ fdt.allocated = size
    BY <1>4 DEF T!SecondFixup, TreeInv
  <2>2. CASE T!Fixup("fdt") /\ T!Goto("install") /\ UNCHANGED <<fdt, table, terr, heap, stub>>
    <3>1. InBlock'
      BY <1>b, <2>1, <2>2, FixupStep DEF InBlock
    <3> QED
      BY <1>u, <1>b, <2>1, <2>2, <3>1, FixupStep DEF T!Goto, TreeInv
  <2>3. CASE T!Goto("install") /\ UNCHANGED <<fdt, size, tree, fixup, table, terr, heap, stub>>
    <3>1. InBlock'
      BY <2>1, <2>3 DEF InBlock
    <3> QED
      BY <1>u, <1>b, <2>1, <2>3, <3>1 DEF T!Goto, TreeInv
  <2> QED
    BY <1>4, <1>x, <2>2, <2>3 DEF T!SecondFixup
<1>5. CASE T!InstallTable
  <2>1. tpc = "install" /\ InBlock /\ UNCHANGED <<size, tree, fixup, heap, stub>>
    BY <1>5 DEF T!InstallTable, TreeInv
  <2>2. CASE \E st : T!Return(st) /\ st # "EFI_SUCCESS" /\ UNCHANGED <<fdt, table>>
    BY <1>u, <1>b, <2>1, <2>2 DEF T!Return, TreeInv, InBlock
  <2>3. CASE /\ fixup = "EFI_SUCCESS" /\ table' = fdt.buffer
             /\ fdt' = [fdt EXCEPT !.free = "NULL"] /\ T!Return("EFI_SUCCESS")
    <3>1. /\ fdt' \in TreeBuffer /\ fdt'.allocated = fdt.allocated /\ fdt'.pos = 0
          /\ fdt'.free = "NULL"
      BY <1>b, <2>3 DEF TreeBuffer, D!BufferType
    <3>2. Published'
      BY <2>1, <2>3, <3>1 DEF T!Return, InBlock, Published
    <3> QED
      BY <1>u, <1>b, <2>1, <2>3, <3>1, <3>2 DEF T!Return, TreeInv
  <2>4. CASE T!Refused(fixup)
    BY <1>5, <2>2, <2>4 DEF T!InstallTable, T!Refused, T!EfiError
  <2>5. CASE ~T!Refused(fixup)
    BY <1>5, <2>2, <2>3, <2>5 DEF T!InstallTable, T!Refused, T!EfiError, T!Publish
  <2> QED
    BY <2>4, <2>5
<1> QED
  BY <1>1, <1>2, <1>3, <1>4, <1>5 DEF T!Steps

-----------------------------------------------------------------------------
(* The sections of the stub's image                                        *)

(* A set of natural numbers has a least element, and a bounded one a       *)
(* greatest: the last of the sections of a name exists if there is any.    *)
LEMMA Least ==
  ASSUME NEW N \in SUBSET Nat, N # {}
  PROVE  \E x \in N : \A y \in N : x <= y
<1>1. PICK x \in N : \A y \in N : ~(<<y, x>> \in OpToRel(<, Nat))
  BY NatLessThanWellFounded, WFMin
<1>2. ASSUME NEW y \in N PROVE x <= y
  <2>1. ~(<<y, x>> \in OpToRel(<, Nat))
    BY <1>1
  <2>2. ~(y < x)
    BY <2>1 DEF OpToRel
  <2> QED
    BY <2>2
<1> QED
  BY <1>2

LEMMA Greatest ==
  ASSUME NEW n \in Nat, NEW S \in SUBSET (1 .. n), S # {}
  PROVE  Max(S) \in S
<1> DEFINE R == {k \in Nat : n - k \in S}
<1>1. \A x \in S : n - x \in R
  OBVIOUS
<1>2. R \in SUBSET Nat /\ R # {}
  BY <1>1
<1>3. \A k \in R : k \in Nat /\ n - k \in S
  OBVIOUS
<1> HIDE DEF R
<1>4. PICK r \in R : \A y \in R : r <= y
  BY <1>2, Least
<1>5. \A x \in S : n - r >= x
  BY <1>1, <1>3, <1>4
<1>6. n - r \in S
  BY <1>3, <1>4
<1>7. \E x \in S : \A y \in S : x >= y
  BY <1>5, <1>6
<1> QED
  BY <1>7, Zenon DEF Max

LEMMA ElementType ==
  ASSUME NEW R, NEW s \in Seq(R), NEW i \in 1 .. Len(s)
  PROVE  s[i] \in R
OBVIOUS

LEMMA LocatedType ==
  ASSUME env \in Stubs, NEW name
  PROVE  Located(name).size \in Nat
<1> DEFINE hits == {i \in DOMAIN env.sections : env.sections[i].name = name}
<1>1. CASE hits = {}
  BY <1>1 DEF Located, NotLocated
<1>2. CASE hits # {}
  <2>1. /\ env.sections \in Seq([name : STRING, address : Nat, size : Nat])
        /\ DOMAIN env.sections = 1 .. Len(env.sections) /\ Len(env.sections) \in Nat
    BY StubsAssumption
  <2>2. hits \in SUBSET (1 .. Len(env.sections))
    BY <2>1
  <2>3. Max(hits) \in hits
    BY <1>2, <2>1, <2>2, Greatest
  <2>4. Max(hits) \in DOMAIN env.sections
    BY <2>3
  <2>5. Located(name).size = env.sections[Max(hits)].size
    BY <1>2 DEF Located
  <2> DEFINE s == env.sections
             m == Max(hits)
  <2>6. /\ s \in Seq([name : STRING, address : Nat, size : Nat])
        /\ m \in 1 .. Len(s)
    BY <2>1, <2>4
  <2> HIDE DEF s, m
  <2>7. s[m] \in [name : STRING, address : Nat, size : Nat]
    BY <2>6, ElementType, Zenon
  <2>8. s[m].size \in Nat
    BY <2>7
  <2> QED
    BY <2>5, <2>8 DEF s, m
<1> QED
  BY <1>1, <1>2

-----------------------------------------------------------------------------
(* efi_main                                                                *)

Early == {"start", "secure_boot", "sections", "options"}
BeforeTree == Early \cup {"initrd", "fdt"}
Late == {"execute", "end", "exit"}

(* Where efi_main is tells where its parts are, and what their statuses    *)
(* and its own have come to.                                               *)
ControlInv ==
  /\ mpc \in BeforeTree \cup {"fixup", "decompress"} \cup Late
  /\ env \in Stubs /\ stub \in {"running", "exited", "crashed", "replaced"}
  /\ secure_boot = (mpc \notin {"start", "secure_boot"} /\ SecureBootOn)
  /\ status \in EfiStatuses /\ lerr \in EfiStatuses
  /\ mpc \in BeforeTree => tpc = "idle"
  /\ mpc \notin Late => lpc = "idle"
  /\ mpc \in {"end", "exit"} => lpc \in {"idle", "failed", "returned"}
  /\ mpc = "execute" => dpc = "returned" /\ derr = "EFI_SUCCESS"
  /\ lpc = "failed" => lerr \in Errors
  /\ mpc \in {"end", "exit"} => IF lpc = "returned" THEN status = lerr ELSE status \in Errors

CommandLine == D!BufferType({"NULL", "load_options", "options"})

(* The command line: its block, and what secure boot has to do with it.    *)
OptionsInv ==
  /\ options \in CommandLine
  /\ options.buffer = "NULL" => options.length = 0
  /\ heap["options"] = IF options.buffer = "options" THEN "live" ELSE "none"
  /\ options.buffer = "load_options" => ~SecureBootOn
  /\ mpc \in Early => options = NullBuffer

BootInv == PoolOK /\ ControlInv /\ OptionsInv /\ LoaderPool /\ TreeInv /\ DP!DecompressInv

(* The fields of an empty buffer.                                          *)
LEMMA NullFields ==
  /\ NullBuffer \in [buffer : {"NULL"}, length : {0}, pos : {0}, allocated : {0}, free : {"NULL"}]
  /\ NullBuffer \in CommandLine
  /\ NullBuffer = DP!NullBuffer /\ NullBuffer = T!NullBuffer
BY DEF NullBuffer, DP!NullBuffer, T!NullBuffer, CommandLine, D!BufferType

(* A command line buffer of n bytes in a block of m, or of the firmware.   *)
LEMMA CommandLineFields ==
  ASSUME NEW b \in CommandLine, NEW n \in Nat, NEW m \in Nat
  PROVE  /\ [b EXCEPT !.buffer = "load_options", !.allocated = n, !.length = n] \in CommandLine
         /\ [b EXCEPT !.buffer = "load_options", !.allocated = n, !.length = n].buffer
              = "load_options"
         /\ AllocateSimpleBuffer(b, "options", m) \in CommandLine
         /\ AllocateSimpleBuffer(b, "options", m).buffer = "options"
         /\ [b EXCEPT !.length = n] \in CommandLine
         /\ [b EXCEPT !.length = n].buffer = b.buffer
BY DEF AllocateSimpleBuffer, CommandLine, D!BufferType

LEMMA BootInit == Init => BootInv
<1> SUFFICES ASSUME Init PROVE BootInv
  OBVIOUS
<1>1. PoolOK /\ \A b \in Blocks : heap[b] = "none"
  BY DEF Init, PoolOK, Blocks, BlockState
<1>2. ControlInv
  BY DEF Init, ControlInv, BeforeTree, Early, Late, EfiStatuses, Errors
<1>3. OptionsInv
  BY <1>1, NullFields DEF Init, OptionsInv, Blocks
<1>4. LoaderPool
  BY <1>1 DEF Init, LoaderPool, Pair, BeforePool, Entering, Reachable, Blocks
<1>5. TreeInv
  <2>1. NotMoved
    BY <1>1, NullFields DEF Init, NotMoved, Blocks
  <2>2. fdt \in TreeBuffer /\ fdt.pos = 0
    BY NullFields DEF Init, TreeBuffer, D!BufferType
  <2>3. tree \in [{"section", "fdt"} -> {"none", "plain", "fixed", "torn"}]
    BY DEF Init
  <2> QED
    BY <2>1, <2>2, <2>3 DEF Init, TreeInv
<1>6. DP!DecompressInv
  <2>1. DP!PoolOK /\ heap["kernel"] = "none"
    BY <1>1 DEF PoolOK, DP!PoolOK, Blocks, DP!BlockState, BlockState
  <2>2. DP!DataOK
    BY NullFields DEF Init, DP!DataOK, DP!Labels, DP!BufferType
  <2>3. DP!LabelInv
    BY <2>1, NullFields
    DEF Init, DP!LabelInv, DP!Before, DP!Lz4Labels, DP!ZstdLabels, DP!Nothing
  <2> QED
    BY <2>1, <2>2, <2>3 DEF DP!DecompressInv
<1> QED
  BY <1>1, <1>2, <1>3, <1>4, <1>5, <1>6 DEF BootInv

(* A part is not disturbed by steps that leave its variables and blocks    *)
(* alone.                                                                  *)
LEMMA Undisturbed ==
  ASSUME BootInv, NEW B, Untouched(B)
  PROVE  /\ UNCHANGED dvars /\ "kernel" \notin B => DP!DecompressInv'
         /\ UNCHANGED lpc /\ B \cap {"dp", "lp"} = {} => LoaderPool'
         /\ UNCHANGED tvars /\ "fdt" \notin B => TreeInv'
         /\ UNCHANGED <<options, env>> /\ "options" \notin B
            /\ (mpc' \in Early => mpc \in Early) => OptionsInv'
<1>1. ASSUME UNCHANGED dvars, "kernel" \notin B PROVE DP!DecompressInv'
  <2>1. DP!PoolOK' /\ heap'["kernel"] = heap["kernel"]
    BY <1>1 DEF Untouched, PoolOK, DP!PoolOK, Blocks, DP!BlockState, BlockState
  <2>2. D!DecompressAssumption <=> DP!DecompressAssumption
    BY DEF D!DecompressAssumption, DP!DecompressAssumption, D!NoSize, DP!NoSize
  <2>3. DP!DecompressInv /\ UNCHANGED DP!dvars
    BY <1>1 DEF BootInv, dvars, DP!dvars
  <2> QED
    BY <2>1, <2>2, <2>3, DP!OthersKeep, SectionsAssumption, NdebugAssumption, Zenon
<1>2. ASSUME UNCHANGED lpc, B \cap {"dp", "lp"} = {} PROVE LoaderPool'
  BY <1>2 DEF BootInv, Untouched, Blocks, LoaderPool, Pair
<1>3. ASSUME UNCHANGED tvars, "fdt" \notin B PROVE TreeInv'
  BY <1>3 DEF BootInv, Untouched, Blocks, tvars, TreeInv, NotMoved, InBlock, Published
<1>4. ASSUME UNCHANGED <<options, env>>, "options" \notin B, mpc' \in Early => mpc \in Early
      PROVE  OptionsInv'
  BY <1>4 DEF BootInv, Untouched, Blocks, OptionsInv, SecureBootOn
<1> QED
  BY <1>1, <1>2, <1>3, <1>4

(* An assertion ends the stub inside decompress(), or its error path does  *)
(* (LZ4End).                                                               *)
LEMMA UnpackStub ==
  ASSUME D!Call \/ D!Steps
  PROVE  stub' \in {stub, "exited", "crashed"}
<1>1. CASE D!Call \/ D!Detect \/ D!LZ4CreateContext \/ D!LZ4FrameInfo \/ D!LZ4Eof \/ D!ZSTDPrepare
           \/ D!ZSTDLoop \/ D!ZSTDEof \/ D!ZSTDEnd
  <2>1. stub' = stub
    BY <1>1, Zenon
    DEF D!Call, D!Detect, D!LZ4CreateContext, D!LZ4FrameInfo, D!LZ4Eof, D!ZSTDPrepare, D!ZSTDLoop,
        D!ZSTDEof, D!ZSTDEnd
  <2> QED
    BY <2>1
<1>2. CASE D!LZ4Loop
  BY <1>2, Zenon DEF D!LZ4Loop, D!AssertExit
<1>3. CASE D!LZ4End
  BY <1>3, Zenon DEF D!LZ4End
<1> QED
  BY <1>1, <1>2, <1>3 DEF D!Steps

(* What efi_main sees of the kernel.                                       *)
LEMMA KernelStep ==
  ASSUME L!Kernel
  PROVE  /\ lpc = "kernel" /\ UNCHANGED <<heap, options, outbuf>>
         /\ \/ UNCHANGED <<lpc, lerr, stub>>
            \/ stub' = "replaced" /\ UNCHANGED <<lpc, lerr>>
            \/ lpc' = "unload" /\ lerr' \in EfiStatuses /\ UNCHANGED stub
BY DEF L!Kernel, L!KernelOpensProtocol, L!KernelExitsBootServices, L!KernelReturns, L!Unchanged,
       L!Goto, L!lvars, EfiStatuses

(* A request for the initrd leaves the loader alone; it ends the stub only *)
(* through the assertion of buffer_pos().                                  *)
LEMMA RequestStep ==
  ASSUME NEW r, I!LoadFile(r) \/ I!LoadFileElsewhere(r)
  PROVE  stub' = stub \/ (~NDEBUG /\ stub' = "exited")
BY Zenon DEF I!LoadFile, I!LoadFileElsewhere, I!AssertFails

-----------------------------------------------------------------------------
(* Steps of efi_main between two of its parts.                             *)
Quiet ==
  \/ InitializeLibrary \/ ReadSecureBoot \/ LocateSections \/ RegisterInitrd \/ TreeReturns
  \/ UnpackReturns \/ ExecuteReturns \/ Deregister \/ ExitStub

LEMMA QuietFrame ==
  ASSUME Quiet
  PROVE  /\ UNCHANGED <<env, options, dvars, lvars, tvars, heap>> /\ Running
         /\ stub' \in {stub, "exited"} /\ (mpc' \in Early => mpc \in Early)
<1>1. CASE InitializeLibrary
  BY <1>1 DEF InitializeLibrary, At, Goto, Exit, Early, parts
<1>2. CASE ReadSecureBoot
  BY <1>2 DEF ReadSecureBoot, At, Goto, Early, parts
<1>3. CASE LocateSections
  BY <1>3 DEF LocateSections, At, Goto, Exit, Early, parts
<1>4. CASE RegisterInitrd
  BY <1>4, Zenon DEF RegisterInitrd, I!InitrdRegister, At, Goto, Early
<1>5. CASE TreeReturns
  BY <1>5 DEF TreeReturns, At, Goto, Early, parts
<1>6. CASE UnpackReturns
  BY <1>6 DEF UnpackReturns, Unpacked, At, Goto, Exit, Early, parts
<1>7. CASE ExecuteReturns
  BY <1>7 DEF ExecuteReturns, At, Goto, Early, parts
<1>8. CASE Deregister
  BY <1>8 DEF Deregister, I!InitrdDeregister, At, Goto, Early
<1>9. CASE ExitStub
  BY <1>9 DEF ExitStub, At, Exit, Early, parts
<1> QED
  BY <1>1, <1>2, <1>3, <1>4, <1>5, <1>6, <1>7, <1>8, <1>9 DEF Quiet

(* The error that makes efi_main give up is one.                           *)
LEMMA QuietControl ==
  ASSUME BootInv, Quiet
  PROVE  ControlInv'
<1> USE DEF ControlInv, BeforeTree, Early, Late, SecureBootOn
<1>0. /\ ControlInv /\ Running /\ stub' \in {stub, "exited"}
      /\ UNCHANGED <<env, lpc, lerr, tpc, dpc, derr>>
  BY QuietFrame DEF BootInv, dvars, lvars, tvars
<1>1. CASE InitializeLibrary
  <2>1. env.library \in EfiStatuses
    BY <1>0, StubsAssumption
  <2> QED
    BY <1>0, <1>1, <2>1 DEF InitializeLibrary, At, Goto, Exit
<1>2. CASE ReadSecureBoot
  BY <1>0, <1>2 DEF ReadSecureBoot, At, Goto
<1>3. CASE LocateSections
  BY <1>0, <1>3 DEF LocateSections, At, Goto, Exit, EfiStatuses
<1>4. CASE RegisterInitrd
  BY <1>0, <1>4 DEF RegisterInitrd, At, Goto
<1>5. CASE TreeReturns
  BY <1>0, <1>5 DEF TreeReturns, At, Goto
<1>6. CASE UnpackReturns
  <2>1. derr \in EfiStatuses
    BY DEF BootInv, DP!DecompressInv, DP!DataOK, EfiStatuses
  <2>2. CASE Exit("EFI_UNSUPPORTED")
    BY <1>0, <1>6, <2>2 DEF UnpackReturns, At, Exit, EfiStatuses
  <2>3. CASE Unpacked
    BY <1>0, <1>6, <2>1, <2>3 DEF UnpackReturns, At, Unpacked, Goto, EfiError, Errors
  <2> QED
    BY <1>6, <2>2, <2>3 DEF UnpackReturns
<1>7. CASE ExecuteReturns
  BY <1>0, <1>7 DEF ExecuteReturns, At, Goto
<1>8. CASE Deregister
  BY <1>0, <1>8 DEF Deregister, At, Goto
<1>9. CASE ExitStub
  BY <1>0, <1>9 DEF ExitStub, At, Exit
<1> QED
  BY <1>1, <1>2, <1>3, <1>4, <1>5, <1>6, <1>7, <1>8, <1>9 DEF Quiet

LEMMA SelectStep ==
  ASSUME BootInv, SelectOptions
  PROVE  BootInv'
<1>1. /\ mpc = "options" /\ Running /\ UNCHANGED <<env, secure_boot, dvars, lvars, tvars>>
      /\ options = NullBuffer /\ heap["options"] = "none" /\ heap \in [Blocks -> BlockState]
      /\ secure_boot = SecureBootOn
  <2>1. mpc = "options" /\ Running /\ UNCHANGED <<env, secure_boot, dvars, lvars, tvars>>
    BY Zenon DEF SelectOptions, At, parts
  <2>2. options = NullBuffer /\ heap["options"] = "none" /\ heap \in [Blocks -> BlockState]
    BY <2>1, NullFields DEF BootInv, OptionsInv, Early, PoolOK
  <2>3. secure_boot = SecureBootOn
    BY <2>1 DEF BootInv, ControlInv, SecureBootOn
  <2> QED
    BY <2>1, <2>2, <2>3
<1>2. mpc' \in {"options", "initrd"} /\ stub' \in {stub, "exited"}
      /\ status' \in {status, "EFI_OUT_OF_RESOURCES"} /\ (mpc' = "options" => UNCHANGED options)
  BY <1>1 DEF SelectOptions, Goto, Exit
<1>3. ControlInv'
  BY <1>1, <1>2
  DEF BootInv, ControlInv, BeforeTree, Early, Late, SecureBootOn, dvars, lvars, tvars, EfiStatuses
<1>4. \/ UNCHANGED <<heap, options>>
      \/ /\ heap' = heap /\ UsesSupplied
         /\ options' = [NullBuffer EXCEPT !.buffer = "load_options",
                           !.allocated = SuppliedLength, !.length = SuppliedLength]
      \/ /\ heap' = Malloc(heap, "options")
         /\ \E n \in 0 .. Located(".cmdline").size :
              options' = [AllocateSimpleBuffer(options, "options",
                            2 * (Located(".cmdline").size + 1)) EXCEPT !.length = 2 * n]
  BY Zenon DEF SelectOptions
<1>5. Untouched({"options"}) /\ OptionsInv'
  <2>1. CASE UNCHANGED <<heap, options>>
    <3>1. Untouched({})
      BY <1>1, <2>1 DEF Untouched, PoolOK
    <3> QED
      <4>1. OptionsInv'
        BY <1>1, <2>1, <3>1, Undisturbed DEF Early
      <4> QED
        BY <3>1, <4>1 DEF Untouched
  <2>2. CASE /\ heap' = heap /\ UsesSupplied
             /\ options' = [NullBuffer EXCEPT !.buffer = "load_options",
                               !.allocated = SuppliedLength, !.length = SuppliedLength]
    <3>1. SuppliedLength \in Nat
      BY StubsAssumption DEF SuppliedLength, BootInv, ControlInv
    <3>2. /\ options' \in CommandLine
          /\ options'.buffer = "load_options"
      BY <2>2, <3>1, NullFields, CommandLineFields, Zenon
    <3>3. ~SecureBootOn' /\ mpc' = "initrd"
      BY <1>1, <1>2, <2>2, <3>2, NullFields DEF UsesSupplied, SecureBootOn
    <3> QED
      BY <1>1, <2>2, <3>2, <3>3 DEF OptionsInv, Untouched, PoolOK, Early
  <2>3. CASE /\ heap' = Malloc(heap, "options")
             /\ \E n \in 0 .. Located(".cmdline").size :
                  options' = [AllocateSimpleBuffer(options, "options",
                                2 * (Located(".cmdline").size + 1)) EXCEPT !.length = 2 * n]
    <3>1. /\ heap' \in [Blocks -> BlockState] /\ heap'["options"] = "live"
          /\ \A b \in Blocks \ {"options"} : heap'[b] = heap[b]
      BY <1>1, <2>3, Blockwise DEF Blocks
    <3> DEFINE z == Located(".cmdline").size
    <3>2. z \in Nat
      BY LocatedType DEF BootInv, ControlInv
    <3>3. PICK n \in 0 .. z :
             options' = [AllocateSimpleBuffer(options, "options", 2 * (z + 1)) EXCEPT !.length = 2 * n]
      BY <2>3
    <3> HIDE DEF z
    <3>4. options \in CommandLine
      BY DEF BootInv, OptionsInv
    <3>5. /\ options' \in CommandLine
          /\ options'.buffer = "options"
      <4> DEFINE new == AllocateSimpleBuffer(options, "options", 2 * (z + 1))
      <4>1. 2 * (z + 1) \in Nat
        BY <3>2
      <4>2. new \in CommandLine /\ new.buffer = "options"
        BY <3>4, <4>1, CommandLineFields, Zenon
      <4>3. options' = [new EXCEPT !.length = 2 * n] /\ 2 * n \in Nat
        BY <3>2, <3>3
      <4> HIDE DEF new
      <4> QED
        BY <4>2, <4>3, CommandLineFields, Zenon
    <3>6. mpc' = "initrd"
      BY <1>1, <1>2, <3>5, NullFields
    <3> QED
      BY <3>1, <3>5, <3>6 DEF OptionsInv, Untouched, PoolOK, Early
  <2> QED
    BY <1>4, <2>1, <2>2, <2>3
<1>6. LoaderPool' /\ TreeInv' /\ DP!DecompressInv'
  BY <1>1, <1>5, Undisturbed DEF lvars
<1> QED
  BY <1>3, <1>5, <1>6 DEF BootInv, Untouched

LEMMA TreeLookup ==
  ASSUME BootInv, LookForTree
  PROVE  BootInv'
<1>1. /\ mpc = "fdt" /\ mpc' \in {"fixup", "decompress"}
      /\ UNCHANGED <<env, secure_boot, status, options, dvars, lvars, heap, stub>>
      /\ UNCHANGED <<tpc, size, tree, fixup, table, terr>>
  BY Zenon DEF LookForTree, At, Goto
<1>2. tpc = "idle" /\ TreeInv /\ NotMoved
  BY <1>1 DEF BootInv, ControlInv, BeforeTree, TreeInv
<1>3. ControlInv'
  BY <1>1
  DEF BootInv, ControlInv, BeforeTree, Early, Late, SecureBootOn, dvars, lvars
<1>4. Untouched({})
  BY <1>1 DEF BootInv, Untouched, PoolOK
<1>5. LoaderPool' /\ OptionsInv' /\ DP!DecompressInv'
  BY <1>1, <1>4, Undisturbed DEF lvars, Early
<1>6. fdt' \in TreeBuffer /\ fdt'.pos = 0 /\ fdt'.free = "NULL"
  <2>1. CASE UNCHANGED fdt
    BY <1>2, <2>1 DEF TreeInv, NotMoved
  <2>2. CASE fdt' = T!FdtSection(Located(".dtb").size)
    <3> DEFINE z == Located(".dtb").size
    <3>1. z \in Nat /\ fdt' = T!FdtSection(z)
      BY <2>2, LocatedType DEF BootInv, ControlInv
    <3> HIDE DEF z
    <3>2. T!NullBuffer \in TreeBuffer /\ T!NullBuffer.pos = 0 /\ T!NullBuffer.free = "NULL"
      BY NullFields DEF TreeBuffer, D!BufferType
    <3> QED
      BY <3>1, <3>2 DEF T!FdtSection, TreeBuffer, D!BufferType
  <2> QED
    BY <2>1, <2>2, Zenon DEF LookForTree
<1>7. TreeInv'
  <2>1. NotMoved'
    BY <1>1, <1>2, <1>6 DEF NotMoved
  <2> QED
    BY <1>1, <1>2, <1>6, <2>1 DEF TreeInv
<1> QED
  BY <1>3, <1>4, <1>5, <1>7 DEF BootInv, Untouched

LEMMA BootStep == BootInv /\ [Next]_vars => BootInv'
<1> SUFFICES ASSUME BootInv, [Next]_vars PROVE BootInv'
  OBVIOUS
<1>c. ControlInv /\ PoolOK /\ lerr \in EfiStatuses
  BY DEF BootInv, ControlInv
<1>0. ASSUME UNCHANGED vars PROVE BootInv'
  <2>1. UNCHANGED <<mvars, options, dvars, lvars, tvars, heap, stub>>
    BY <1>0 DEF vars, parts
  <2>2. Untouched({})
    BY <1>c, <2>1 DEF Untouched, PoolOK
  <2>3. ControlInv'
    BY <1>c, <2>1 DEF ControlInv, SecureBootOn, mvars, dvars, lvars, tvars
  <2>4. LoaderPool' /\ OptionsInv' /\ DP!DecompressInv' /\ TreeInv'
    BY <2>1, <2>2, Undisturbed DEF lvars, mvars
  <2> QED
    BY <2>2, <2>3, <2>4 DEF BootInv, Untouched
<1>1. CASE Quiet
  <2>1. Untouched({}) /\ UNCHANGED <<env, options, dvars, lvars, tvars>>
    BY <1>1, <1>c, QuietFrame DEF Untouched, PoolOK
  <2>2. LoaderPool' /\ OptionsInv' /\ DP!DecompressInv' /\ TreeInv'
    BY <1>1, <2>1, QuietFrame, Undisturbed DEF lvars
  <2> QED
    BY <1>1, <2>1, <2>2, QuietControl DEF BootInv, Untouched
<1>2. CASE SelectOptions
  BY <1>2, SelectStep
<1>3. CASE LookForTree
  BY <1>3, TreeLookup
<1>4. CASE InstallTree
  <2>1. /\ mpc = "fixup" /\ UNCHANGED <<mpc, env, secure_boot, options, dvars, lvars>>
        /\ status' = IF stub' = "exited" THEN "EFI_UNSUPPORTED" ELSE status
        /\ T!LocateFixup \/ T!Steps
    BY <1>4 DEF InstallTree, At, PartStep
  <2>2. TreeInv' /\ Untouched({"fdt"}) /\ stub' \in {stub, "exited"}
    BY <2>1, TreeStep DEF BootInv
  <2>3. ControlInv'
    BY <1>c, <2>1, <2>2
    DEF ControlInv, BeforeTree, Early, Late, SecureBootOn, EfiStatuses, dvars, lvars
  <2>4. LoaderPool' /\ OptionsInv' /\ DP!DecompressInv'
    BY <2>1, <2>2, Undisturbed DEF lvars
  <2> QED
    BY <2>2, <2>3, <2>4 DEF BootInv, Untouched
<1>5. CASE Unpack
  <2>1. /\ mpc = "decompress" /\ UNCHANGED <<mpc, env, secure_boot, options, lvars, tvars>>
        /\ status' = IF stub' = "exited" THEN "EFI_UNSUPPORTED" ELSE status
        /\ D!Call \/ D!Steps
    BY <1>5 DEF Unpack, At, PartStep
  <2>2. DP!DecompressInv' /\ Untouched({"kernel"}) /\ stub' \in {stub, "exited", "crashed"}
    BY <2>1, UnpackStep, UnpackStub DEF BootInv
  <2>3. ControlInv'
    BY <1>c, <2>1, <2>2
    DEF ControlInv, BeforeTree, Early, Late, SecureBootOn, EfiStatuses, tvars, lvars
  <2>4. LoaderPool' /\ OptionsInv' /\ TreeInv'
    BY <2>1, <2>2, Undisturbed DEF lvars
  <2> QED
    BY <2>2, <2>3, <2>4 DEF BootInv, Untouched
<1>6. CASE Execute
  <2>1. /\ mpc = "execute" /\ UNCHANGED <<mpc, env, secure_boot, dvars, tvars>> /\ Running
        /\ status' = IF stub' = "exited" THEN "EFI_UNSUPPORTED" ELSE status
        /\ L!HandleImage \/ L!Steps
    BY <1>6 DEF Execute, At, PartStep
  <2>2. LoaderPool' /\ LoaderMoves /\ Untouched({"dp", "lp"}) /\ UNCHANGED options
    BY <1>c, <2>1, LoaderStep DEF BootInv
  <2>3. lerr' \in EfiStatuses /\ (lpc' = "failed" => lerr' \in Errors)
    BY <1>c, <2>2 DEF LoaderMoves, Errors, EfiStatuses, ControlInv, Entering, BeforePool
  <2>4. stub' \in {"running", "exited", "crashed"}
    BY <2>1, <2>2 DEF LoaderMoves, Running
  <2>5. ControlInv'
    BY <1>c, <2>1, <2>3, <2>4
    DEF ControlInv, BeforeTree, Early, Late, SecureBootOn, EfiStatuses, tvars, dvars
  <2>6. DP!DecompressInv' /\ OptionsInv' /\ TreeInv'
    BY <2>1, <2>2, Undisturbed
  <2> QED
    BY <2>2, <2>5, <2>6 DEF BootInv, Untouched
<1>7. CASE KernelRuns
  <2>1. mpc = "execute" /\ UNCHANGED <<mvars, dvars, tvars>> /\ L!Kernel /\ Running
    BY <1>7 DEF KernelRuns, At
  <2>2. /\ lpc = "kernel" /\ UNCHANGED <<heap, options, outbuf>>
        /\ lpc' \in {"kernel", "unload"} /\ lerr' \in EfiStatuses
        /\ stub' \in {"running", "replaced"}
    BY <1>c, <2>1, KernelStep DEF Running
  <2>3. Untouched({})
    BY <1>c, <2>2 DEF Untouched, PoolOK
  <2>4. LoaderPool'
    BY <2>2 DEF BootInv, LoaderPool, Pair, BeforePool, Entering, Reachable
  <2>5. ControlInv'
    BY <1>c, <2>1, <2>2
    DEF ControlInv, BeforeTree, Early, Late, SecureBootOn, tvars, dvars, mvars
  <2>6. DP!DecompressInv' /\ OptionsInv' /\ TreeInv'
    BY <2>1, <2>2, <2>3, Undisturbed DEF mvars
  <2> QED
    BY <2>3, <2>4, <2>5, <2>6 DEF BootInv, Untouched
<1>8. CASE KernelAsksForInitrd
  <2>1. /\ UNCHANGED <<mpc, env, secure_boot, options, dvars, lvars, tvars, heap>>
        /\ status' = IF stub' = "exited" THEN "EFI_UNSUPPORTED" ELSE status
        /\ mpc = "execute" /\ \E r : I!LoadFile(r) \/ I!LoadFileElsewhere(r)
    BY <1>8 DEF KernelAsksForInitrd, At, PartStep
  <2>2. stub' \in {stub, "exited"}
    BY <2>1, RequestStep
  <2>3. Untouched({})
    BY <1>c, <2>1 DEF Untouched, PoolOK
  <2>4. ControlInv'
    BY <1>c, <2>1, <2>2
    DEF ControlInv, BeforeTree, Early, Late, SecureBootOn, EfiStatuses, tvars, dvars, lvars
  <2>5. DP!DecompressInv' /\ OptionsInv' /\ TreeInv' /\ LoaderPool'
    BY <2>1, <2>3, Undisturbed DEF lvars
  <2> QED
    BY <2>3, <2>4, <2>5 DEF BootInv, Untouched
<1> QED
  BY <1>0, <1>1, <1>2, <1>3, <1>4, <1>5, <1>6, <1>7, <1>8 DEF Next, StubStep, Quiet

-----------------------------------------------------------------------------
(* The theorems                                                            *)

LEMMA BootInvariant == Spec => []BootInv
BY BootInit, BootStep, PTL DEF Spec

(* What efi_main keeps has its type, whatever its parts do.                *)
THEOREM TypeCorrect == Spec => []TypeOK
<1>1. BootInv => TypeOK
  BY DEF BootInv, PoolOK, ControlInv, OptionsInv, CommandLine, TypeOK, BeforeTree, Early, Late, Blocks
<1> QED
  BY <1>1, BootInvariant, PTL

(* Whatever the image, the firmware and the kernel are: the unpacked       *)
(* kernel, the command line, the published device tree and the structures  *)
(* behind the kernel's handle are live when they are used, and no cleanup  *)
(* handler, error path or unload of the stub frees a block twice.          *)
THEOREM InputsLive == Spec => []KernelInputsLive
<1>1. BootInv => KernelInputsLive
  <2> SUFFICES ASSUME BootInv PROVE KernelInputsLive
    OBVIOUS
  <2>1. DOMAIN heap = Blocks
    BY DEF BootInv, PoolOK
  <2>2. heap["kernel"] \in {"none", "live", "freed"}
    BY DEF BootInv, DP!DecompressInv, DP!DataOK, DP!LabelInv, DP!Labels, DP!Before, DP!Nothing,
           DP!KernelBuffer
  <2>3. heap["dp"] # "corrupt" /\ heap["lp"] # "corrupt"
    BY DEF BootInv, LoaderPool, Pair, Entering, BeforePool, Reachable
  <2>4. heap["fdt"] # "corrupt" /\ (table # "none" => heap[table] = "live")
    BY DEF BootInv, TreeInv, NotMoved, InBlock, Published
  <2>5. heap["options"] # "corrupt" /\ (options.buffer = "options" => heap["options"] = "live")
    BY DEF BootInv, OptionsInv
  <2>6. mpc = "execute" /\ outbuf.buffer = "kernel" => heap["kernel"] = "live"
    BY DEF BootInv, ControlInv, DP!DecompressInv, DP!LabelInv, DP!KernelBuffer, DP!EfiError
  <2>7. lpc = "kernel" => heap["dp"] = "live" /\ heap["lp"] = "live"
    BY DEF BootInv, LoaderPool, Pair, Reachable
  <2> QED
    BY <2>1, <2>2, <2>3, <2>4, <2>5, <2>6, <2>7 DEF KernelInputsLive, Blocks
<1> QED
  BY <1>1, BootInvariant, PTL

(* Whatever is in .linux: efi_main comes as far as calling the kernel only *)
(* when no checksum decompress() had to read contradicts what it unpacked, *)
(* and a kernel that was cut short is never started in silence, but for    *)
(* the LZ4 section of a frame header only.                                 *)
THEOREM RunsUndamaged == Spec => []KernelUndamaged
<1>1. BootInv => KernelUndamaged
  <2> SUFFICES ASSUME BootInv, lpc = "kernel", section.fmt \in D!Compressed
               PROVE  D!DamageUncovered(section) /\ D!CutReported(section, result)
    BY DEF KernelUndamaged
  <2>1. dpc = "returned" /\ derr = "EFI_SUCCESS"
    BY DEF BootInv, ControlInv, Late
  <2>2. DP!Accepted
    BY <2>1 DEF BootInv, DP!DecompressInv, DP!LabelInv, DP!EfiError, D!Compressed
  <2> QED
    BY <2>2, SameHelpers, Zenon DEF DP!Accepted
<1> QED
  BY <1>1, BootInvariant, PTL

(* The device tree the firmware is told of is complete and stays where it  *)
(* is; when nothing was published, fixup_device_tree() says so.            *)
THEOREM TreeIsWhole == Spec => []PublishedTreeIsWhole
<1>1. BootInv => PublishedTreeIsWhole
  BY DEF BootInv, TreeInv, NotMoved, InBlock, Published, PublishedTreeIsWhole,
         T!PublishedTreeIsWhole, T!EfiError
<1> QED
  BY <1>1, BootInvariant, PTL

-----------------------------------------------------------------------------
(* Refinement of BootContract.  In a build that keeps assertions the       *)
(* kernel itself can end the stub: fl2_load_file() asserts that the        *)
(* initrd's buffer, whose `allocated' is 0, has room left.                 *)

LEMMA ContractInit == Init => Contract!Init
BY DEF Init, Contract!Init, Stage, Cmdline, Status, Running, AfterKernel

LEMMA ContractStep ==
  ASSUME NDEBUG, BootInv, [Next]_vars
  PROVE  [Contract!Next]_Contract!cvars
<1> USE DEF Contract!cvars
<1>c. ControlInv /\ LoaderPool
  BY DEF BootInv
<1>0. ASSUME UNCHANGED <<env, stub, lpc, lerr, options>>, stub = "running" \/ UNCHANGED status
      PROVE  UNCHANGED Contract!cvars
  BY <1>0 DEF Stage, Cmdline, Status, Running
<1>x. ASSUME Running, stub' = "exited", status' \in Errors, UNCHANGED <<env, lpc>>,
             lpc \notin {"kernel"} \cup AfterKernel
      PROVE  Contract!GiveUp
  BY <1>x DEF Contract!GiveUp, Stage, Cmdline, Status, Running, Errors
<1>r. ASSUME Running, stub' = "crashed", UNCHANGED <<env, lpc>>, lpc \notin {"kernel"} \cup AfterKernel
      PROVE  Contract!Crash
  BY <1>r DEF Contract!Crash, Stage, Cmdline, Status, Running
<1>u. "EFI_UNSUPPORTED" \in Errors /\ "EFI_OUT_OF_RESOURCES" \in Errors
  BY DEF Errors, EfiStatuses
<1>1. CASE UNCHANGED vars
  BY <1>0, <1>1 DEF vars, mvars, parts, lvars
<1>2. CASE Quiet
  <2>1. /\ Running /\ UNCHANGED <<env, options, lpc, lerr>> /\ stub' \in {stub, "exited"}
    BY <1>2, QuietFrame DEF lvars
  <2>2. CASE UNCHANGED stub
    BY <1>0, <2>1, <2>2 DEF Running
  <2>3. CASE stub' = "exited" /\ ~ExitStub
    <3>1. status' \in Errors /\ lpc = "idle"
      <4>1. CASE InitializeLibrary
        <5>1. env.library \in EfiStatuses
          BY <1>c, StubsAssumption DEF ControlInv
        <5> QED
          BY <1>c, <2>1, <2>3, <4>1, <5>1
          DEF InitializeLibrary, Exit, At, EfiError, Errors, ControlInv, Late, Running
      <4>2. CASE LocateSections
        BY <1>c, <1>u, <2>1, <2>3, <4>2 DEF LocateSections, Exit, At, ControlInv, Late, Running
      <4>3. CASE UnpackReturns
        BY <1>c, <1>u, <2>1, <2>3, <4>3
        DEF UnpackReturns, Unpacked, Exit, At, ControlInv, Late, Running
      <4>4. CASE RegisterInitrd \/ Deregister
        BY <2>1, <2>3, <4>4, Zenon
        DEF RegisterInitrd, Deregister, I!InitrdRegister, I!InitrdDeregister, Running
      <4> QED
        BY <1>2, <2>1, <2>3, <4>1, <4>2, <4>3, <4>4
        DEF Quiet, ReadSecureBoot, TreeReturns, ExecuteReturns, Running
    <3> QED
      BY <1>x, <2>1, <2>3, <3>1 DEF AfterKernel, Contract!Next
  <2>4. CASE ExitStub
    <3>1. mpc = "exit" /\ stub' = "exited" /\ status' = status
      BY <2>4 DEF ExitStub, At, Exit
    <3>2. CASE lpc = "returned"
      <4>1. status = lerr
        BY <1>c, <3>1, <3>2 DEF ControlInv
      <4>2. Contract!Exit
        BY <2>1, <3>1, <3>2, <4>1
        DEF Contract!Exit, Stage, Cmdline, Status, Running, AfterKernel
      <4> QED
        BY <4>2 DEF Contract!Next
    <3>3. CASE lpc # "returned"
      <4>1. lpc \in {"idle", "failed"} /\ status \in Errors
        BY <1>c, <3>1, <3>3 DEF ControlInv
      <4> QED
        BY <1>x, <2>1, <3>1, <4>1 DEF AfterKernel, Contract!Next
    <3> QED
      BY <3>2, <3>3
  <2> QED
    BY <2>1, <2>2, <2>3, <2>4
<1>3. CASE SelectOptions \/ LookForTree \/ InstallTree \/ Unpack
  <2>1. /\ Running /\ lpc = "idle" /\ UNCHANGED <<env, lpc, lerr>>
    <3>1. Running /\ mpc \notin Late /\ UNCHANGED <<env, lpc, lerr>>
      BY <1>3, Zenon
      DEF SelectOptions, LookForTree, InstallTree, Unpack, At, PartStep, parts, lvars, Late
    <3> QED
      BY <1>c, <3>1 DEF ControlInv
  <2>2. /\ stub' \in {stub, "exited", "crashed"}
        /\ stub' = "exited" => status' \in Errors
    <3>1. CASE SelectOptions
      BY <1>u, <2>1, <3>1 DEF SelectOptions, Goto, Exit, Running
    <3>2. CASE LookForTree
      BY <2>1, <3>2, Zenon DEF LookForTree, Running
    <3>3. CASE InstallTree
      BY <1>u, <3>3, TreeStep DEF InstallTree, PartStep, BootInv
    <3>4. CASE Unpack
      BY <1>u, <3>4, UnpackStub DEF Unpack, PartStep
    <3> QED
      BY <1>3, <3>1, <3>2, <3>3, <3>4
  <2>3. CASE UNCHANGED stub
    <3>1. UNCHANGED Contract!cvars
      BY <2>1, <2>3 DEF Stage, Cmdline, Status, Running, AfterKernel
    <3> QED
      BY <3>1
  <2> QED
    BY <1>x, <1>r, <2>1, <2>2, <2>3 DEF AfterKernel, Contract!Next, Running
<1>4. CASE Execute
  <2>1. /\ Running /\ UNCHANGED env /\ (L!HandleImage \/ L!Steps)
        /\ status' = IF stub' = "exited" THEN "EFI_UNSUPPORTED" ELSE status
    BY <1>4 DEF Execute, At, PartStep
  <2>2. LoaderMoves /\ UNCHANGED options
    BY <2>1, LoaderStep DEF BootInv, ControlInv
  <2>3. CASE lpc \in Entering /\ stub' \in {"exited", "crashed"} /\ UNCHANGED <<lpc, lerr>>
    <3>1. lpc \notin {"kernel"} \cup AfterKernel
      BY <2>3 DEF Entering, BeforePool, AfterKernel
    <3> QED
      BY <1>x, <1>r, <1>u, <2>1, <2>3, <3>1 DEF Contract!Next
  <2>4. CASE lpc \in Entering /\ UNCHANGED stub /\ lpc' \in Entering \cup {"failed"}
    <3>1. UNCHANGED Contract!cvars
      BY <2>1, <2>4 DEF Stage, Cmdline, Status, Running, AfterKernel, Entering, BeforePool
    <3> QED
      BY <3>1
  <2>5. CASE lpc = "loaded" /\ lpc' = "kernel" /\ UNCHANGED <<stub, lerr>>
    <3>1. Cmdline' \in Contract!Permitted'
      <4>1. OptionsInv'
        BY BootStep DEF BootInv
      <4> QED
        BY <4>1
        DEF OptionsInv, CommandLine, D!BufferType, Cmdline, Contract!Permitted, SecureBootOn
    <3>2. Contract!Permitted' = Contract!Permitted
      BY <2>1 DEF Contract!Permitted
    <3>3. Contract!EnterKernel
      BY <2>1, <2>5, <3>1, <3>2 DEF Contract!EnterKernel, Stage, Status, Running, AfterKernel
    <3> QED
      BY <3>3 DEF Contract!Next
  <2>6. CASE /\ lpc \in {"unload", "uninstall"} /\ lpc' \in {"uninstall", "returned"}
             /\ UNCHANGED <<stub, lerr>>
    <3>1. UNCHANGED Contract!cvars
      BY <2>1, <2>2, <2>6 DEF Stage, Cmdline, Status, Running, AfterKernel
    <3> QED
      BY <3>1
  <2> QED
    BY <2>2, <2>3, <2>4, <2>5, <2>6 DEF LoaderMoves
<1>5. CASE KernelRuns
  <2>1. Running /\ UNCHANGED <<env, status>> /\ L!Kernel
    BY <1>5 DEF KernelRuns, At, mvars
  <2>2. /\ lpc = "kernel" /\ UNCHANGED options
        /\ \/ UNCHANGED <<lpc, lerr, stub>>
           \/ stub' = "replaced" /\ UNCHANGED <<lpc, lerr>>
           \/ lpc' = "unload" /\ lerr' \in EfiStatuses /\ UNCHANGED stub
    BY <2>1, KernelStep
  <2>3. CASE UNCHANGED <<lpc, lerr, stub>>
    BY <1>0, <2>1, <2>2, <2>3
  <2>4. CASE stub' = "replaced" /\ UNCHANGED <<lpc, lerr>>
    <3>1. Contract!TakeOver
      BY <2>1, <2>2, <2>4 DEF Contract!TakeOver, Stage, Cmdline, Status, Running, AfterKernel
    <3> QED
      BY <3>1 DEF Contract!Next
  <2>5. CASE lpc' = "unload" /\ lerr' \in EfiStatuses /\ UNCHANGED stub
    <3>1. Contract!KernelReturns
      BY <2>1, <2>2, <2>5 DEF Contract!KernelReturns, Stage, Cmdline, Status, Running, AfterKernel
    <3> QED
      BY <3>1 DEF Contract!Next
  <2> QED
    BY <2>2, <2>3, <2>4, <2>5
<1>6. CASE KernelAsksForInitrd
  <2>1. /\ Running /\ UNCHANGED <<env, options, lpc, lerr>>
        /\ \E r : I!LoadFile(r) \/ I!LoadFileElsewhere(r)
    BY <1>6 DEF KernelAsksForInitrd, At, PartStep, lvars
  <2>2. UNCHANGED stub
    BY <2>1, RequestStep
  <2> QED
    BY <1>0, <2>1, <2>2 DEF Running
<1> QED
  BY <1>1, <1>2, <1>3, <1>4, <1>5, <1>6 DEF Next, StubStep, Quiet

(* A Release build of the stub implements BootContract: every step of      *)
(* efi_main and its parts, and of the kernel, is a step of the contract or *)
(* none at all.  Secure boot decides about the command line of the kernel, *)
(* and the exit status is the kernel's own if it ran and an error if not.  *)
THEOREM ReleaseKeepsContract == NDEBUG => (Spec => ImplementsContract)
<1> SUFFICES ASSUME NDEBUG PROVE Spec => ImplementsContract
  OBVIOUS
<1>1. Init => Contract!Init
  BY ContractInit
<1>2. BootInv /\ [Next]_vars => [Contract!Next]_Contract!cvars
  BY ContractStep
<1> QED
  BY <1>1, <1>2, BootInvariant, PTL DEF Spec, ImplementsContract, Contract!Spec
=============================================================================

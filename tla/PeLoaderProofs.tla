--------------------------- MODULE PeLoaderProofs ---------------------------
(***************************************************************************)
(* Proofs about PeLoader, for every kernel image, every page the firmware  *)
(* hands out and both kinds of build.                                      *)
(*                                                                         *)
(* FailureReleases, ProtocolsLive and KernelPagesHeld are not inductive:   *)
(* which blocks an error path has to give back depends on how far          *)
(* PE_handle_image came.  PoolInv says it for the two pool blocks, PageInv *)
(* for the pages, label by label.  SectionsInPlace needs LayoutInv, what   *)
(* the copies leave in memory, and that the sections of a well formed      *)
(* image are apart (Apart).                                                *)
(***************************************************************************)
EXTENDS PeLoader, WellFoundedInduction, TLAPS

(* Nothing but pages is allocated yet.                                     *)
BeforePool == {"idle", "allocate", "headers", "sections", "fixup", "device_path"}

(* The pages are allocated and leaving the function would free them.       *)
Loading == {"headers", "sections", "fixup", "device_path", "loaded_image", "install"}

(* The image is reachable through its handle.                              *)
Reachable == {"loaded", "kernel", "unload", "uninstall"}

Blocks(dp, lp) == heap["dp"] = dp /\ heap["lp"] = lp

PoolInv ==
  /\ lpc \in BeforePool => Blocks("none", "none") /\ protocols = {}
  /\ lpc = "loaded_image" => Blocks("live", "none") /\ protocols = {}
  /\ lpc = "install" => Blocks("live", "live") /\ protocols = {}
  /\ lpc \in Reachable => Blocks("live", "live") /\ protocols = {"lp", "dp"}
  /\ lpc = "returned" => \/ Blocks("live", "live")
                         \/ Blocks("freed", "freed") /\ protocols = {}
  /\ lpc = "failed" => /\ heap["dp"] \in {"none", "freed"} /\ heap["lp"] \in {"none", "freed"}
                       /\ protocols = {}

PageInv ==
  /\ lpc \in {"idle", "allocate"} => held = 0 /\ buf.raw = NULL
  /\ lpc \in Loading => held = buf.pages /\ buf.free = "free_aligned_buffer"
  /\ lpc \in {"loaded", "kernel"} => held = buf.pages
  /\ lpc = "failed" => held = 0
  /\ IF buf.raw = NULL THEN buf.pages = 0 /\ buf.buffer = NULL
     ELSE /\ buf.buffer = AlignedBase(buf.raw, SectionAlignment(img))
          /\ buf.pages = AlignedPages(img.size_of_image, SectionAlignment(img))

-----------------------------------------------------------------------------
(* Arithmetic of allocate_aligned_buffer_ext                               *)

(* ALIGN_VALUE moves a value up by less than the alignment.                *)
LEMMA AlignBounds ==
  ASSUME NEW v \in Nat, NEW a \in Nat \ {0}
  PROVE  ALIGN_VALUE(v, a) \in Nat /\ v <= ALIGN_VALUE(v, a) /\ ALIGN_VALUE(v, a) <= v + a - 1
<1>1. a - v \in Int /\ (a - v) % a \in 0 .. a - 1
  OBVIOUS
<1> QED
  BY <1>1 DEF ALIGN_VALUE

(* The alignment read_headers() leaves is never 0.                         *)
LEMMA AlignmentPositive ==
  ASSUME NEW i \in Images
  PROVE  SectionAlignment(i) \in Nat \ {0}
<1>1. CASE i.section_alignment # 0
  BY <1>1, PeLoaderAssumption DEF SectionAlignment
<1>2. CASE i.section_alignment = 0
  <2> DEFINE f == IF i.file_alignment = 0 THEN FILE_ALIGNMENT ELSE i.file_alignment
  <2>1. PAGE_SIZE \in Nat \ {0} /\ f \in Nat \ {0}
    BY PeImageAssumption, PeLoaderAssumption
  <2>2. \E x \in {PAGE_SIZE, f} : \A y \in {PAGE_SIZE, f} : x >= y
    BY <2>1
  <2>3. Max({PAGE_SIZE, f}) \in {PAGE_SIZE, f}
    BY <2>2 DEF Max
  <2> QED
    BY <1>2, <2>1, <2>3 DEF SectionAlignment
<1> QED
  BY <1>1, <1>2

(* The number of pages asked for is a natural number.                      *)
LEMMA PagesType ==
  ASSUME NEW i \in Images
  PROVE  AlignedPages(i.size_of_image, SectionAlignment(i)) \in Nat
<1>1. i.size_of_image \in Nat /\ SectionAlignment(i) \in Nat \ {0}
  BY AlignmentPositive, PeLoaderAssumption
<1>2. i.size_of_image + SectionAlignment(i) \in Nat
  BY <1>1
<1>3. ALIGN_VALUE(i.size_of_image + SectionAlignment(i), SectionAlignment(i)) \in Nat
  BY <1>1, <1>2, AlignBounds
<1>4. \A x \in Nat : x \div PAGE_SIZE \in Nat
  BY PeImageAssumption
<1> QED
  BY <1>3, <1>4 DEF AlignedPages

(* The aligned base of a page the firmware handed out is not NULL.         *)
LEMMA BaseType ==
  ASSUME NEW i \in Images, NEW raw \in RawAddresses
  PROVE  raw \in Nat \ {0} /\ AlignedBase(raw, SectionAlignment(i)) \in Nat \ {0}
<1>1. raw \in Nat \ {0} /\ SectionAlignment(i) \in Nat \ {0}
  BY AlignmentPositive, PeLoaderAssumption
<1>2. /\ ALIGN_VALUE(raw, SectionAlignment(i)) \in Nat
      /\ raw <= ALIGN_VALUE(raw, SectionAlignment(i))
  BY <1>1, AlignBounds
<1> QED
  BY <1>1, <1>2 DEF AlignedBase

(* A multiple of the page size is a whole number of pages.                 *)
LEMMA MultipleOfPages ==
  ASSUME NEW p \in Nat \ {0}, NEW x \in Nat, x % p = 0
  PROVE  (x \div p) * p = x
<1>1. x = p * (x \div p) + (x % p)
  OBVIOUS
<1> QED
  BY <1>1

(* An aligned value is a multiple of whatever divides the alignment.       *)
LEMMA AlignedMultiple ==
  ASSUME NEW p \in Nat \ {0}, NEW a \in Nat \ {0}, NEW v \in Nat, a % p = 0
  PROVE  ALIGN_VALUE(v, a) % p = 0
<1> DEFINE q == (a - v) \div a
           m == a \div p
<1>1. q \in Int /\ m \in Int /\ a - v = a * q + ((a - v) % a)
  OBVIOUS
<1>2. a = p * m
  OBVIOUS
<1>3. ALIGN_VALUE(v, a) = a * (1 - q)
  BY <1>1 DEF ALIGN_VALUE
<1>4. ALIGN_VALUE(v, a) = p * (m * (1 - q))
  BY <1>1, <1>2, <1>3
<1>5. \A k \in Int : (p * k) % p = 0
  OBVIOUS
<1> QED
  BY <1>1, <1>4, <1>5

(* The pages cover the image when pages divide the alignment.              *)
LEMMA PagesCover ==
  ASSUME NEW i \in Images, NEW raw \in Nat, SectionAlignment(i) % PAGE_SIZE = 0
  PROVE  AlignedBase(raw, SectionAlignment(i)) + i.size_of_image
           <= raw + AlignedPages(i.size_of_image, SectionAlignment(i)) * PAGE_SIZE
<1> DEFINE a == SectionAlignment(i)
           s == i.size_of_image
<1>1. a \in Nat \ {0} /\ s \in Nat /\ raw \in Nat /\ PAGE_SIZE \in Nat \ {0} /\ s + a \in Nat
  BY AlignmentPositive, PeLoaderAssumption, PeImageAssumption
<1> HIDE DEF a, s
<1>2. ALIGN_VALUE(s + a, a) \in Nat /\ s + a <= ALIGN_VALUE(s + a, a)
  BY <1>1, AlignBounds
<1>3. ALIGN_VALUE(raw, a) \in Nat /\ ALIGN_VALUE(raw, a) <= raw + a - 1
  BY <1>1, AlignBounds
<1>4. ALIGN_VALUE(s + a, a) % PAGE_SIZE = 0
  BY <1>1, AlignedMultiple DEF a
<1>5. AlignedPages(s, a) * PAGE_SIZE = ALIGN_VALUE(s + a, a)
  BY <1>1, <1>2, <1>4, MultipleOfPages DEF AlignedPages
<1>6. AlignedBase(raw, a) + s <= raw + AlignedPages(s, a) * PAGE_SIZE
  BY <1>1, <1>2, <1>3, <1>5 DEF AlignedBase
<1> QED
  BY <1>6 DEF a, s

-----------------------------------------------------------------------------
(* Type correctness                                                        *)

(* image_address() yields an address, NULL included.                       *)
LEMMA AddressType ==
  ASSUME NEW b \in Nat, NEW s, NEW a \in Nat
  PROVE  image_address(b, s, a) \in Nat
BY DEF image_address, NULL

(* What Fail leaves has its type, whatever status is returned.             *)
LEMMA FailType ==
  ASSUME TypeOK, NEW status, Fail(status)
  PROVE  lpc' \in Labels /\ held' \in Nat
BY DEF TypeOK, Fail, Goto, FreeAlignedBuffer, Labels

(* Every variable stays in its range, whichever step the loader or the     *)
(* kernel takes.                                                           *)
LEMMA TypeStep == TypeOK /\ [Next]_vars => TypeOK'
<1> SUFFICES ASSUME TypeOK, [Next]_vars PROVE TypeOK'
  OBVIOUS
<1>s. /\ \A status : Fail(status) => lpc' \in Labels /\ held' \in Nat
      /\ img \in Images
  BY FailType DEF TypeOK
<1>1. CASE HandleImage
  BY <1>1, <1>s DEF HandleImage, TypeOK, AssertExit, lvars, Goto, Labels, Unchanged
<1>2. CASE AllocatePages
  <2> DEFINE pages == AlignedPages(img.size_of_image, SectionAlignment(img))
  <2>1. pages \in Nat
    BY <1>s, PagesType
  <2>2. \A raw \in RawAddresses : raw \in Nat /\ AlignedBase(raw, SectionAlignment(img)) \in Nat
    BY <1>s, BaseType
  <2>3. buf' \in [raw : Nat, buffer : Nat, pages : Nat, free : {"NULL", "free_aligned_buffer"}]
    BY <1>2, <2>1, <2>2 DEF AllocatePages, NoPages, NULL
  <2>4. held' \in Nat
    BY <1>2, <2>1 DEF AllocatePages
  <2> QED
    BY <1>2, <2>3, <2>4 DEF AllocatePages, TypeOK, Goto, Labels, Unchanged
<1>3. CASE CopyHeaders
  <2>1. CASE stub' = "crashed" /\ UNCHANGED <<lvars, image_data, options, heap>>
    BY <2>1 DEF TypeOK, lvars
  <2>2. image_address(buf.buffer, img.size_of_image, img.entry_point) \in Nat
    BY <1>s, AddressType, PeLoaderAssumption DEF TypeOK
  <2> QED
    BY <1>3, <1>s, <2>1, <2>2 DEF CopyHeaders, TypeOK, Goto, Labels, Unchanged
<1>4. CASE RelocateSections
  BY <1>4, <1>s DEF RelocateSections, TypeOK, AssertExit, lvars, Goto, Labels, Unchanged
<1>5. CASE RelocationFixup
  <2>1. \/ \E status : Fail(status)
        \/ Goto("device_path") /\ UNCHANGED <<held, lerr>>
    BY <1>5 DEF RelocationFixup
  <2> QED
    BY <1>5, <1>s, <2>1 DEF RelocationFixup, TypeOK, Goto, Labels, Unchanged
<1>6. CASE CreateDevicePath
  BY <1>6, <1>s DEF CreateDevicePath, TypeOK, Goto, Labels, Unchanged, Malloc, BlockState
<1>7. CASE CreateLoadedImage
  BY <1>7, <1>s DEF CreateLoadedImage, FreeDevicePath, Free, TypeOK, Goto, Labels, Unchanged,
                    Malloc, BlockState
<1>8. CASE Install
  <2>1. CASE InstallFailed /\ UNCHANGED <<buf, protocols>>
    BY <1>8, <1>s, <2>1 DEF Install, InstallFailed, Free, TypeOK, Unchanged, BlockState
  <2>2. CASE buf' = Disowned(buf) /\ protocols' = {"lp", "dp"} /\ FreeAlignedBuffer(Disowned(buf))
             /\ Goto("loaded") /\ UNCHANGED heap
    BY <1>8, <2>2 DEF Install, Disowned, FreeAlignedBuffer, Goto, Labels, TypeOK, Unchanged
  <2> QED
    BY <1>8, <2>1, <2>2 DEF Install
<1>9. CASE StartImage
  BY <1>9 DEF StartImage, TypeOK, AssertExit, lvars, Goto, Labels, Unchanged
<1>10. CASE UnloadOpen
  BY <1>10 DEF UnloadOpen, UnloadLabel, TypeOK, Goto, Labels, Unchanged
<1>11. CASE UnloadUninstall
  BY <1>11 DEF UnloadUninstall, UninstallAll, FreeProtocols, Free, TypeOK, Goto, Labels,
               Unchanged, BlockState
<1>12. CASE KernelOpensProtocol
  BY <1>12 DEF KernelOpensProtocol, TypeOK
<1>13. CASE KernelExitsBootServices
  BY <1>13 DEF KernelExitsBootServices, TypeOK, lvars
<1>14. CASE KernelReturns
  BY <1>14 DEF KernelReturns, TypeOK, Goto, Labels, Unchanged
<1>15. CASE UNCHANGED vars
  BY <1>15 DEF TypeOK, vars, lvars
<1> QED
  BY <1>1, <1>2, <1>3, <1>4, <1>5, <1>6, <1>7, <1>8, <1>9, <1>10, <1>11, <1>12, <1>13, <1>14,
     <1>15 DEF Next, Steps, Kernel

(* The type invariant of PeLoader holds for every set of images and every  *)
(* pages the firmware hands out.                                           *)
THEOREM TypeCorrect == Spec => []TypeOK
<1>1. Init => TypeOK
  BY DEF Init, TypeOK, Labels, NoPages, NULL, BlockState
<1> QED
  BY <1>1, TypeStep, PTL DEF Spec

-----------------------------------------------------------------------------
(* The pool                                                                *)

(* Steps that leave blocks and protocols alone and stay before the first   *)
(* allocation, or fail.                                                    *)
LEMMA PoolEarly ==
  ASSUME PoolInv, lpc \in BeforePool, lpc' \in BeforePool \cup {"failed"},
         UNCHANGED <<heap, protocols>>
  PROVE  PoolInv'
BY DEF PoolInv, BeforePool, Reachable, Blocks

(* PoolInv is inductive.                                                   *)
LEMMA PoolStep == TypeOK /\ PoolInv /\ [Next]_vars => PoolInv'
<1> SUFFICES ASSUME TypeOK, PoolInv, [Next]_vars PROVE PoolInv'
  OBVIOUS
<1>s. heap \in [{"dp", "lp"} -> BlockState]
  BY DEF TypeOK
<1>u. CASE UNCHANGED <<lpc, heap, protocols>>
  BY <1>u DEF PoolInv, Blocks
<1>1. CASE HandleImage
  BY <1>1, <1>u, PoolEarly
  DEF HandleImage, AssertExit, lvars, Goto, Fail, Unchanged, BeforePool
<1>2. CASE AllocatePages
  BY <1>2, PoolEarly DEF AllocatePages, Goto, Unchanged, BeforePool
<1>3. CASE CopyHeaders
  BY <1>3, <1>u, PoolEarly DEF CopyHeaders, lvars, Goto, Fail, Unchanged, BeforePool
<1>4. CASE RelocateSections
  BY <1>4, <1>u, PoolEarly
  DEF RelocateSections, AssertExit, lvars, Goto, Fail, Unchanged, BeforePool
<1>5. CASE RelocationFixup
  BY <1>5, PoolEarly DEF RelocationFixup, Goto, Fail, Unchanged, BeforePool
<1>6. CASE CreateDevicePath
  <2>1. CASE Fail("EFI_OUT_OF_RESOURCES") /\ UNCHANGED heap
    BY <1>6, <2>1, PoolEarly DEF CreateDevicePath, Goto, Fail, Unchanged, BeforePool
  <2>2. CASE heap' = Malloc(heap, "dp") /\ Goto("loaded_image")
    BY <1>6, <1>s, <2>2
    DEF CreateDevicePath, Goto, Unchanged, Malloc, PoolInv, BeforePool, Reachable, Blocks
  <2> QED
    BY <1>6, <2>1, <2>2 DEF CreateDevicePath
<1>7. CASE CreateLoadedImage
  <2>1. CASE Fail("EFI_OUT_OF_RESOURCES") /\ FreeDevicePath
    BY <1>7, <1>s, <2>1
    DEF CreateLoadedImage, Goto, Fail, FreeDevicePath, Unchanged, Free, PoolInv, BeforePool,
        Reachable, Blocks
  <2>2. CASE heap' = Malloc(heap, "lp") /\ Goto("install")
    BY <1>7, <1>s, <2>2
    DEF CreateLoadedImage, Goto, Unchanged, Malloc, PoolInv, BeforePool, Reachable, Blocks
  <2> QED
    BY <1>7, <2>1, <2>2 DEF CreateLoadedImage
<1>8. CASE Install
  <2>1. CASE InstallFailed /\ UNCHANGED <<buf, protocols>>
    BY <1>8, <1>s, <2>1
    DEF Install, InstallFailed, Goto, Fail, Free, PoolInv, BeforePool, Reachable, Blocks
  <2>2. CASE protocols' = {"lp", "dp"} /\ Goto("loaded") /\ UNCHANGED heap
    BY <1>8, <2>2 DEF Install, Goto, PoolInv, BeforePool, Reachable, Blocks
  <2> QED
    BY <1>8, <2>1, <2>2 DEF Install
<1>9. CASE StartImage \/ KernelReturns \/ UnloadOpen
  BY <1>9, <1>u
  DEF StartImage, KernelReturns, UnloadOpen, UnloadLabel, AssertExit, lvars, Goto, Unchanged,
      PoolInv, BeforePool, Reachable, Blocks
<1>10. CASE UnloadUninstall
  <2>1. PICK uninstalled \in BOOLEAN : UninstallAll(uninstalled) /\ FreeProtocols(uninstalled)
    BY <1>10 DEF UnloadUninstall
  <2>2. lpc = "uninstall" /\ lpc' = "returned"
    BY <1>10 DEF UnloadUninstall, Goto
  <2>3. CASE uninstalled
    BY <1>s, <2>1, <2>2, <2>3
    DEF UninstallAll, FreeProtocols, Free, PoolInv, BeforePool, Reachable, Blocks
  <2>4. CASE ~uninstalled
    BY <2>1, <2>2, <2>4 DEF UninstallAll, FreeProtocols, PoolInv, BeforePool, Reachable, Blocks
  <2> QED
    BY <2>3, <2>4
<1>11. CASE KernelOpensProtocol \/ KernelExitsBootServices \/ UNCHANGED vars
  BY <1>11, <1>u DEF KernelOpensProtocol, KernelExitsBootServices, vars, lvars
<1> QED
  BY <1>1, <1>2, <1>3, <1>4, <1>5, <1>6, <1>7, <1>8, <1>9, <1>10, <1>11 DEF Next, Steps, Kernel

(* PoolInv holds in every reachable state.                                 *)
LEMMA PoolInvariant == Spec => []PoolInv
<1>1. Init => PoolInv
  BY DEF Init, PoolInv, BeforePool, Reachable, Blocks
<1> QED
  BY <1>1, PoolStep, TypeCorrect, PTL DEF Spec

(* The protocols installed on the image handle point to live blocks, and   *)
(* no path of PE_handle_image or __unload_pe_file frees one twice.         *)
THEOREM ProtocolsStayLive == Spec => []ProtocolsLive
<1>1. TypeOK /\ PoolInv => ProtocolsLive
  BY DEF TypeOK, Labels, PoolInv, BeforePool, Reachable, Blocks, ProtocolsLive
<1> QED
  BY <1>1, TypeCorrect, PoolInvariant, PTL

-----------------------------------------------------------------------------
(* The pages                                                               *)

(* Leaving PE_handle_image with an error gives back all pages it took.     *)
LEMMA FailFrees ==
  ASSUME TypeOK, PageInv, lpc \in {"idle", "allocate"} \cup Loading, NEW status, Fail(status)
  PROVE  held' = 0
<1>1. img \in Images /\ buf.raw \in Nat /\ buf.pages \in Nat
  BY DEF TypeOK
<1>2. CASE lpc \in {"idle", "allocate"}
  BY <1>2 DEF PageInv, Fail, FreeAlignedBuffer
<1>3. CASE lpc \in Loading /\ buf.raw = NULL
  BY <1>3 DEF PageInv, Fail, FreeAlignedBuffer
<1>4. CASE lpc \in Loading /\ buf.raw # NULL
  <2>1. buf.buffer # NULL
    <3>1. SectionAlignment(img) \in Nat \ {0}
      BY <1>1, AlignmentPositive
    <3>2. buf.raw \in Nat \ {0} /\ buf.buffer = ALIGN_VALUE(buf.raw, SectionAlignment(img))
      BY <1>1, <1>4 DEF PageInv, AlignedBase, NULL
    <3>3. buf.raw <= buf.buffer /\ buf.buffer \in Nat
      BY <3>1, <3>2, AlignBounds
    <3> QED
      BY <3>2, <3>3 DEF NULL
  <2> QED
    BY <1>1, <1>4, <2>1 DEF PageInv, Fail, FreeAlignedBuffer
<1> QED
  BY <1>2, <1>3, <1>4

(* A failure, or a step that keeps the pages and goes on loading.          *)
LEMMA PageLoading ==
  ASSUME TypeOK, PageInv, lpc \in Loading, UNCHANGED <<buf, img>>,
         (\E status : Fail(status)) \/ (lpc' \in Loading /\ UNCHANGED held)
  PROVE  PageInv'
<1>1. CASE \E status : Fail(status)
  <2>1. lpc' = "failed" /\ held' = 0
    BY <1>1, FailFrees DEF Fail, Goto
  <2> QED
    BY <2>1 DEF PageInv, Loading
<1>2. CASE lpc' \in Loading /\ UNCHANGED held
  BY <1>2 DEF PageInv, Loading
<1> QED
  BY <1>1, <1>2

(* PageInv is inductive.                                                   *)
LEMMA PageStep == TypeOK /\ PageInv /\ [Next]_vars => PageInv'
<1> SUFFICES ASSUME TypeOK, PageInv, [Next]_vars PROVE PageInv'
  OBVIOUS
<1>u. CASE UNCHANGED <<lpc, buf, held, img>>
  BY <1>u DEF PageInv
<1>1. CASE HandleImage
  <2>1. CASE \E status : Fail(status)
    <3>1. lpc' = "failed" /\ held' = 0
      BY <1>1, <2>1, FailFrees DEF HandleImage, Fail, Goto
    <3>2. CASE UNCHANGED <<buf, img>>
      BY <3>1, <3>2 DEF PageInv, Loading
    <3> QED
      BY <1>1, <1>u, <3>2 DEF HandleImage, AssertExit, lvars, Unchanged
  <2>2. CASE Goto("allocate") /\ UNCHANGED <<buf, held, img>>
    BY <1>1, <2>2 DEF HandleImage, Goto, PageInv, Loading
  <2> QED
    BY <1>1, <1>u, <2>1, <2>2 DEF HandleImage, AssertExit, lvars, Unchanged
<1>2. CASE AllocatePages
  <2> DEFINE pages == AlignedPages(img.size_of_image, SectionAlignment(img))
  <2>0. lpc' = "headers" /\ img' = img
    BY <1>2 DEF AllocatePages, Goto, Unchanged
  <2>1. ASSUME NEW raw \in RawAddresses,
               buf' = [raw |-> raw, buffer |-> AlignedBase(raw, SectionAlignment(img)),
                       pages |-> pages, free |-> "free_aligned_buffer"],
               held' = pages
        PROVE  PageInv'
    <3>1. raw # NULL
      BY PeLoaderAssumption DEF NULL
    <3> QED
      BY <2>0, <2>1, <3>1 DEF PageInv, Loading
  <2>2. CASE buf' = [NoPages EXCEPT !.free = "free_aligned_buffer"] /\ held' = 0
    BY <2>0, <2>2 DEF PageInv, Loading, NoPages
  <2> QED
    BY <1>2, <2>1, <2>2 DEF AllocatePages
<1>3. CASE CopyHeaders
  BY <1>3, <1>u, PageLoading DEF CopyHeaders, lvars, Goto, Unchanged, Loading
<1>4. CASE RelocateSections
  BY <1>4, <1>u, PageLoading DEF RelocateSections, AssertExit, lvars, Goto, Unchanged, Loading
<1>5. CASE RelocationFixup
  BY <1>5, PageLoading DEF RelocationFixup, Goto, Unchanged, Loading
<1>6. CASE CreateDevicePath \/ CreateLoadedImage
  BY <1>6, PageLoading DEF CreateDevicePath, CreateLoadedImage, Goto, Unchanged, Loading
<1>7. CASE Install
  <2>1. CASE InstallFailed /\ UNCHANGED <<buf, protocols>>
    BY <1>7, <2>1, PageLoading DEF Install, InstallFailed, Unchanged, Loading
  <2>2. CASE buf' = Disowned(buf) /\ FreeAlignedBuffer(Disowned(buf)) /\ Goto("loaded")
    <3>1. /\ Disowned(buf).raw = buf.raw /\ Disowned(buf).buffer = buf.buffer
          /\ Disowned(buf).pages = buf.pages /\ Disowned(buf).free = "NULL"
      BY DEF TypeOK, Disowned
    <3>2. held' = held /\ lpc = "install" /\ lpc' = "loaded" /\ img' = img
      BY <1>7, <2>2, <3>1 DEF Install, FreeAlignedBuffer, Goto, Unchanged
    <3> QED
      BY <2>2, <3>1, <3>2 DEF PageInv, Loading
  <2> QED
    BY <1>7, <2>1, <2>2 DEF Install
<1>8. CASE StartImage \/ KernelReturns \/ UnloadUninstall
  BY <1>8, <1>u
  DEF StartImage, KernelReturns, UnloadUninstall, AssertExit, lvars, Goto, Unchanged, PageInv,
      Loading
<1>9. CASE UnloadOpen
  BY <1>9 DEF UnloadOpen, UnloadLabel, Goto, Unchanged, PageInv, Loading
<1>10. CASE KernelOpensProtocol \/ KernelExitsBootServices \/ UNCHANGED vars
  BY <1>10, <1>u DEF KernelOpensProtocol, KernelExitsBootServices, vars, lvars
<1> QED
  BY <1>1, <1>2, <1>3, <1>4, <1>5, <1>6, <1>7, <1>8, <1>9, <1>10 DEF Next, Steps, Kernel

(* PageInv holds in every reachable state.                                 *)
LEMMA PageInvariant == Spec => []PageInv
<1>1. Init => PageInv
  BY DEF Init, PageInv, Loading, NoPages
<1> QED
  BY <1>1, PageStep, TypeCorrect, PTL DEF Spec

(* Every error return of PE_handle_image gives back the pages, both pool   *)
(* blocks and the handle.                                                  *)
THEOREM FailureGivesBack == Spec => []FailureReleases
<1>1. PoolInv /\ PageInv => FailureReleases
  BY DEF PoolInv, PageInv, FailureReleases
<1> QED
  BY <1>1, PoolInvariant, PageInvariant, PTL

(* When the kernel is entered all pages that were asked for are still      *)
(* there, and its handle has both protocols: clearing data->free before    *)
(* the cleanup handler runs is what keeps them.  The one way to a kernel   *)
(* without pages is the failed allocation nobody looked at, and then the   *)
(* image is at address 0.                                                  *)
THEOREM KernelKeepsPages == Spec => []KernelPagesHeld
<1>1. PoolInv /\ PageInv => KernelPagesHeld
  BY DEF PoolInv, PageInv, Reachable, KernelPagesHeld
<1> QED
  BY <1>1, PoolInvariant, PageInvariant, PTL

(* Whatever the sizes: the pages asked for reach from the aligned base to  *)
(* the end of the image, if the alignment is a multiple of the page size.  *)
THEOREM ImageFits == Spec => []AlignedImageFits
<1>1. TypeOK /\ PageInv => AlignedImageFits
  <2> SUFFICES ASSUME TypeOK, PageInv, buf.raw # NULL, SectionAlignment(img) % PAGE_SIZE = 0
               PROVE  buf.buffer + img.size_of_image <= buf.raw + buf.pages * PAGE_SIZE
    BY DEF AlignedImageFits
  <2>1. img \in Images /\ buf.raw \in Nat
    BY DEF TypeOK
  <2>2. /\ buf.buffer = AlignedBase(buf.raw, SectionAlignment(img))
        /\ buf.pages = AlignedPages(img.size_of_image, SectionAlignment(img))
    BY DEF PageInv
  <2>3. AlignedBase(buf.raw, SectionAlignment(img)) + img.size_of_image
          <= buf.raw + AlignedPages(img.size_of_image, SectionAlignment(img)) * PAGE_SIZE
    BY <2>1, PagesCover
  <2> QED
    BY <2>2, <2>3
<1> QED
  BY <1>1, TypeCorrect, PageInvariant, PTL

-----------------------------------------------------------------------------
(* The layout of the new image                                             *)

AfterCopy == {"fixup", "device_path", "loaded_image", "install", "loaded", "kernel"}

(* The headers are copied first, the sections over them, and nothing is    *)
(* written afterwards.                                                     *)
LayoutInv ==
  /\ lpc = "sections" => mem = HeaderBytes(img)
  /\ lpc \in AfterCopy /\ img.number_of_RVA_and_sizes > 5
       => mem = SectionBytes(img, HeaderBytes(img))

LEMMA LayoutStep == TypeOK /\ LayoutInv /\ [Next]_vars => LayoutInv'
<1> SUFFICES ASSUME TypeOK, LayoutInv, [Next]_vars PROVE LayoutInv'
  OBVIOUS
<1>i. img.number_of_RVA_and_sizes \in Nat
  BY PeLoaderAssumption DEF TypeOK
<1>u. ASSUME UNCHANGED <<img, mem>>, lpc' \in AfterCopy => lpc \in AfterCopy, lpc' # "sections"
      PROVE  LayoutInv'
  BY <1>u DEF LayoutInv
<1>x. ASSUME UNCHANGED lvars PROVE LayoutInv'
  BY <1>x DEF LayoutInv, lvars
<1>1. CASE HandleImage
  BY <1>1, <1>x, <1>u DEF HandleImage, AssertExit, Fail, Goto, Unchanged, AfterCopy
<1>2. CASE AllocatePages
  <2>1. lpc' = "headers" /\ UNCHANGED <<img, mem>>
    BY <1>2 DEF AllocatePages, Goto, Unchanged
  <2> QED
    BY <2>1, <1>u DEF AfterCopy
<1>3. CASE CopyHeaders
  BY <1>3, <1>x DEF CopyHeaders, Fail, Goto, Unchanged, LayoutInv, AfterCopy
<1>4. CASE RelocateSections
  <2>1. CASE AssertExit
    BY <2>1, <1>x DEF AssertExit
  <2>2. lpc = "sections" /\ mem = HeaderBytes(img)
    BY <1>4 DEF RelocateSections, LayoutInv
  <2> QED
    BY <1>4, <1>i, <1>u, <2>1, <2>2
    DEF RelocateSections, Fail, Goto, Unchanged, LayoutInv, AfterCopy
<1>5. CASE RelocationFixup
  BY <1>5, <1>u DEF RelocationFixup, Fail, Goto, Unchanged, AfterCopy
<1>6. CASE CreateDevicePath \/ CreateLoadedImage
  BY <1>6, <1>u DEF CreateDevicePath, CreateLoadedImage, Fail, Goto, Unchanged, AfterCopy
<1>7. CASE Install
  BY <1>7, <1>u DEF Install, InstallFailed, Fail, Goto, Unchanged, AfterCopy
<1>8. CASE StartImage
  BY <1>8, <1>u, <1>x DEF StartImage, AssertExit, Goto, Unchanged, AfterCopy
<1>9. CASE UnloadOpen \/ UnloadUninstall \/ KernelReturns
  BY <1>9, <1>u
  DEF UnloadOpen, UnloadUninstall, KernelReturns, UnloadLabel, Goto, Unchanged, AfterCopy
<1>10. CASE KernelOpensProtocol
  BY <1>10, <1>u DEF KernelOpensProtocol, AfterCopy
<1>11. CASE KernelExitsBootServices \/ UNCHANGED vars
  BY <1>11, <1>x DEF KernelExitsBootServices, vars
<1> QED
  BY <1>1, <1>2, <1>3, <1>4, <1>5, <1>6, <1>7, <1>8, <1>9, <1>10, <1>11 DEF Next, Steps, Kernel

(* LayoutInv holds in every reachable state.                               *)
LEMMA LayoutInvariant == Spec => []LayoutInv
<1>1. Init => LayoutInv
  BY DEF Init, LayoutInv, AfterCopy
<1> QED
  BY <1>1, LayoutStep, TypeCorrect, PTL DEF Spec

LEMMA MaxOfTwo ==
  ASSUME NEW a \in Int, NEW b \in Int
  PROVE  Max({a, b}) = IF a >= b THEN a ELSE b
<1>1. PICK m \in {a, b} : \A y \in {a, b} : m >= y
  OBVIOUS
<1>2. \A x \in {a, b} : (\A y \in {a, b} : x >= y) => x = m
  BY <1>1
<1> QED
  BY <1>1, <1>2 DEF Max

(* A set of natural numbers has a least element.                           *)
LEMMA Least ==
  ASSUME NEW N \in SUBSET Nat, N # {}
  PROVE  \E x \in N : \A y \in N : x <= y
<1>1. PICK x \in N : \A y \in N : ~(<<y, x>> \in OpToRel(<, Nat))
  BY NatLessThanWellFounded, WFMin
<1>2. ASSUME NEW y \in N PROVE x <= y
  <2>1. ~(<<y, x>> \in OpToRel(<, Nat))
    BY <1>1
  <2>2. ~(y < x)
    BY <2>1 DEF OpToRel
  <2> QED
    BY <2>2
<1> QED
  BY <1>2

LEMMA ElementType ==
  ASSUME NEW R, NEW s \in Seq(R)
  PROVE  /\ Len(s) \in Nat /\ DOMAIN s = 1 .. Len(s)
         /\ \A i \in 1 .. Len(s) : s[i] \in R
OBVIOUS

(* The fields of the sections of an image.                                 *)
Va(i) == img.sections[i].virtual_address
Top(i) == Va(i) + Max({img.sections[i].virtual_size, img.sections[i].size_of_raw_data})

LEMMA SectionTypes ==
  ASSUME img \in Images
  PROVE  /\ Len(img.sections) \in Nat /\ DOMAIN img.sections = 1 .. Len(img.sections)
         /\ \A i \in 1 .. Len(img.sections) :
              /\ img.sections[i] \in [name : STRING, virtual_address : Nat, virtual_size : Nat,
                                      pointer_to_raw_data : Nat, size_of_raw_data : Nat,
                                      discardable : BOOLEAN, uninitialized : BOOLEAN]
              /\ Va(i) \in Nat /\ Top(i) \in Nat /\ Va(i) <= Top(i)
              /\ img.sections[i].virtual_size \in Nat /\ img.sections[i].size_of_raw_data \in Nat
              /\ Top(i) >= Va(i) + img.sections[i].virtual_size
              /\ Top(i) >= Va(i) + img.sections[i].size_of_raw_data
<1> DEFINE R == [name : STRING, virtual_address : Nat, virtual_size : Nat,
                 pointer_to_raw_data : Nat, size_of_raw_data : Nat,
                 discardable : BOOLEAN, uninitialized : BOOLEAN]
<1>1. img.sections \in Seq(R)
  BY PeLoaderAssumption
<1>2. /\ Len(img.sections) \in Nat /\ DOMAIN img.sections = 1 .. Len(img.sections)
      /\ \A i \in 1 .. Len(img.sections) : img.sections[i] \in R
  BY <1>1, ElementType, Zenon
<1>3. ASSUME NEW i \in 1 .. Len(img.sections)
      PROVE  /\ Va(i) \in Nat /\ Top(i) \in Nat /\ Va(i) <= Top(i)
             /\ img.sections[i].virtual_size \in Nat /\ img.sections[i].size_of_raw_data \in Nat
             /\ Top(i) >= Va(i) + img.sections[i].virtual_size
             /\ Top(i) >= Va(i) + img.sections[i].size_of_raw_data
  <2> DEFINE v == img.sections[i].virtual_size
             r == img.sections[i].size_of_raw_data
  <2>1. Va(i) \in Nat /\ v \in Nat /\ r \in Nat
    BY <1>2, <1>3 DEF Va
  <2>2. Top(i) = Va(i) + Max({v, r})
    BY DEF Top
  <2> HIDE DEF v, r
  <2>3. Max({v, r}) = IF v >= r THEN v ELSE r
    BY <2>1, MaxOfTwo
  <2>4. /\ Top(i) \in Nat /\ Va(i) <= Top(i) /\ Top(i) >= Va(i) + v /\ Top(i) >= Va(i) + r
    BY <2>1, <2>2, <2>3
  <2> QED
    BY <2>1, <2>4 DEF v, r
<1> QED
  BY <1>2, <1>3

LEMMA WellFormedParts ==
  ASSUME img \in Images, WellFormed(img), NEW i \in DOMAIN img.sections
  PROVE  /\ Va(i) >= img.size_of_headers /\ Top(i) <= img.size_of_image
         /\ i < Len(img.sections) => Top(i) <= Va(i + 1)
BY DEF WellFormed, Va, Top

(* A linker orders neighbouring sections; so all of them are apart.  The   *)
(* least section that is not beyond section i would have a predecessor     *)
(* that is.                                                                *)
LEMMA Apart ==
  ASSUME img \in Images, WellFormed(img),
         NEW i \in DOMAIN img.sections, NEW j \in DOMAIN img.sections, i < j
  PROVE  Top(i) <= Va(j)
<1>1. /\ Len(img.sections) \in Nat /\ DOMAIN img.sections = 1 .. Len(img.sections)
      /\ \A k \in 1 .. Len(img.sections) : Va(k) \in Nat /\ Top(k) \in Nat /\ Va(k) <= Top(k)
  BY SectionTypes
<1> DEFINE n == Len(img.sections)
           bad == {k \in Nat : k \in 1 .. n /\ i < k /\ ~(Top(i) <= Va(k))}
<1>2. \A k \in bad : k \in 1 .. n /\ i < k /\ ~(Top(i) <= Va(k))
  OBVIOUS
<1>3. \A k \in Nat : k \in 1 .. n /\ i < k /\ ~(Top(i) <= Va(k)) => k \in bad
  OBVIOUS
<1>4. bad \in SUBSET Nat
  OBVIOUS
<1>5. \A k \in 1 .. n : k < n => Top(k) <= Va(k + 1)
  BY <1>1, WellFormedParts
<1>6. i \in 1 .. n /\ j \in 1 .. n /\ n \in Nat
  BY <1>1
<1>7. \A k \in 1 .. n : Va(k) \in Nat /\ Top(k) \in Nat /\ Va(k) <= Top(k)
  BY <1>1
<1> HIDE DEF bad, n
<1>8. ASSUME bad # {} PROVE FALSE
  <2>1. PICK m \in bad : \A k \in bad : m <= k
    BY <1>4, <1>8, Least
  <2> DEFINE p == m - 1
  <2>2. m \in 1 .. n /\ i < m /\ ~(Top(i) <= Va(m))
    BY <1>2, <2>1
  <2>3. p \in 1 .. n /\ p < n /\ m = p + 1 /\ i <= p /\ ~(m <= p) /\ p \in Nat
    BY <1>6, <2>2
  <2> HIDE DEF p
  <2>4. p \notin bad
    BY <2>1, <2>3
  <2>5. Top(p) <= Va(m)
    BY <1>5, <2>3
  <2>6. p # i
    BY <2>2, <2>5
  <2>7. Top(i) <= Va(p)
    BY <1>3, <1>6, <2>3, <2>4, <2>6
  <2>8. Va(p) \in Nat /\ Top(p) \in Nat /\ Va(p) <= Top(p) /\ Va(m) \in Nat /\ Top(i) \in Nat
    BY <1>6, <1>7, <2>2, <2>3
  <2> QED
    BY <2>2, <2>5, <2>7, <2>8
<1> QED
  BY <1>3, <1>6, <1>8

(* The copied section is the only one that writes to its bytes, and what   *)
(* it writes is what the PE format says.                                   *)
LEMMA Placed ==
  ASSUME img \in Images, WellFormed(img), NEW i \in DOMAIN img.sections,
         ~img.sections[i].discardable,
         NEW a \in Va(i) .. Va(i) + img.sections[i].virtual_size - 1
  PROVE  SectionBytes(img, HeaderBytes(img))[a] = ReferenceByte(img.sections[i], a)
<1>1. /\ Len(img.sections) \in Nat /\ DOMAIN img.sections = 1 .. Len(img.sections)
      /\ img.size_of_headers \in Nat /\ img.size_of_image \in Nat
  BY SectionTypes, PeLoaderAssumption
<1>2. ASSUME NEW k \in DOMAIN img.sections
      PROVE  /\ k \in Nat /\ Va(k) \in Nat /\ Top(k) \in Nat
             /\ img.sections[k].virtual_size \in Nat /\ img.sections[k].size_of_raw_data \in Nat
             /\ Top(k) >= Va(k) + img.sections[k].virtual_size
             /\ Top(k) >= Va(k) + img.sections[k].size_of_raw_data
  <2>1. k \in 1 .. Len(img.sections)
    BY <1>1, <1>2
  <2>2. k \in Nat
    BY <1>1, <2>1
  <2> QED
    BY <2>1, <2>2, SectionTypes, Zenon
<1>3. a \in Nat /\ Va(i) <= a /\ a < Top(i)
  BY <1>2
<1>4. a \in DOMAIN HeaderBytes(img)
  <2>1. Top(i) <= img.size_of_image
    BY WellFormedParts
  <2>2. a \in 0 .. img.size_of_image - 1
    BY <1>1, <1>2, <1>3, <2>1
  <2> QED
    BY <2>2 DEF HeaderBytes
<1>5. SectionWrites(img.sections[i], a)
  <2> DEFINE v == img.sections[i].virtual_size
             r == img.sections[i].size_of_raw_data
             top == IF img.sections[i].uninitialized THEN v ELSE Max({v, r})
  <2>1. v \in Nat /\ r \in Nat /\ a \in Va(i) .. Va(i) + v - 1 /\ Va(i) \in Nat
    BY <1>2
  <2>2. Max({v, r}) = IF v >= r THEN v ELSE r
    <3> HIDE DEF v, r
    <3> QED
      BY <2>1, MaxOfTwo
  <2>3. top \in Nat /\ top >= v
    <3> HIDE DEF v, r
    <3> QED
      BY <2>1, <2>2
  <2>4. a \in Va(i) .. Va(i) + top - 1
    <3> HIDE DEF v, r, top
    <3> QED
      BY <2>1, <2>3
  <2> QED
    BY <2>4 DEF SectionWrites, Va
<1>6. ASSUME NEW k \in DOMAIN img.sections, SectionWrites(img.sections[k], a)
      PROVE  k = i
  <2> DEFINE v == img.sections[k].virtual_size
             r == img.sections[k].size_of_raw_data
             top == IF img.sections[k].uninitialized THEN v ELSE Max({v, r})
  <2>1. a \in Va(k) .. Va(k) + top - 1
    BY <1>6 DEF SectionWrites, Va
  <2>2. v \in Nat /\ r \in Nat /\ Va(k) \in Nat /\ Top(k) = Va(k) + Max({v, r})
    BY <1>2 DEF Top
  <2>3. Max({v, r}) = IF v >= r THEN v ELSE r
    <3>1. v \in Int /\ r \in Int
      BY <2>2
    <3> QED
      BY <3>1, MaxOfTwo, Zenon
  <2>4. top \in Nat /\ Va(k) + top <= Top(k)
    <3> HIDE DEF v, r
    <3> QED
      BY <2>2, <2>3
  <2>5. Va(k) <= a /\ a < Top(k)
    <3> HIDE DEF top
    <3> QED
      BY <1>2, <2>1, <2>2, <2>4
  <2>6. CASE k < i
    BY <1>2, <1>3, <2>5, <2>6, Apart
  <2>7. CASE i < k
    BY <1>2, <1>3, <2>5, <2>7, Apart
  <2>8. k \in Nat /\ i \in Nat
    BY <1>2
  <2> QED
    BY <2>6, <2>7, <2>8
<1> DEFINE writers == {k \in DOMAIN img.sections : SectionWrites(img.sections[k], a)}
<1>7. writers = {i}
  BY <1>5, <1>6
<1>8. Max({i}) = i
  <2>1. i \in Int
    BY <1>2
  <2> QED
    BY <2>1, MaxOfTwo
<1>9. SectionBytes(img, HeaderBytes(img))[a] = SectionByte(img.sections[i], a)
  <2>1. SectionBytes(img, HeaderBytes(img))[a]
          = IF writers = {} THEN HeaderBytes(img)[a] ELSE SectionByte(img.sections[Max(writers)], a)
    BY <1>4, Zenon DEF SectionBytes
  <2> HIDE DEF writers
  <2> QED
    BY <1>7, <1>8, <2>1
<1> DEFINE d == a - Va(i)
           r == img.sections[i].size_of_raw_data
<1>10. (d < r) <=> ~(d >= r)
  BY <1>2, <1>3
<1> QED
  BY <1>9, <1>10 DEF SectionByte, ReferenceByte, Va

(* The kernel finds every section where its linker put it, complete and    *)
(* padded with zeroes, for every image with well-formed sections.          *)
THEOREM SectionsAreInPlace == Spec => []SectionsInPlace
<1>1. TypeOK /\ LayoutInv => SectionsInPlace
  <2> SUFFICES ASSUME TypeOK, LayoutInv, lpc = "kernel", WellFormed(img),
                      img.number_of_RVA_and_sizes > 5, NEW i \in DOMAIN img.sections,
                      ~img.sections[i].discardable,
                      NEW a \in Va(i) .. Va(i) + img.sections[i].virtual_size - 1
               PROVE  mem[a] = ReferenceByte(img.sections[i], a)
    BY DEF SectionsInPlace, Va
  <2>1. mem = SectionBytes(img, HeaderBytes(img))
    BY DEF LayoutInv, AfterCopy
  <2>2. img \in Images
    BY DEF TypeOK
  <2> QED
    BY <2>1, <2>2, Placed
<1> QED
  BY <1>1, TypeCorrect, LayoutInvariant, PTL
=============================================================================

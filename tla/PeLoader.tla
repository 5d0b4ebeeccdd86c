------------------------------ MODULE PeLoader ------------------------------
(***************************************************************************)
(* PE_handle_image(), execute_image_from_memory() and __unload_pe_file():  *)
(* the kernel in image_data is laid out in fresh pages, gets a handle with *)
(* a LoadedImage and a LoadedImageDevicePath protocol, is called, and is   *)
(* unloaded should it ever return.                                         *)
(*                                                                         *)
(* Two resources matter: pages (`held' pages from address buf.raw) and the *)
(* pool blocks "dp" (device path) and "lp" (LoadedImage) that the handle's *)
(* protocols point to.                                                     *)
(***************************************************************************)
EXTENDS EfiBase, PeImage

CONSTANTS
  Images,         \* the kernels to consider, see PeImage
  RawAddresses,   \* page addresses the firmware may hand out
  SourceBase      \* address of the unpacked kernel in the pool

ASSUME PeLoaderAssumption ==
  /\ RawAddresses \subseteq Nat \ {0} /\ SourceBase \in Nat \ {0}
  /\ \A i \in Images :
       /\ i.size_of_image \in Nat /\ i.entry_point \in Nat
       /\ i.section_alignment \in Nat /\ i.file_alignment \in Nat
       /\ i.size_of_headers \in Nat /\ i.number_of_RVA_and_sizes \in Nat
       /\ i.sections \in Seq([name : STRING, virtual_address : Nat, virtual_size : Nat,
                              pointer_to_raw_data : Nat, size_of_raw_data : Nat,
                              discardable : BOOLEAN, uninitialized : BOOLEAN])

VARIABLES
  lpc,          \* where the loader is
  img,          \* the kernel
  image_data,   \* simple_buffer holding it
  options,      \* simple_buffer with the command line
  buf,          \* struct aligned_buffer of PE_handle_image
  held,         \* pages still allocated at buf.raw
  mem,          \* contents of the new image
  entry,        \* *entry_point
  protocols,    \* what is installed on the image handle
  blocked,      \* protocols of the handle that someone else holds open
  lerr,         \* status to return
  heap, stub

lvars == <<lpc, img, buf, held, mem, entry, protocols, blocked, lerr>>
vars == <<lvars, image_data, options, heap, stub>>

NoPages == [raw |-> NULL, buffer |-> NULL, pages |-> 0, free |-> "NULL"]

Running == stub = "running"

Init ==
  /\ lpc = "idle"
  /\ img \in Images
  /\ image_data \in {[NullBuffer EXCEPT !.buffer = "section", !.length = n, !.allocated = 1] :
                       n \in {0, 1}}
  /\ options \in {NullBuffer, [NullBuffer EXCEPT !.buffer = "options", !.length = 1,
                                                 !.allocated = 1]}
  /\ buf = NoPages /\ held = 0 /\ mem = <<>> /\ entry = NULL
  /\ protocols = {} /\ blocked = {} /\ lerr = "EFI_SUCCESS"
  /\ heap = [b \in {"dp", "lp"} |-> "none"]
  /\ stub = "running"

Goto(label) == lpc' = label

AssertExit == stub' = "exited" /\ UNCHANGED <<lvars, image_data, options, heap>>

-----------------------------------------------------------------------------
(***************************************************************************)
(* Leaving PE_handle_image runs _cleanup_buffer on buf: free_aligned_buffer *)
(* gives the pages back unless data->free was set to NULL.                 *)
(***************************************************************************)
FreeAlignedBuffer(b) ==
  held' = IF b.buffer # NULL /\ b.free # "NULL" /\ b.pages > 0 /\ b.raw # NULL
          THEN 0 ELSE held

(* An error return of PE_handle_image, passed on to efi_main.              *)
Fail(status) == Goto("failed") /\ lerr' = status /\ FreeAlignedBuffer(buf)

Unchanged(rest) == UNCHANGED <<img, image_data, options, blocked, stub>> /\ UNCHANGED rest

(* Parameter checks and read_headers().                                    *)
HandleImage ==
  /\ Running /\ lpc = "idle"
  /\ IF AssertFails(BufferLenOk(image_data))
     THEN AssertExit
     ELSE LET status == IF image_data.buffer = "NULL" \/ BufferLen(image_data) = 0
                        THEN "EFI_INVALID_PARAMETER" ELSE read_headers(img)
          IN  /\ IF EfiError(status)
                 THEN Fail(status)
                 ELSE Goto("allocate") /\ UNCHANGED <<held, lerr>>
              /\ Unchanged(<<buf, mem, entry, protocols, heap>>)

(* allocate_aligned_buffer_ext(); its result is not looked at.             *)
AllocatePages ==
  /\ Running /\ lpc = "allocate"
  /\ LET alignment == SectionAlignment(img)
         pages     == AlignedPages(img.size_of_image, alignment)
     IN  \/ \E raw \in RawAddresses :
              /\ buf' = [raw |-> raw, buffer |-> AlignedBase(raw, alignment),
                         pages |-> pages, free |-> "free_aligned_buffer"]
              /\ held' = pages
         \/ buf' = [NoPages EXCEPT !.free = "free_aligned_buffer"] /\ held' = 0
  /\ Goto("headers")
  /\ Unchanged(<<mem, entry, protocols, lerr, heap>>)

(* Copy the headers and compute the entry point.  Without pages this       *)
(* writes to address 0: a fault, or a write nobody notices.                *)
CopyHeaders ==
  /\ Running /\ lpc = "headers"
  /\ \/ /\ buf.buffer = NULL /\ stub' = "crashed"
        /\ UNCHANGED <<lvars, image_data, options, heap>>
     \/ LET e == image_address(buf.buffer, img.size_of_image, img.entry_point)
        IN  /\ mem' = HeaderBytes(img) /\ entry' = e
            /\ IF e = NULL
               THEN Fail("EFI_LOAD_ERROR")
               ELSE Goto("sections") /\ UNCHANGED <<held, lerr>>
            /\ Unchanged(<<buf, protocols, heap>>)

(* relocate_sections(), skipped when the data directory is too short to    *)
(* have a relocation entry.                                                *)
RelocateSections ==
  /\ Running /\ lpc = "sections"
  /\ IF img.number_of_RVA_and_sizes <= 5
     THEN Goto("device_path") /\ Unchanged(<<buf, held, mem, entry, protocols, lerr, heap>>)
     ELSE IF AssertFails(buf.buffer # NULL)
     THEN AssertExit
     ELSE /\ IF EfiError(relocate_sections(img, buf.buffer))
             THEN Fail("EFI_LOAD_ERROR") /\ UNCHANGED mem
             ELSE /\ mem' = SectionBytes(img, mem)
                  /\ Goto("fixup") /\ UNCHANGED <<held, lerr>>
          /\ Unchanged(<<buf, entry, protocols, heap>>)

(* relocation_fixup(), if there is a .reloc section that fits the          *)
(* directory and the directory is not empty.                               *)
RelocationFixup ==
  /\ Running /\ lpc = "fixup"
  /\ LET found == RelocSections(img, buf.buffer)
         statuses == IF found = {} \/ img.reloc_directory.size = 0 THEN {"EFI_SUCCESS"}
                     ELSE relocation_fixup(img, SourceBase, buf.buffer,
                                           img.sections[Min(found)])
     IN  \E status \in statuses :
           IF EfiError(status)
           THEN Fail(status)
           ELSE Goto("device_path") /\ UNCHANGED <<held, lerr>>
  /\ Unchanged(<<buf, mem, entry, protocols, heap>>)

CreateDevicePath ==
  /\ Running /\ lpc = "device_path"
  /\ \/ Fail("EFI_OUT_OF_RESOURCES") /\ UNCHANGED heap
     \/ heap' = Malloc(heap, "dp") /\ Goto("loaded_image") /\ UNCHANGED <<held, lerr>>
  /\ Unchanged(<<buf, mem, entry, protocols>>)

KeepDevicePath == heap' = heap

FreeDevicePath == heap' = Free(heap, "dp")

CreateLoadedImage ==
  /\ Running /\ lpc = "loaded_image"
  /\ \/ Fail("EFI_OUT_OF_RESOURCES") /\ FreeDevicePath
     \/ heap' = Malloc(heap, "lp") /\ Goto("install") /\ UNCHANGED <<held, lerr>>
  /\ Unchanged(<<buf, mem, entry, protocols>>)

StillOwned(b) == b

(* data->free = NULL: leaving the function no longer frees the pages.      *)
Disowned(b) == [b EXCEPT !.free = "NULL"]

InstallRetried ==
  heap' = Free(Free(heap, "dp"), "lp") /\ Goto("device_path") /\ UNCHANGED <<lerr, held>>

InstallFailed ==
  heap' = Free(Free(heap, "dp"), "lp") /\ Fail("EFI_OUT_OF_RESOURCES")

(* A new handle with both protocols, or none if the firmware refuses.      *)
Install ==
  /\ Running /\ lpc = "install"
  /\ \/ InstallFailed /\ UNCHANGED <<buf, protocols>>
     \/ /\ protocols' = {"lp", "dp"}
        /\ buf' = Disowned(buf) /\ FreeAlignedBuffer(Disowned(buf))
        /\ Goto("loaded") /\ lerr' = "EFI_SUCCESS" /\ UNCHANGED heap
  /\ Unchanged(<<mem, entry>>)

-----------------------------------------------------------------------------
(* execute_image_from_memory(): pass the command line on and call the      *)
(* kernel.  buffer_len(options) asserts that there is one.                 *)
StartImage ==
  /\ Running /\ lpc = "loaded"
  /\ IF AssertFails(BufferLenOk(options))
     THEN AssertExit
     ELSE Goto("kernel") /\ Unchanged(<<buf, held, mem, entry, protocols, lerr, heap>>)

(* The kernel.  While it runs it may open protocols of its own handle and  *)
(* leave them open; it ends by taking the machine over with                *)
(* ExitBootServices or by returning a status to the stub.                  *)
KernelOpensProtocol ==
  /\ Running /\ lpc = "kernel"
  /\ \E p \in protocols \ blocked : blocked' = blocked \cup {p}
  /\ UNCHANGED <<lpc, img, buf, held, mem, entry, protocols, lerr,
                 image_data, options, heap, stub>>

KernelExitsBootServices ==
  /\ Running /\ lpc = "kernel"
  /\ stub' = "replaced"
  /\ UNCHANGED <<lvars, image_data, options, heap>>

KernelReturns ==
  /\ Running /\ lpc = "kernel"
  /\ \E status \in {"EFI_SUCCESS", "EFI_LOAD_ERROR"} : lerr' = status
  /\ Goto("unload")
  /\ Unchanged(<<buf, held, mem, entry, protocols, heap>>)

-----------------------------------------------------------------------------
(* __unload_pe_file(); execute_image_from_memory() ignores its result.     *)

(* free_pages() only accepts an allocation of the size asked for; the page *)
(* count is computed from dp->start - dp->end.                             *)
UnloadPages ==
  ((buf.raw - (buf.raw + buf.pages * PAGE_SIZE)) % U64) \div PAGE_SIZE

UnloadLabelRetry == IF blocked = {} THEN "uninstall" ELSE "unload"

(* Either of the two exclusive opens may be refused.                       *)
UnloadLabel == IF blocked = {} THEN "uninstall" ELSE "returned"

(* The pages go as soon as the device path could be opened exclusively,    *)
(* before the LoadedImage protocol is opened as well.                      *)
UnloadOpen ==
  /\ Running /\ lpc = "unload"
  /\ held' = IF "dp" \notin blocked /\ UnloadPages = held THEN 0 ELSE held
  /\ Goto(UnloadLabel)
  /\ Unchanged(<<buf, mem, entry, protocols, lerr, heap>>)

FreeProtocolsAlways(uninstalled) == heap' = Free(Free(heap, "lp"), "dp")

FreeProtocols(uninstalled) ==
  heap' = IF uninstalled THEN Free(Free(heap, "lp"), "dp") ELSE heap

UninstallAll(uninstalled) == protocols' = IF uninstalled THEN {} ELSE protocols

(* The handle is destroyed, or the firmware refuses and all stays.         *)
UnloadUninstall ==
  /\ Running /\ lpc = "uninstall"
  /\ \E uninstalled \in BOOLEAN :
       /\ UninstallAll(uninstalled)
       /\ FreeProtocols(uninstalled)
  /\ Goto("returned")
  /\ Unchanged(<<buf, held, mem, entry, lerr>>)

-----------------------------------------------------------------------------
Finished == lpc \in {"failed", "returned"} \/ ~Running

(* What the loader does of itself, and what the kernel does.               *)
Steps ==
  \/ AllocatePages \/ CopyHeaders \/ RelocateSections \/ RelocationFixup
  \/ CreateDevicePath \/ CreateLoadedImage \/ Install \/ StartImage
  \/ UnloadOpen \/ UnloadUninstall

Kernel == KernelOpensProtocol \/ KernelExitsBootServices \/ KernelReturns

Next == HandleImage \/ Steps \/ Kernel \/ (Finished /\ UNCHANGED vars)

Spec == Init /\ [][Next]_vars /\ WF_vars(HandleImage \/ Steps)

-----------------------------------------------------------------------------
(* Properties                                                              *)

Labels ==
  {"idle", "allocate", "headers", "sections", "fixup", "device_path",
   "loaded_image", "install", "loaded", "kernel", "unload", "uninstall",
   "returned", "failed"}

(* Type invariant.                                                         *)
TypeOK ==
  /\ lpc \in Labels
  /\ img \in Images
  /\ buf \in [raw : Nat, buffer : Nat, pages : Nat, free : {"NULL", "free_aligned_buffer"}]
  /\ held \in Nat /\ entry \in Nat
  /\ protocols \in {{}, {"lp", "dp"}} /\ blocked \subseteq {"lp", "dp"}
  /\ heap \in [{"dp", "lp"} -> BlockState]
  /\ stub \in {"running", "exited", "crashed", "replaced"}

(* Every error return of PE_handle_image gives everything back: the pages, *)
(* the device path, the LoadedImage structure, the handle.                 *)
FailureReleases ==
  lpc = "failed" =>
    held = 0 /\ protocols = {} /\ heap["dp"] # "live" /\ heap["lp"] # "live"

(* The protocols on the image handle always point to live pool blocks, and *)
(* no block is ever freed twice, whichever of the two unload steps the     *)
(* firmware refuses.                                                       *)
ProtocolsLive ==
  /\ \A p \in protocols : heap[p] = "live"
  /\ heap["dp"] # "corrupt" /\ heap["lp"] # "corrupt"

(* The pages asked for are still allocated, all of them, from the moment   *)
(* the image is reachable through its handle until it is unloaded: the     *)
(* kernel never runs in memory that was given back.  Where the allocation  *)
(* failed and nobody looked (buf.raw is NULL), there is nothing to hold:   *)
(* an image that is started nevertheless is at address 0, in memory that   *)
(* was never the loader's.                                                 *)
KernelPagesHeld ==
  lpc \in {"loaded", "kernel"} =>
    /\ protocols = {"lp", "dp"}
    /\ IF buf.raw = NULL THEN buf.buffer = NULL /\ held = 0
       ELSE held = AlignedPages(img.size_of_image, SectionAlignment(img))

(* When the kernel is entered, every byte of every section that is not     *)
(* discardable is what the PE format says, whatever lies in the raw data   *)
(* beyond the virtual size.  Images whose data directory has no relocation *)
(* entry are left out: PE_handle_image does not copy their sections.       *)
SectionsInPlace ==
  lpc = "kernel" /\ WellFormed(img) /\ img.number_of_RVA_and_sizes > 5 =>
    \A i \in DOMAIN img.sections :
      LET sec == img.sections[i]
      IN  ~sec.discardable =>
            \A a \in sec.virtual_address .. sec.virtual_address + sec.virtual_size - 1 :
              mem[a] = ReferenceByte(sec, a)

(* The pages cover the image from the aligned base up to size_of_image     *)
(* when the section alignment is a multiple of the page size; with a       *)
(* smaller alignment allocate_aligned_buffer_ext may ask for too few.      *)
AlignedImageFits ==
  /\ lpc = "kernel" /\ buf.raw # NULL
  /\ SectionAlignment(img) % PAGE_SIZE = 0
  => buf.buffer + img.size_of_image <= buf.raw + buf.pages * PAGE_SIZE

(* PE_handle_image always comes to an answer.                              *)
LoaderAnswers == lpc = "allocate" ~> lpc \in {"kernel", "failed"} \/ ~Running

(* pe.h: PE_handle_image is to "relocate PE file from buffer and prepare   *)
(* for execution": the fields listed by the relocations are adjusted.      *)
RelocationsApplied ==
  lpc = "kernel" /\ buf.buffer # img.image_base /\ img.number_of_RVA_and_sizes > 5
    => \A a \in img.fixups : mem[a][1] = "adjusted"
=============================================================================

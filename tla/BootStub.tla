------------------------------ MODULE BootStub ------------------------------
(***************************************************************************)
(* efi_main() of src/main.c, the boot stub as a whole: it finds its        *)
(* sections, selects the command line, offers the initrd, installs the     *)
(* device tree, unpacks the kernel, starts it, and cleans up should the    *)
(* kernel return.  The parts are the modules Initrd, DeviceTree,           *)
(* Decompress and PeLoader, which share the pool and the life of the stub; *)
(* the buffer Decompress fills is the one PeLoader reads.                  *)
(***************************************************************************)
EXTENDS EfiBase, Sequences, FiniteSets, FiniteSetsExt

CONSTANTS
  USE_LZ4, USE_ZSTD, USE_EFI_DT_FIXUP,   \* build options
  Stubs,      \* the bootable images and the machines they run on, see Init
  Sections,   \* contents of .linux, see Decompress
  Images,     \* kernels, see PeImage
  Growth,     \* see DeviceTree
  PAGE_SIZE, U32, U64, COFF_HEADER, SECTION_HEADER, RELOC_HEADER,
  FILE_ALIGNMENT, RawAddresses, SourceBase      \* see PeImage and PeLoader

EfiStatuses ==
  {"EFI_SUCCESS", "EFI_UNSUPPORTED", "EFI_OUT_OF_RESOURCES", "EFI_LOAD_ERROR",
   "EFI_COMPROMISED_DATA", "EFI_INVALID_PARAMETER", "EFI_INCOMPATIBLE_VERSION"}

ASSUME GrowthAssumption == Growth \subseteq Nat

ASSUME StubsAssumption ==
  \A e \in Stubs :
    /\ e.library \in EfiStatuses /\ e.load_options_size \in Nat
    /\ e.sections \in Seq([name : STRING, address : Nat, size : Nat])

VARIABLES
  mpc,           \* where efi_main is
  env,           \* the bootable image and the firmware around it
  secure_boot,   \* bool secure_boot
  status,        \* err of efi_main, and the exit status
  options,       \* struct simple_buffer options
  dpc, section, inbuf, outbuf, ctx, result, decoded, derr,         \* Decompress
  lpc, img, buf, held, mem, entry, protocols, blocked, lerr,       \* PeLoader
  epoch, phase, initrd, initrd_handle, media, reply,               \* Initrd
  tpc, fdt, size, tree, fixup, table, terr,                        \* DeviceTree
  heap, stub

mvars == <<mpc, env, secure_boot, status>>
dvars == <<dpc, section, inbuf, outbuf, ctx, result, decoded, derr>>
lvars == <<lpc, img, buf, held, mem, entry, protocols, blocked, lerr>>
ivars == <<phase, initrd, initrd_handle, media, reply>>
tvars == <<tpc, fdt, size, tree, fixup, table, terr>>
parts == <<dvars, lvars, ivars, tvars, epoch>>
vars == <<mvars, options, parts, heap, stub>>

(* Lengths of the sections called `name' in the images considered.         *)
SectionSizes(name) ==
  UNION {{e.sections[i].size : i \in {j \in DOMAIN e.sections : e.sections[j].name = name}} :
           e \in Stubs}

D == INSTANCE Decompress
L == INSTANCE PeLoader WITH image_data <- outbuf
I == INSTANCE Initrd WITH MaxEpoch <- 1, Lengths <- {0} \cup SectionSizes(".initrd")
T == INSTANCE DeviceTree WITH TreeLengths <- SectionSizes(".dtb")

ASSUME SectionsAssumption == D!DecompressAssumption

-----------------------------------------------------------------------------
(***************************************************************************)
(* PE_locate_sections(): the headers have to pass all Checks, then every   *)
(* section header is compared with every name asked for, so that the last  *)
(* section of a name wins.                                                 *)
(***************************************************************************)
Checks ==
  {"PE_header", "machine", "number_of_sections", "EXECUTABLE_IMAGE", "magic", "subsystem"}

NotLocated == [load_address |-> 0, size |-> 0]

Located(name) ==
  LET hits == {i \in DOMAIN env.sections : env.sections[i].name = name}
  IN  IF hits = {} THEN NotLocated
      ELSE [load_address |-> env.sections[Max(hits)].address,
            size |-> env.sections[Max(hits)].size]

Running == stub = "running"

(***************************************************************************)
(* An element of Stubs is a record: the result of initialize_library(),    *)
(* the SecureBoot variable ("none", "off", "on"), the length of the        *)
(* command line the firmware supplies, the header checks the stub's image  *)
(* passes, its sections, and who offers an initrd already.  The content of *)
(* .linux is chosen to have the size of that section.                      *)
(***************************************************************************)
Init ==
  /\ mpc = "start"
  /\ env \in Stubs
  /\ secure_boot = FALSE /\ status = "EFI_SUCCESS" /\ options = NullBuffer
  /\ dpc = "idle" /\ section \in Sections
  /\ Located(".linux").load_address # 0 => section.size = Located(".linux").size
  /\ inbuf = NullBuffer /\ outbuf = NullBuffer
  /\ ctx = "none" /\ result = "zero" /\ decoded = 0 /\ derr = "EFI_SUCCESS"
  /\ lpc = "idle" /\ img \in Images /\ buf = L!NoPages /\ held = 0
  /\ mem = <<>> /\ entry = 0 /\ protocols = {} /\ blocked = {} /\ lerr = "EFI_SUCCESS"
  /\ epoch = 1 /\ phase = "start" /\ initrd = NullBuffer /\ initrd_handle = "NULL"
  /\ media = (IF env.previous THEN I!PreviousStage ELSE I!Nobody) /\ reply = I!NoReply
  /\ tpc = "idle" /\ fdt = NullBuffer /\ size = 0 /\ fixup = "none"
  /\ tree = [place \in {"section", "fdt"} |->
               IF place = "section" THEN "plain" ELSE "none"]
  /\ table = "none" /\ terr = "EFI_SUCCESS"
  /\ heap = [b \in {"kernel", "dp", "lp", "fdt", "options"} |-> "none"]
  /\ stub = "running"

At(label) == Running /\ mpc = label

Goto(label) == mpc' = label

(* exit() does not come back and no _cleanup handler runs.                 *)
Exit(err) == stub' = "exited" /\ status' = err /\ UNCHANGED mpc

(* A step of a part; a failed assertion in it exits with EFI_UNSUPPORTED.  *)
PartStep ==
  /\ status' = IF stub' = "exited" THEN "EFI_UNSUPPORTED" ELSE status
  /\ UNCHANGED <<mpc, env, secure_boot>>

-----------------------------------------------------------------------------
InitializeLibrary ==
  /\ At("start")
  /\ IF EfiError(env.library)
     THEN Exit(env.library)
     ELSE Goto("secure_boot") /\ UNCHANGED <<status, stub>>
  /\ UNCHANGED <<env, secure_boot, options, parts, heap>>

(* data == 1; a variable that cannot be read leaves secure_boot false.     *)
SecureBootOn == env.secure_boot = "on"

ReadSecureBoot ==
  /\ At("secure_boot")
  /\ secure_boot' = SecureBootOn
  /\ Goto("sections")
  /\ UNCHANGED <<env, status, options, parts, heap, stub>>

LocateSections ==
  /\ At("sections")
  /\ IF \/ ~(Checks \subseteq env.checks)
        \/ Located(".linux").load_address = 0 \/ Located(".linux").size = 0
     THEN Exit("EFI_UNSUPPORTED")
     ELSE Goto("options") /\ UNCHANGED <<status, stub>>
  /\ UNCHANGED <<env, secure_boot, options, parts, heap>>

(* The command line of the firmware's boot entry, unless secure boot is    *)
(* on; else the embedded one, converted to UTF-16, which has at most as    *)
(* many characters as .cmdline has bytes.                                  *)
UsesSuppliedAlways == env.load_options_size > 0

UsesSupplied == env.load_options_size > 0 /\ ~secure_boot

(* The length of the firmware's command line, in bytes.                    *)
SuppliedLength == env.load_options_size

SelectOptions ==
  /\ At("options")
  /\ IF UsesSupplied
     THEN /\ options' = [NullBuffer EXCEPT !.buffer = "load_options",
                           !.allocated = SuppliedLength, !.length = SuppliedLength]
          /\ Goto("initrd") /\ UNCHANGED <<status, heap, stub>>
     ELSE IF Located(".cmdline").load_address = 0
     THEN Goto("initrd") /\ UNCHANGED <<options, status, heap, stub>>
     ELSE \/ Exit("EFI_OUT_OF_RESOURCES") /\ UNCHANGED <<options, heap>>
          \/ /\ heap' = Malloc(heap, "options")
             /\ \E n \in 0 .. Located(".cmdline").size :
                  options' = [AllocateSimpleBuffer(options, "options",
                                2 * (Located(".cmdline").size + 1)) EXCEPT !.length = 2 * n]
             /\ Goto("initrd") /\ UNCHANGED <<status, stub>>
  /\ UNCHANGED <<env, secure_boot, parts>>

(* A failure to register the initrd is printed and forgotten; without a    *)
(* section nothing is registered.                                          *)
RegisterInitrd ==
  /\ At("initrd")
  /\ I!InitrdRegister(IF Located(".initrd").load_address = 0 THEN 0
                      ELSE Located(".initrd").size)
  /\ Goto("fdt")
  /\ UNCHANGED <<env, secure_boot, status, options, dvars, lvars, tvars, heap>>

LookForTree ==
  /\ At("fdt")
  /\ IF USE_EFI_DT_FIXUP /\ Located(".dtb").load_address # 0
     THEN fdt' = T!FdtSection(Located(".dtb").size) /\ Goto("fixup")
     ELSE Goto("decompress") /\ UNCHANGED fdt
  /\ UNCHANGED <<env, secure_boot, status, options, dvars, lvars, ivars, epoch,
                 tpc, size, tree, fixup, table, terr, heap, stub>>

InstallTree ==
  /\ At("fixup")
  /\ T!LocateFixup \/ T!Steps
  /\ PartStep
  /\ UNCHANGED <<options, dvars, lvars, ivars, epoch>>

(* A failure to install the device tree is printed and forgotten, too.     *)
TreeReturns ==
  /\ At("fixup") /\ tpc = "returned"
  /\ Goto("decompress")
  /\ UNCHANGED <<env, secure_boot, status, options, parts, heap, stub>>

Unpack ==
  /\ At("decompress")
  /\ D!Call \/ D!Steps
  /\ PartStep
  /\ UNCHANGED <<options, lvars, ivars, epoch, tvars>>

(* What becomes of err and of the kernel buffer when decompress() is back. *)
UnpackedFreed ==
  /\ heap' = FreeBuffer(heap, outbuf)
  /\ Goto(IF EfiError(derr) THEN "end" ELSE "execute")
  /\ status' = derr

Unpacked ==
  /\ Goto(IF EfiError(derr) THEN "end" ELSE "execute")
  /\ status' = derr
  /\ UNCHANGED heap

(* The time decompression took is only measured to be asserted and shown;  *)
(* where there is no counter it is 0.                                      *)
UnpackReturns ==
  /\ At("decompress") /\ dpc = "returned"
  /\ \E time \in {0, 1} :
       IF ~EfiError(derr) /\ AssertFails(time > 0)
       THEN Exit("EFI_UNSUPPORTED") /\ UNCHANGED heap
       ELSE Unpacked /\ UNCHANGED stub
  /\ UNCHANGED <<env, secure_boot, options, parts>>

-----------------------------------------------------------------------------
Execute ==
  /\ At("execute")
  /\ L!HandleImage \/ L!Steps
  /\ PartStep
  /\ UNCHANGED <<dvars, ivars, epoch, tvars>>

(* The kernel's own steps, among them its requests for the initrd.         *)
KernelRuns ==
  /\ At("execute") /\ L!Kernel
  /\ UNCHANGED <<mvars, dvars, ivars, epoch, tvars>>

KernelAsksForInitrd ==
  /\ At("execute") /\ lpc = "kernel"
  /\ \E r \in I!Requests : I!LoadFile(r) \/ I!LoadFileElsewhere(r)
  /\ PartStep
  /\ UNCHANGED <<options, dvars, lvars, tvars, heap>>

ExecuteReturns ==
  /\ At("execute") /\ lpc \in {"failed", "returned"}
  /\ status' = lerr
  /\ Goto("end")
  /\ UNCHANGED <<env, secure_boot, options, parts, heap, stub>>

Deregister ==
  /\ At("end")
  /\ I!InitrdDeregister
  /\ Goto("exit")
  /\ UNCHANGED <<env, secure_boot, status, options, dvars, lvars, tvars, heap>>

ExitStub ==
  /\ At("exit")
  /\ Exit(status)
  /\ UNCHANGED <<env, secure_boot, options, parts, heap>>

-----------------------------------------------------------------------------
StubStep ==
  \/ InitializeLibrary \/ ReadSecureBoot \/ LocateSections \/ SelectOptions
  \/ RegisterInitrd \/ LookForTree \/ InstallTree \/ TreeReturns
  \/ Unpack \/ UnpackReturns \/ Execute \/ ExecuteReturns \/ Deregister \/ ExitStub

Next == StubStep \/ KernelRuns \/ KernelAsksForInitrd \/ (~Running /\ UNCHANGED vars)

Spec == Init /\ [][Next]_vars /\ WF_vars(StubStep)

-----------------------------------------------------------------------------
(* Properties                                                              *)

(* Type invariant of efi_main's own state.                                 *)
TypeOK ==
  /\ mpc \in {"start", "secure_boot", "sections", "options", "initrd", "fdt", "fixup",
              "decompress", "execute", "end", "exit"}
  /\ env \in Stubs /\ secure_boot \in BOOLEAN /\ status \in EfiStatuses
  /\ options \in D!BufferType({"NULL", "load_options", "options"})
  /\ heap \in [{"kernel", "dp", "lp", "fdt", "options"} -> BlockState]
  /\ stub \in {"running", "exited", "crashed", "replaced"}

(***************************************************************************)
(* The stub seen as BootContract.                                          *)
(***************************************************************************)
AfterKernel == {"unload", "uninstall", "returned"}

Stage ==
  IF ~Running THEN stub
  ELSE IF lpc = "kernel" THEN "kernel"
  ELSE IF lpc \in AfterKernel THEN "returned" ELSE "booting"

Cmdline ==
  IF lpc \notin {"kernel"} \cup AfterKernel THEN "none"
  ELSE IF options.length = 0 THEN "none"
  ELSE IF options.buffer = "options" THEN "embedded" ELSE "supplied"

Status ==
  IF stub = "exited" THEN status ELSE IF lpc \in AfterKernel THEN lerr ELSE "none"

Contract ==
  INSTANCE BootContract WITH Statuses <- EfiStatuses, secure <- env.secure_boot = "on",
                             stage <- Stage, cmdline <- Cmdline, status <- Status

(* efi_main implements the contract: one kernel is entered, never with the *)
(* firmware's command line under secure boot; a stub that exits without    *)
(* having entered it reports an error; else it exits with the kernel's     *)
(* status, whatever unloading and deregistering did.                       *)
ImplementsContract == Contract!Spec

(* What the kernel works with is there when it runs: its unpacked image    *)
(* until it is relocated, its command line, its device tree, and the       *)
(* protocols of its handle; and no part of the stub ever frees a block     *)
(* another one already freed.                                              *)
KernelInputsLive ==
  /\ \A b \in DOMAIN heap : heap[b] # "corrupt"
  /\ Running /\ mpc = "execute" /\ outbuf.buffer = "kernel" => heap["kernel"] = "live"
  /\ options.buffer = "options" => heap["options"] = "live"
  /\ table # "none" => heap[table] = "live"
  /\ lpc = "kernel" => heap["dp"] = "live" /\ heap["lp"] = "live"

(* The kernel that runs came out of decompress() without a contradiction:  *)
(* none of its blocks is damaged in a way that any checksum read so far    *)
(* covers, and if .linux was cut short the console said so.                *)
KernelUndamaged ==
  lpc = "kernel" /\ section.fmt \in D!Compressed
    => D!DamageUncovered(section) /\ D!CutReported(section, result)

(* Whatever the firmware answers to the two fixup calls, the tree that is  *)
(* published is the completed one, in a live block large enough for it     *)
(* that no cleanup handler frees any more; a failure publishes nothing.    *)
PublishedTreeIsWhole == T!PublishedTreeIsWhole

(* The stub comes to a decision: it exits, or the kernel runs, whatever    *)
(* the parts did, unless it was given an LZ4 section with more to unpack   *)
(* than its buffer takes, for which decompress() spins; and after the      *)
(* kernel has returned the stub always exits.                              *)
StubDecides ==
  /\ mpc = "start" /\ ~D!Overfull(section) ~> lpc = "kernel" \/ ~Running
  /\ lpc = "unload" ~> ~Running
=============================================================================

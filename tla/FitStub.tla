------------------------------ MODULE FitStub ------------------------------
(***************************************************************************)
(* src/fit_stub.c: a boot manager for U-Boot FIT images.  It starts the    *)
(* image of BootNext, then the images of BootOrder one after the other,    *)
(* then the fallback loader and then the shell; each image either takes    *)
(* the machine over or ends and lets the stub go on.                       *)
(*                                                                         *)
(* A boot entry is a record: whether the variable exists, its attributes,  *)
(* what its file path list is ("short", "end" or "path") and how many      *)
(* bytes of optional data follow it.                                       *)
(***************************************************************************)
EXTENDS EfiBase, Integers, Sequences

CONSTANTS
  Entries,   \* numbers of the boot entries, positive
  Options,   \* boot entries to consider, see above
  Orders,    \* values of BootOrder to consider
  U32        \* number of values of uint32_t

ASSUME FitStubAssumption ==
  /\ Entries \subseteq Nat \ {0} /\ U32 \in Nat \ {0}
  /\ Orders \subseteq Seq(Entries)
  /\ \A o \in Options : o.optional \in Nat

VARIABLES
  fpc,        \* where efi_main is
  entries,    \* the Boot#### variables
  next,       \* BootNext, 0 if there is none
  order,      \* BootOrder
  index,      \* the loop counter over it
  target,     \* the image boot_entry() or boot_file() is about
  current,    \* the BootCurrent variable, 0 if there is none
  written,    \* history: what the firmware made of the last write to it
  image,      \* the loaded image: "none", "loaded" or "running"
  load_options_size,   \* as set in the image's LoadedImage protocol
  log,        \* history: the images that were started
  ferr, heap, stub

vars == <<fpc, entries, next, order, index, target, current, written, image,
          load_options_size, log, ferr, heap, stub>>

Blocks == {"order", "entry", "filepath", "path"}

Nothing == 0
Fallback == -1
Shell == -2

Running == stub = "running"

Init ==
  /\ fpc = "start"
  /\ entries \in [Entries -> Options]
  /\ next \in {Nothing} \cup Entries /\ order \in Orders /\ index = 0
  /\ target = Nothing /\ image = "none" /\ load_options_size = 0
  /\ current \in {Nothing} \cup Entries /\ written = "never"
  /\ log = <<>> /\ ferr = "EFI_SUCCESS"
  /\ heap = [b \in Blocks |-> "none"]
  /\ stub = "running"

At(label) == Running /\ fpc = label

Goto(label) == fpc' = label

unchangedEnv == UNCHANGED <<entries, next, order>>

(* return err: _cleanup_pool frees boot_order.                             *)
Return(err) ==
  /\ fpc' = "returned" /\ ferr' = err
  /\ heap' = IF heap["order"] = "live" THEN Free(heap, "order") ELSE heap

-----------------------------------------------------------------------------
(* lib_get_protocol_interface(..., NULL, ...) reads *handle through the    *)
(* NULL pointer when it has found the protocol: a fault, or a word of low  *)
(* memory; unless that is 0 the handle is stored to address 0.             *)
GetDevicePathUtilities ==
  /\ At("start")
  /\ \/ /\ \E err \in {"EFI_NOT_FOUND", "EFI_OUT_OF_RESOURCES"} : Return(err)
        /\ UNCHANGED stub
     \/ stub' = "crashed" /\ UNCHANGED <<fpc, ferr, heap>>
     \/ Goto("boot_next") /\ UNCHANGED <<ferr, heap, stub>>
  /\ unchangedEnv
  /\ UNCHANGED <<index, target, current, written, image, load_options_size, log>>

BootNext ==
  /\ At("boot_next")
  /\ IF next = Nothing
     THEN Goto("boot_order") /\ UNCHANGED target
     ELSE Goto("entry") /\ target' = next
  /\ unchangedEnv
  /\ UNCHANGED <<index, current, written, image, load_options_size, log, ferr, heap, stub>>

(* Where boot_entry() or boot_file() returns to.                           *)
Continue ==
  IF target = Fallback THEN "shell" ELSE IF target = Shell THEN "last"
  ELSE IF heap["order"] = "live" THEN "loop" ELSE "boot_order"

(* The list is read once; without it, or without memory, it is skipped.    *)
BootOrder ==
  /\ At("boot_order")
  /\ \/ Goto("device") /\ UNCHANGED heap
     \/ /\ order # <<>>
        /\ heap' = Malloc(heap, "order") /\ Goto("loop")
  /\ unchangedEnv
  /\ UNCHANGED <<index, target, current, written, image, load_options_size, log, ferr, stub>>

(* One round of the loop; errors of boot_entry() are printed.              *)
NextIndexStuck == UNCHANGED index

NextIndex == index' = index + 1

BootOrderLoop ==
  /\ At("loop")
  /\ IF index < Len(order)
     THEN Goto("entry") /\ target' = order[index + 1] /\ NextIndex
     ELSE Goto("device") /\ UNCHANGED <<target, index>>
  /\ unchangedEnv
  /\ UNCHANGED <<current, written, image, load_options_size, log, ferr, heap, stub>>

-----------------------------------------------------------------------------
(* boot_entry(): a missing, inactive or empty entry counts as success.     *)
(* `attributes && LOAD_OPTION_ACTIVE' is true of any attribute.            *)
Active(option) == option.attributes # {}

LeaveEntryRetried(err) == Goto("entry") /\ ferr' = err

LeaveEntry(err) == Goto(Continue) /\ ferr' = err

(* Nobody looks at the status of efi_var_set().                            *)
WriteCurrent(value) ==
  \/ current' = value /\ written' = "accepted"
  \/ UNCHANGED current /\ written' = "refused"

SetCurrent == WriteCurrent(target)

BootEntry ==
  /\ At("entry")
  /\ LET option == entries[target]
     IN  \/ /\ LeaveEntry("EFI_SUCCESS")      \* not there, or no memory for it
            /\ UNCHANGED <<heap, current, written>>
         \/ /\ option.exists /\ (~Active(option) \/ option.path = "end")
            /\ LeaveEntry("EFI_SUCCESS")
            /\ heap' = Free(Malloc(heap, "entry"), "entry")
            /\ UNCHANGED <<current, written>>
         \/ /\ option.exists /\ Active(option) /\ option.path = "short"
            /\ LeaveEntry("EFI_UNSUPPORTED")
            /\ heap' = Free(Malloc(heap, "entry"), "entry")
            /\ UNCHANGED <<current, written>>
         \/ /\ option.exists /\ Active(option) /\ option.path = "path"
            /\ heap' = Malloc(heap, "entry")
            /\ SetCurrent
            /\ Goto("load") /\ UNCHANGED ferr
  /\ unchangedEnv
  /\ UNCHANGED <<index, target, image, load_options_size, log, stub>>

FreeTargetForgotten == IF target \in Entries THEN Free(heap, "entry") ELSE heap

(* boot_entry() frees its copy of the variable, boot_file() the path.      *)
FreeTarget == Free(heap, IF target \in Entries THEN "entry" ELSE "path")

DeleteCurrentForgotten == UNCHANGED <<current, written>>

(* boot_entry() deletes BootCurrent after the image.                       *)
DeleteCurrent ==
  IF target \in Entries THEN WriteCurrent(Nothing) ELSE UNCHANGED <<current, written>>

RunReturns(err) ==
  /\ DeleteCurrent
  /\ heap' = FreeTarget
  /\ Goto(Continue) /\ ferr' = err

(* options_length is options - (boot_entry + boot_entry_length), which is  *)
(* minus the length; load_options_size has 32 bits.                        *)
LoadOptionsSize ==
  IF target \in Entries /\ entries[target].optional > 0
  THEN (U32 - entries[target].optional) % U32 ELSE 0

Unloaded == "none"

(* run_image_from_file(): load, look up the protocol, start.               *)
LoadImage ==
  /\ At("load")
  /\ \/ RunReturns("EFI_LOAD_ERROR") /\ UNCHANGED <<image, load_options_size, log>>
     \/ /\ image' = Unloaded                  \* open_protocol failed
        /\ RunReturns("EFI_UNSUPPORTED") /\ UNCHANGED <<load_options_size, log>>
     \/ /\ image' = "running" /\ load_options_size' = LoadOptionsSize
        /\ log' = Append(log, target)
        /\ Goto("image") /\ UNCHANGED <<current, written, ferr, heap>>
  /\ unchangedEnv
  /\ UNCHANGED <<index, target, stub>>

ImageTakesOver ==
  /\ At("image")
  /\ stub' = "replaced"
  /\ unchangedEnv
  /\ UNCHANGED <<fpc, index, target, current, written, image, load_options_size, log, ferr,
                 heap>>

(* start_image returns; the protocol is closed and the image unloaded.     *)
ImageEnds ==
  /\ At("image")
  /\ \E err \in {"EFI_SUCCESS", "EFI_LOAD_ERROR"} : RunReturns(err)
  /\ image' = Unloaded /\ load_options_size' = 0
  /\ unchangedEnv
  /\ UNCHANGED <<index, target, log, stub>>

-----------------------------------------------------------------------------
OpenDevice ==
  /\ At("device")
  /\ \/ Return("EFI_UNSUPPORTED") /\ UNCHANGED target
     \/ /\ Goto("filepath") /\ target' = Fallback /\ UNCHANGED <<ferr, heap>>
  /\ unchangedEnv
  /\ UNCHANGED <<index, current, written, image, load_options_size, log, stub>>

(* boot_file(): the node is built, appended to the device and freed again. *)
(* append_node may return NULL; then load_image refuses the path.          *)
BootFile ==
  /\ At("filepath")
  /\ \/ Goto(Continue) /\ ferr' = "EFI_OUT_OF_RESOURCES" /\ UNCHANGED heap
     \/ /\ heap' = Free(Malloc(heap, "filepath"), "filepath")
        /\ Goto(Continue) /\ ferr' = "EFI_INVALID_PARAMETER"
     \/ /\ heap' = Malloc(Free(Malloc(heap, "filepath"), "filepath"), "path")
        /\ Goto("load") /\ UNCHANGED ferr
  /\ unchangedEnv
  /\ UNCHANGED <<index, target, current, written, image, load_options_size, log, stub>>

(* The shell is next, whatever the fallback loader returned.               *)
BootShell ==
  /\ At("shell")
  /\ Goto("filepath") /\ target' = Shell
  /\ unchangedEnv
  /\ UNCHANGED <<index, current, written, image, load_options_size, log, ferr, heap, stub>>

Last ==
  /\ At("last")
  /\ Return(ferr)
  /\ unchangedEnv
  /\ UNCHANGED <<index, target, current, written, image, load_options_size, log, stub>>

-----------------------------------------------------------------------------
Steps ==
  \/ GetDevicePathUtilities \/ BootNext \/ BootOrder \/ BootOrderLoop \/ BootEntry
  \/ LoadImage \/ OpenDevice \/ BootFile \/ BootShell \/ Last

Finished == fpc = "returned" \/ ~Running

Next == Steps \/ ImageTakesOver \/ ImageEnds \/ (Finished /\ UNCHANGED vars)

(* Images are assumed to end or to take over some day.                     *)
Spec == Init /\ [][Next]_vars /\ WF_vars(Steps \/ ImageTakesOver \/ ImageEnds)

-----------------------------------------------------------------------------
(* Properties                                                              *)

(* Type invariant.                                                         *)
TypeOK ==
  /\ fpc \in {"start", "boot_next", "boot_order", "loop", "entry", "load", "image",
              "device", "filepath", "shell", "last", "returned"}
  /\ index \in 0 .. Len(order)
  /\ target \in {Nothing, Fallback, Shell} \cup Entries
  /\ current \in {Nothing} \cup Entries /\ written \in {"never", "accepted", "refused"}
  /\ image \in {"none", "running"} /\ load_options_size \in 0 .. U32 - 1
  /\ heap \in [Blocks -> BlockState]
  /\ stub \in {"running", "crashed", "replaced"}

(* Whatever BootCurrent was before, and however many writes to it were     *)
(* refused: once the firmware has taken the last one, BootCurrent names    *)
(* the entry whose image is being loaded or runs, and is gone while        *)
(* anything else is done, also when a list is skipped, when the fallback   *)
(* loader and the shell run and when the stub returns.  No image of an     *)
(* entry is loaded without a write.                                        *)
BootCurrentIsTrue ==
  LET booting == target \in Entries /\ fpc \in {"load", "image"}
  IN  /\ written = "accepted" => current = IF booting THEN target ELSE Nothing
      /\ booting => written # "never"

(* The images the stub may start, in the order it should.                  *)
Candidates ==
  (IF next = Nothing THEN <<>> ELSE <<next>>) \o order \o <<Fallback, Shell>>

(* Images are started in the order BootNext, BootOrder, fallback, shell;   *)
(* an entry that fails or is skipped does not make the stub lose its place *)
(* or start anything twice.                                                *)
StartedInOrder ==
  \E at \in [1 .. Len(log) -> 1 .. Len(Candidates)] :
    /\ \A i \in 1 .. Len(log) : log[i] = Candidates[at[i]]
    /\ \A i \in 1 .. Len(log) - 1 : at[i] < at[i + 1]

(* Everything taken from the pool is given back when efi_main returns, and *)
(* nothing twice, whichever of the steps of an entry failed.               *)
PoolReleased ==
  \A b \in Blocks :
    heap[b] # "corrupt" /\ (fpc = "returned" => heap[b] # "live")

(* The stub gets to the end of its list unless an image takes over.        *)
StubComesThrough == fpc = "boot_next" ~> Finished
=============================================================================

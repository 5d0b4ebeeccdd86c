----------------------------- MODULE DeviceTree -----------------------------
(***************************************************************************)
(* do_devicetree_fixup() of src/main.c (AArch64 builds): the embedded      *)
(* device tree is completed by the firmware's EFI_DT_FIXUP_PROTOCOL, moved *)
(* to memory the operating system keeps, and published as a configuration  *)
(* table.                                                                  *)
(*                                                                         *)
(* Only the size of the tree and whether it has been completed matter.     *)
(***************************************************************************)
EXTENDS EfiBase

CONSTANTS
  TreeLengths,   \* lengths of the .dtb section to consider
  Growth         \* units the firmware may want to add to a tree

VARIABLES
  tpc,      \* where do_devicetree_fixup is
  fdt,      \* struct simple_buffer fdt of efi_main
  size,     \* the size passed to and returned by fixup->fixup
  tree,     \* per place: "none", "plain", "fixed" or "torn"
  fixup,    \* status of the last fixup->fixup
  table,    \* the configuration table: "none" or the block it points to
  terr,     \* status to return
  heap, stub

tvars == <<tpc, fdt, size, tree, fixup, table, terr>>
vars == <<tvars, heap, stub>>

Running == stub = "running"

(* efi_main fills in buffer and length only.                               *)
FdtSection(length) == [NullBuffer EXCEPT !.buffer = "section", !.length = length]

Init ==
  /\ tpc = "idle"
  /\ fdt \in {FdtSection(n) : n \in TreeLengths}
  /\ size = 0 /\ fixup = "none" /\ table = "none" /\ terr = "EFI_SUCCESS"
  /\ tree = [place \in {"section", "fdt"} |->
               IF place = "section" THEN "plain" ELSE "none"]
  /\ heap = [b \in {"fdt"} |-> "none"]
  /\ stub = "running"

Goto(label) == tpc' = label

Return(status) == tpc' = "returned" /\ terr' = status

AssertExit == stub' = "exited" /\ UNCHANGED <<tvars, heap>>

(* The protocol is missing, too old, or found; then buffer_len(fdt).       *)
LocateFixup ==
  /\ Running /\ tpc = "idle"
  /\ \/ /\ \E status \in {"EFI_NOT_FOUND", "EFI_UNSUPPORTED"} : Return(status)
        /\ UNCHANGED <<size, stub>>
     \/ IF AssertFails(BufferLenOk(fdt))
        THEN stub' = "exited" /\ UNCHANGED <<tpc, size, terr>>
        ELSE /\ size' = BufferLen(fdt) /\ Goto("fixup") /\ UNCHANGED <<terr, stub>>
  /\ UNCHANGED <<fdt, tree, fixup, table, heap>>

(***************************************************************************)
(* fixup->fixup() on the buffer `place' of capacity `size': the tree is    *)
(* completed where it is, or a larger buffer is asked for, or the firmware *)
(* gives up half way.                                                      *)
(***************************************************************************)
Fixup(place) ==
  \/ /\ fixup' = "EFI_SUCCESS"
     /\ tree' = [tree EXCEPT ![place] = "fixed"] /\ UNCHANGED size
  \/ /\ fixup' = "EFI_BUFFER_TOO_SMALL"
     /\ \E n \in Growth \ {0} : size' = size + n
     /\ UNCHANGED tree
  \/ /\ fixup' = "EFI_INVALID_PARAMETER"
     /\ tree' = [tree EXCEPT ![place] = "torn"] /\ UNCHANGED size

FirstFixup ==
  /\ Running /\ tpc = "fixup"
  /\ IF AssertFails(BufferPosOk(fdt))
     THEN AssertExit
     ELSE /\ Fixup("section")
          /\ Goto("allocate")
          /\ UNCHANGED <<fdt, table, terr, heap, stub>>

(* The new block has the size the firmware left behind.  The tree moves    *)
(* there whatever the first call said.                                     *)
Moved(b, n) ==
  [b EXCEPT !.buffer = "fdt", !.length = n, !.allocated = n, !.pos = 0,
            !.free = "free_simple_buffer"]

AllocateTree ==
  /\ Running /\ tpc = "allocate"
  /\ \/ Return("EFI_OUT_OF_RESOURCES") /\ UNCHANGED <<fdt, tree, heap>>
     \/ /\ heap' = FreeBuffer(Malloc(heap, "fdt"), fdt)
        /\ tree' = [tree EXCEPT !["fdt"] = tree["section"]]
        /\ fdt' = Moved(fdt, size)
        /\ Goto("again") /\ UNCHANGED terr
  /\ UNCHANGED <<size, fixup, table, stub>>

(* The second call, only after EFI_BUFFER_TOO_SMALL.                       *)
SecondFixup ==
  /\ Running /\ tpc = "again"
  /\ IF fixup = "EFI_BUFFER_TOO_SMALL"
     THEN IF AssertFails(BufferPosOk(fdt)) THEN AssertExit
          ELSE Fixup("fdt") /\ Goto("install") /\ UNCHANGED <<fdt, table, terr, heap, stub>>
     ELSE Goto("install") /\ UNCHANGED <<fdt, size, tree, fixup, table, terr, heap, stub>>

RefusedUnchecked(status) == FALSE

(* EFI_ERROR(err) after the second call.                                   *)
Refused(status) == EfiError(status)

Publish ==
  \/ table' = fdt.buffer /\ fdt' = [fdt EXCEPT !.free = "NULL"] /\ Return("EFI_SUCCESS")
  \/ Return("EFI_OUT_OF_RESOURCES") /\ UNCHANGED <<fdt, table>>

InstallTable ==
  /\ Running /\ tpc = "install"
  /\ IF Refused(fixup)
     THEN Return(fixup) /\ UNCHANGED <<fdt, table>>
     ELSE Publish
  /\ UNCHANGED <<size, tree, fixup, heap, stub>>

-----------------------------------------------------------------------------
Finished == tpc = "returned" \/ ~Running

Steps == FirstFixup \/ AllocateTree \/ SecondFixup \/ InstallTable

Next == LocateFixup \/ Steps \/ (Finished /\ UNCHANGED vars)

Spec == Init /\ [][Next]_vars /\ WF_vars(LocateFixup \/ Steps)

-----------------------------------------------------------------------------
(* Properties                                                              *)

(* What the operating system finds as its device tree is complete, in a    *)
(* live block that is not smaller than the firmware asked for, and no      *)
(* longer owned by a buffer that frees it; a failure publishes nothing.    *)
PublishedTreeIsWhole ==
  IF table = "none"
  THEN tpc = "returned" => EfiError(terr)
  ELSE /\ terr = "EFI_SUCCESS"
       /\ table = "fdt" /\ heap["fdt"] = "live"
       /\ tree["fdt"] = "fixed"
       /\ fdt.allocated >= size /\ fdt.free = "NULL"
=============================================================================

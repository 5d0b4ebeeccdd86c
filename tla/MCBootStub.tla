----------------------------- MODULE MCBootStub -----------------------------
(* Bootable images and machines for BootStub: one complete image, and the  *)
(* variations that take efi_main through its branches.                     *)
EXTENDS BootStub

StubSection(name, n) == [name |-> name, address |-> 8, size |-> n]

OnlyLinux == <<StubSection(".linux", 3)>>

WithCmdline == <<StubSection(".cmdline", 1), StubSection(".linux", 3)>>

Ramdisk == <<StubSection(".initrd", 1), StubSection(".linux", 3)>>

(* Every section; the kernel is one of the few that have 4 units.          *)
Full ==
  <<StubSection(".osrel", 1), StubSection(".cmdline", 1), StubSection(".linux", 4),
    StubSection(".initrd", 1), StubSection(".dtb", 2)>>

(* Two kernels, the larger one last; the tree under the README's name.     *)
Doubled ==
  <<StubSection(".linux", 3), StubSection(".fdt", 2), StubSection(".linux", 4)>>

Machine(sections, secure, n, previous) ==
  [library |-> "EFI_SUCCESS", secure_boot |-> secure, load_options_size |-> n,
   checks |-> Checks, sections |-> sections, previous |-> previous]

GoodStubs ==
  {Machine(WithCmdline, secure, n, FALSE) : secure \in {"off", "on"}, n \in {0, 1}}
    \cup {Machine(Ramdisk, "none", 0, previous) : previous \in BOOLEAN}
    \cup {Machine(Full, "on", 1, FALSE), Machine(OnlyLinux, "none", 0, FALSE),
          Machine(OnlyLinux, "on", 1, FALSE), Machine(Doubled, "off", 0, TRUE)}

BadStubs ==
  {[Machine(OnlyLinux, "off", 0, FALSE) EXCEPT !.library = err] :
     err \in {"EFI_UNSUPPORTED", "EFI_INCOMPATIBLE_VERSION"}}
    \cup {[Machine(OnlyLinux, "off", 0, FALSE) EXCEPT !.checks = @ \ {check}] :
          check \in Checks}
    \cup {Machine(<<>>, "off", 1, FALSE), Machine(<<StubSection(".linux", 0)>>, "off", 0, FALSE)}

MCStubs == GoodStubs \cup BadStubs

(* A frame without checksums; a damaged block does not decode.  `declared'  *)
(* is -1, as NoSize of Decompress, if no size is declared.                 *)
Frame(fmt, n, blocks, declared, bad) ==
  [fmt |-> fmt, size |-> n, declared |-> declared, blocks |-> blocks, bad |-> bad,
   decodes |-> FALSE, header |-> TRUE, sums |-> {}, behind |-> "junk"]

(* A block that decodes to something else, with these checksums.           *)
Garbled(fmt, n, sums) ==
  [Frame(fmt, n, 1, 1, 1) EXCEPT !.decodes = TRUE, !.sums = sums]

(* Of 3 units: a whole frame, one cut short, damaged ones with and without *)
(* checksums, one without a content size; a plain kernel; neither.  Of 4   *)
(* units: whole, damaged, cut before or with the content checksum, a frame *)
(* with another behind it, and frames of more than they declare.           *)
MCSections ==
  UNION {{Frame(fmt, 3, 1, 1, 0), Frame(fmt, 3, 2, 2, 0), Frame(fmt, 3, 1, 1, 1),
          Garbled(fmt, 3, {}), Garbled(fmt, 3, {"content"}), Garbled(fmt, 4, {"content"}),
          Frame(fmt, 3, 1, -1, 0), Frame(fmt, 4, 2, 1, 0),
          [Frame(fmt, 4, 1, 1, 0) EXCEPT !.behind = "frame"]} : fmt \in {"lz4", "zstd"}}
    \cup {Garbled("lz4", 3, {"block"}), Frame("lz4", 4, 2, 2, 0), Frame("zstd", 4, 2, 2, 2),
          Frame("zstd", 3, 1, 0, 0),
          Frame("pe", 3, 0, 0, 0), Frame("other", 3, 0, 0, 0), Frame("other", 0, 0, 0, 0)}

(* A kernel as a linker would produce it, and one for another machine.     *)
PeSection(name, va, vs, raw, n, uninitialized) ==
  [name |-> name, virtual_address |-> va, virtual_size |-> vs, pointer_to_raw_data |-> raw,
   size_of_raw_data |-> n, discardable |-> FALSE, uninitialized |-> uninitialized]

Linux ==
  [pe_header |-> TRUE, characteristics |-> {"EXECUTABLE_IMAGE"}, machine |-> "NATIVE",
   magic |-> "HDR64", pe_offset |-> 1, size_of_optional_header |-> 1,
   size_of_headers |-> 6, size_of_image |-> 24, entry_point |-> 8,
   section_alignment |-> 4, file_alignment |-> 2, image_base |-> 4,
   number_of_RVA_and_sizes |-> 6, reloc_directory |-> [virtual_address |-> 18, size |-> 4],
   block |-> [virtual_address |-> 12, size_of_block |-> 2, known_types |-> TRUE],
   sections |-> <<PeSection(".text", 8, 3, 6, 4, FALSE), PeSection(".data", 12, 3, 10, 1, FALSE),
                  PeSection(".bss", 16, 2, 0, 0, TRUE)>>,
   fixups |-> {}]

MCImages == {Linux, [Linux EXCEPT !.machine = "OTHER"]}
=============================================================================

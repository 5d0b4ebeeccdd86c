----------------------------- MODULE MCPeLoader -----------------------------
(* Small kernels for PeLoader: one that a linker would produce and         *)
(* variations of it, one for each check of the loader.                     *)
EXTENDS PeLoader

Section(name, va, vs, raw, size, discardable, uninitialized) ==
  [name |-> name, virtual_address |-> va, virtual_size |-> vs,
   pointer_to_raw_data |-> raw, size_of_raw_data |-> size,
   discardable |-> discardable, uninitialized |-> uninitialized]

Text == Section(".text", 8, 3, 6, 4, FALSE, FALSE)
Data == Section(".data", 12, 3, 10, 1, FALSE, FALSE)
Bss == Section(".bss", 16, 2, 0, 0, FALSE, TRUE)
Reloc == Section(".reloc", 18, 4, 11, 2, TRUE, FALSE)

Linux ==
  [pe_header |-> TRUE, characteristics |-> {"EXECUTABLE_IMAGE"},
   machine |-> "NATIVE", magic |-> "HDR64",
   pe_offset |-> 1, size_of_optional_header |-> 1,
   size_of_headers |-> 6, size_of_image |-> 24, entry_point |-> 8,
   section_alignment |-> 4, file_alignment |-> 2, image_base |-> 4,
   number_of_RVA_and_sizes |-> 6,
   reloc_directory |-> [virtual_address |-> 18, size |-> 4],
   block |-> [virtual_address |-> 12, size_of_block |-> 2, known_types |-> TRUE],
   sections |-> <<Text, Data, Bss>>, fixups |-> {}]

WithSections(ss) == [Linux EXCEPT !.sections = ss]

(* The loader only accepts a .reloc section two units larger than its      *)
(* directory entry.                                                        *)
Relocated == [WithSections(<<Text, Data, Reloc>>) EXCEPT !.reloc_directory.size = 2]

BadHeaders ==
  {[Linux EXCEPT !.pe_header = FALSE],
   [Linux EXCEPT !.characteristics = {"EXECUTABLE_IMAGE", "BYTES_REVERSED_HI"}],
   [Linux EXCEPT !.characteristics = {}],
   [Linux EXCEPT !.characteristics = {"DLL", "RELOCS_STRIPPED"}],
   [Linux EXCEPT !.machine = "OTHER"],
   [Linux EXCEPT !.magic = "HDR32"],
   [Linux EXCEPT !.file_alignment = 1],
   [Linux EXCEPT !.size_of_image = 5],
   [Linux EXCEPT !.size_of_image = 7, !.size_of_headers = 8],
   [Linux EXCEPT !.size_of_headers = 5],
   [Linux EXCEPT !.entry_point = 25]}

BadSections ==
  {WithSections(<<[Text EXCEPT !.virtual_size = 0], Data>>),
   WithSections(<<Text, [Data EXCEPT !.virtual_address = 26]>>),
   WithSections(<<[Text EXCEPT !.pointer_to_raw_data = 2], Data>>),
   WithSections(<<Text, [Data EXCEPT !.virtual_address = 23]>>),
   [Relocated EXCEPT !.sections = <<Reloc, Text, Reloc>>]}

BadBlocks ==
  {[Relocated EXCEPT !.block.size_of_block = 0],
   [Relocated EXCEPT !.block.size_of_block = 3],
   [Relocated EXCEPT !.block.virtual_address = 25],
   [Relocated EXCEPT !.block.known_types = FALSE],
   [Relocated EXCEPT !.sections[3].pointer_to_raw_data = 22],
   [Relocated EXCEPT !.reloc_directory.size = 0, !.sections[3].virtual_size = 2]}

GoodImages ==
  {Linux, Relocated,
   WithSections(<<>>),
   WithSections(<<Data, Text>>),
   WithSections(<<[Text EXCEPT !.virtual_size = 4], [Data EXCEPT !.discardable = TRUE]>>),
   WithSections(<<[Reloc EXCEPT !.virtual_size = 0], Text, Data>>),
   WithSections(<<[Text EXCEPT !.virtual_address = 7], Data, Bss>>),
   [Linux EXCEPT !.section_alignment = 0],
   [Linux EXCEPT !.section_alignment = 0, !.file_alignment = 0],
   [Linux EXCEPT !.section_alignment = 8],
   [Linux EXCEPT !.section_alignment = 1, !.size_of_image = 22],
   [Linux EXCEPT !.entry_point = 0],
   [Linux EXCEPT !.number_of_RVA_and_sizes = 5],
   [Relocated EXCEPT !.image_base = 64]}

(* The kernel as linked at image_base, with one absolute address in .data  *)
(* and a .reloc section that is as large as its directory entry.           *)
LinkedImages == {[WithSections(<<Text, Data, Reloc>>) EXCEPT !.fixups = {12}]}

MCImages == BadHeaders \cup BadSections \cup BadBlocks \cup GoodImages
=============================================================================

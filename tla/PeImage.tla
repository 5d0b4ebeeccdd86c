------------------------------ MODULE PeImage ------------------------------
(***************************************************************************)
(* The computations of src/pe_loader.c on a PE image: checking its headers *)
(* (is_loadable, read_headers), laying out its sections                    *)
(* (relocate_sections) and walking its base relocations                    *)
(* (relocation_fixup), together with the size and alignment arithmetic of  *)
(* allocate_aligned_buffer_ext.                                            *)
(*                                                                         *)
(* An image is a record with the header fields the code reads.  Addresses  *)
(* and sizes are small naturals; NULL is address 0.  The widths of the C   *)
(* types and the sizes of the C structures are constants, so that a small  *)
(* instance keeps the wrap-around of the original.                         *)
(***************************************************************************)
EXTENDS Naturals, Integers, Sequences, FiniteSets, FiniteSetsExt

CONSTANTS
  PAGE_SIZE,         \* config.h
  U32, U64,          \* number of values of uint32_t and of uint64_t
  COFF_HEADER,       \* sizeof(struct PE_COFF_header)
  SECTION_HEADER,    \* sizeof(struct PE_section_header)
  RELOC_HEADER,      \* sizeof(struct PE_base_relocation)
  FILE_ALIGNMENT     \* used by read_headers when the field is 0 (0x200)

ASSUME PeImageAssumption ==
  /\ PAGE_SIZE \in Nat \ {0} /\ U32 \in Nat \ {0} /\ U64 \in Nat \ {0}
  /\ COFF_HEADER \in Nat \ {0} /\ SECTION_HEADER \in Nat \ {0}
  /\ RELOC_HEADER \in Nat \ {0} /\ FILE_ALIGNMENT \in Nat \ {0}

NULL == 0

-----------------------------------------------------------------------------
(* ALIGN_VALUE(v, a) for a power of two: (a - v) & (a - 1) is the distance *)
(* from v up to the next multiple of a.                                    *)
ALIGN_VALUE(v, a) == v + ((a - v) % a)

(* The memory allocate_aligned_buffer_ext asks for, and what it makes of   *)
(* the pages it gets at address raw.                                       *)
AlignedPagesNoSlack(length, alignment) ==
  ALIGN_VALUE(length, alignment) \div PAGE_SIZE

AlignedPages(length, alignment) ==
  ALIGN_VALUE(length + alignment, alignment) \div PAGE_SIZE

AlignedBase(raw, alignment) == ALIGN_VALUE(raw, alignment)

(***************************************************************************)
(* image_address(): base + address, or NULL if the address is outside of   *)
(* the image or would overflow.                                            *)
(***************************************************************************)
image_address(image, size, address) ==
  IF address > size \/ (U64 - 1) - address < image THEN NULL ELSE image + address

-----------------------------------------------------------------------------
(* is_loadable(), on a 64 bit little endian platform.                      *)
is_loadable(img) ==
  /\ img.characteristics \cap {"BYTES_REVERSED_LO", "BYTES_REVERSED_HI"} = {}
  /\ img.machine = "NATIVE"
  /\ img.characteristics \cap {"EXECUTABLE_IMAGE", "DLL"} # {}
  /\ "RELOCS_STRIPPED" \notin img.characteristics
  /\ img.magic = "HDR64"

SectionHeaderOffset(img) ==
  (img.pe_offset + COFF_HEADER + img.size_of_optional_header) % U32

(* The section table ends before size_of_image and before size_of_headers; *)
(* both differences are unsigned.                                          *)
SectionTableFits(img) ==
  LET n      == Len(img.sections)
      offset == SectionHeaderOffset(img)
  IN  /\ ((img.size_of_image - offset) % U32) \div SECTION_HEADER > n
      /\ ((img.size_of_headers - offset) % U64) \div SECTION_HEADER >= n
      /\ img.size_of_image >= img.size_of_headers

read_headers(img) ==
  IF ~img.pe_header THEN "EFI_LOAD_ERROR"
  ELSE IF ~is_loadable(img) THEN "EFI_UNSUPPORTED"
  ELSE IF img.file_alignment % 2 = 1 \/ ~SectionTableFits(img) THEN "EFI_LOAD_ERROR"
  ELSE "EFI_SUCCESS"

(* ctx.section_alignment after read_headers().                             *)
SectionAlignment(img) ==
  IF img.section_alignment # 0 THEN img.section_alignment
  ELSE Max({PAGE_SIZE,
            IF img.file_alignment = 0 THEN FILE_ALIGNMENT ELSE img.file_alignment})

-----------------------------------------------------------------------------
(* relocate_sections().  A section is looked at unless it is empty and     *)
(* discardable, and loaded unless it is discardable.                       *)

SectionBase(img, buffer, sec) ==
  image_address(buffer, img.size_of_image, sec.virtual_address)

SectionLast(img, buffer, sec) ==
  image_address(buffer, img.size_of_image,
                (sec.virtual_address + sec.virtual_size - 1) % U32)

RelocationBase(img, buffer) ==
  image_address(buffer, img.size_of_image, img.reloc_directory.virtual_address)

RelocationEnd(img, buffer) ==
  image_address(buffer, img.size_of_image,
     (img.reloc_directory.virtual_address + img.reloc_directory.size + 1) % U32)

Skipped(sec) == sec.discardable /\ sec.virtual_size = 0

(* The section is named .reloc and spans what the data directory says.     *)
IsRelocSection(img, buffer, sec) ==
  LET base == SectionBase(img, buffer, sec)
      last == SectionLast(img, buffer, sec)
  IN  /\ ~Skipped(sec) /\ sec.name = ".reloc"
      /\ sec.size_of_raw_data > 0 /\ sec.virtual_size > 0
      /\ base # NULL /\ last # NULL
      /\ RelocationBase(img, buffer) = base /\ RelocationEnd(img, buffer) = last

SectionStatus(img, buffer, i) ==
  LET sec  == img.sections[i]
      base == SectionBase(img, buffer, sec)
      last == SectionLast(img, buffer, sec)
  IN  IF Skipped(sec) THEN "EFI_SUCCESS"
      ELSE IF last < base THEN "EFI_LOAD_ERROR"
      ELSE IF /\ sec.name = ".reloc"
              /\ \E j \in 1 .. i - 1 : IsRelocSection(img, buffer, img.sections[j])
      THEN "EFI_UNSUPPORTED"
      ELSE IF sec.discardable THEN "EFI_SUCCESS"
      ELSE IF base = NULL \/ last = NULL THEN "EFI_LOAD_ERROR"
      ELSE IF ~sec.uninitialized /\ sec.pointer_to_raw_data < img.size_of_headers
      THEN "EFI_LOAD_ERROR"
      ELSE "EFI_SUCCESS"

(* The loop ends at the first section that is not in order.                *)
relocate_sections(img, buffer) ==
  LET bad == {i \in DOMAIN img.sections : SectionStatus(img, buffer, i) # "EFI_SUCCESS"}
  IN  IF bad = {} THEN "EFI_SUCCESS" ELSE SectionStatus(img, buffer, Min(bad))

(* Indices of the section header returned in *reloc_section: none or one.  *)
RelocSections(img, buffer) ==
  {i \in DOMAIN img.sections : IsRelocSection(img, buffer, img.sections[i])}

(***************************************************************************)
(* The bytes relocate_sections() leaves at offset `a' of the new image:    *)
(* <<"file", n>> is byte n of the file, <<"zero", 0>> a cleared byte,      *)
(* <<"junk", 0>> whatever the fresh page held.  The last section written   *)
(* wins; a section copies all its raw data and clears the rest.            *)
(***************************************************************************)
SectionWrites(sec, a) ==
  /\ ~sec.discardable
  /\ a \in sec.virtual_address ..
           sec.virtual_address
             + (IF sec.uninitialized THEN sec.virtual_size
                ELSE Max({sec.virtual_size, sec.size_of_raw_data})) - 1

SectionByteNotCleared(sec, a) ==
  IF ~sec.uninitialized /\ a - sec.virtual_address < sec.size_of_raw_data
  THEN <<"file", sec.pointer_to_raw_data + (a - sec.virtual_address)>>
  ELSE <<"junk", 0>>

SectionByte(sec, a) ==
  IF ~sec.uninitialized /\ a - sec.virtual_address < sec.size_of_raw_data
  THEN <<"file", sec.pointer_to_raw_data + (a - sec.virtual_address)>>
  ELSE <<"zero", 0>>

HeaderBytes(img) ==
  [a \in 0 .. img.size_of_image - 1 |->
     IF a < img.size_of_headers THEN <<"file", a>> ELSE <<"junk", 0>>]

SectionBytes(img, mem) ==
  [a \in DOMAIN mem |->
     LET writers == {i \in DOMAIN img.sections : SectionWrites(img.sections[i], a)}
     IN  IF writers = {} THEN mem[a] ELSE SectionByte(img.sections[Max(writers)], a)]

-----------------------------------------------------------------------------
(***************************************************************************)
(* relocation_fixup(): the statuses it can return when the source image is *)
(* at address base.  img.block is the first relocation block.  The step to *)
(* the next block is pointer arithmetic on the structure and counts        *)
(* RELOC_HEADER times too far, so what is read there is not a block        *)
(* header: any status is possible if it still lies in the section.  All    *)
(* patches go to the source image at base, none to the new one.            *)
(***************************************************************************)
relocation_fixup(img, base, buffer, sec) ==
  LET first == image_address(base, img.size_of_image, sec.pointer_to_raw_data)
      end   == image_address(base, img.size_of_image,
                  (sec.pointer_to_raw_data + sec.virtual_size) % U32)
      step  == RELOC_HEADER * (img.block.size_of_block + RELOC_HEADER)
  IN  IF first = NULL /\ end = NULL THEN {"EFI_SUCCESS"}
      ELSE IF first = NULL \/ end = NULL THEN {"EFI_UNSUPPORTED"}
      ELSE IF buffer = img.image_base THEN {"EFI_SUCCESS"}
      ELSE IF \/ img.block.size_of_block = 0
              \/ img.block.size_of_block > img.reloc_directory.size
              \/ image_address(base, img.size_of_image, img.block.virtual_address) = NULL
              \/ ~img.block.known_types
      THEN {"EFI_UNSUPPORTED"}
      ELSE IF step < sec.virtual_size THEN {"EFI_SUCCESS", "EFI_UNSUPPORTED"}
      ELSE {"EFI_SUCCESS"}

-----------------------------------------------------------------------------
(* What the PE format asks of a linker: sections in ascending order, apart *)
(* from each other and from the headers, inside the image.                 *)
WellFormed(img) ==
  /\ img.section_alignment # 0
  /\ \A i \in DOMAIN img.sections :
       LET sec == img.sections[i]
           top == sec.virtual_address + Max({sec.virtual_size, sec.size_of_raw_data})
       IN  /\ sec.virtual_address >= img.size_of_headers
           /\ top <= img.size_of_image
           /\ i < Len(img.sections) => top <= img.sections[i + 1].virtual_address

(* The byte the PE format puts at offset a of a section.                   *)
ReferenceByte(sec, a) ==
  IF sec.uninitialized \/ a - sec.virtual_address >= sec.size_of_raw_data
  THEN <<"zero", 0>>
  ELSE <<"file", sec.pointer_to_raw_data + (a - sec.virtual_address)>>
=============================================================================

----------------------------- MODULE ImageTools -----------------------------
(***************************************************************************)
(* tools/build_image.c, which puts the kernel, the initrd, the device tree *)
(* and the command line into sections of the boot stub, and                *)
(* tools/pe_fixup.c, which completes the header of a linked image.  What   *)
(* they write is read back by PE_locate_sections() of src/pe.c.            *)
(*                                                                         *)
(* A file is a record of its size and, for a PE image, its headers; what   *)
(* the tool copies into it is kept as a list of extents.  An element of    *)
(* `fails' names the system call that fails.                               *)
(***************************************************************************)
EXTENDS Integers, Sequences, SequencesExt, FiniteSetsExt

CONSTANTS
  PE_HEADER_SIZE,     \* bytes inspect_pe reads
  DefaultAlignment,   \* PAGE_SIZE, for an image that gives no alignment
  DefaultFile         \* 0x200, for an image that gives no file alignment

NoPe == [magic |-> "none"]

(* The sections in the order of section_data[].                            *)
SectionNames == <<".osrel", ".cmdline", ".dtb", ".splash", ".linux", ".initrd">>

ALIGN_VALUE(v, a) == v + ((a - v) % a)

Failed(step) == [status |-> 1, step |-> step]

(* inspect_pe()                                                            *)
inspect_pe(file) ==
  /\ file.size >= PE_HEADER_SIZE
  /\ file.pe # NoPe /\ file.pe.offset_ok
  /\ file.pe.magic \in {"PE32", "PE32+"}

Alignment(a, default) == IF a = 0 THEN default ELSE a

SectionAlignment(stub, files) ==
  LET own == Alignment(stub.pe.section_alignment, DefaultAlignment)
  IN  IF inspect_pe(files[".linux"])
      THEN Max({own, files[".linux"].pe.section_alignment}) ELSE own

(* A kernel that is a PE image takes the memory it says it needs.          *)
VirtualSize(stub, files, name) ==
  IF name = ".linux" /\ inspect_pe(files[name])
  THEN ALIGN_VALUE(files[name].pe.size_of_image, SectionAlignment(stub, files))
  ELSE files[name].size

(* The end of the last section, in the file and in memory.                 *)
End(from, sections, address, length, alignment) ==
  FoldLeft(LAMBDA end, s : IF end < s[address] + s[length]
                           THEN ALIGN_VALUE(s[address] + s[length], alignment) ELSE end,
           from, sections)

(* One turn of the loop that adds the sections.                            *)
PlaceUnaligned(at, stub, files, name) ==
  LET size    == files[name].size
      falign  == Alignment(stub.pe.file_alignment, DefaultFile)
      section == [name |-> name, virtual_size |-> VirtualSize(stub, files, name),
                  virtual_address |-> at.vma, size_of_raw_data |-> ALIGN_VALUE(size, falign),
                  pointer_to_raw_data |-> at.raw]
  IN  [at EXCEPT !.sections = Append(@, section),
                 !.copied = Append(@, [name |-> name, at |-> at.raw, size |-> size]),
                 !.size_of_image = @ + section.virtual_size,
                 !.vma = section.virtual_address + section.virtual_size,
                 !.raw = @ + size,
                 !.filesize = @ + section.size_of_raw_data]

Place(at, stub, files, name) ==
  LET size    == files[name].size
      falign  == Alignment(stub.pe.file_alignment, DefaultFile)
      salign  == SectionAlignment(stub, files)
      section == [name |-> name, virtual_size |-> VirtualSize(stub, files, name),
                  virtual_address |-> at.vma, size_of_raw_data |-> ALIGN_VALUE(size, falign),
                  pointer_to_raw_data |-> at.raw]
  IN  [at EXCEPT !.sections = Append(@, section),
                 !.copied = Append(@, [name |-> name, at |-> at.raw, size |-> size]),
                 !.size_of_image = @ + section.virtual_size,
                 !.vma = ALIGN_VALUE(section.virtual_address + section.virtual_size, salign),
                 !.raw = @ + section.size_of_raw_data,
                 !.filesize = @ + section.size_of_raw_data]

Built(stub, files) ==
  LET given == SelectSeq(SectionNames, LAMBDA n : n \in DOMAIN files)
      start == [sections |-> stub.pe.sections, copied |-> <<>>,
                size_of_image |-> stub.pe.size_of_image,
                raw |-> End(0, stub.pe.sections, "pointer_to_raw_data", "size_of_raw_data",
                            Alignment(stub.pe.file_alignment, DefaultFile)),
                vma |-> End(0, stub.pe.sections, "virtual_address", "virtual_size",
                            SectionAlignment(stub, files)),
                filesize |-> stub.size]
      end   == FoldLeft(LAMBDA at, n : Place(at, stub, files, n), start, given)
  IN  [status |-> 0, size |-> end.filesize, copied |-> end.copied,
       pe |-> [stub.pe EXCEPT !.sections = end.sections, !.size_of_image = end.size_of_image,
                 !.file_alignment = Alignment(@, DefaultFile),
                 !.section_alignment = SectionAlignment(stub, files),
                 !.stripped = TRUE]]

(* main() of build_image: the checks in their order.  The output is        *)
(* created before the header of the stub is looked at in full.             *)
build_image(stub, files, fails) ==
  IF ".linux" \notin DOMAIN files THEN Failed("arguments")
  ELSE IF "stub" \in fails \/ ~inspect_pe(stub) THEN Failed("stub")
  ELSE IF fails \cap DOMAIN files # {} THEN Failed("open")
  ELSE IF inspect_pe(files[".linux"]) /\ files[".linux"].pe.machine # stub.pe.machine
  THEN Failed("machine")
  ELSE IF "outfile" \in fails THEN Failed("outfile")
  ELSE IF stub.pe.relocs_stripped \/ stub.pe.reversed THEN Failed("header")
  ELSE Built(stub, files)

(* main() of pe_fixup, on an image it accepts.                             *)
FixupEnd(pe, alignment) ==
  ALIGN_VALUE(FoldLeft(LAMBDA end, s : IF end < s.virtual_address
                                       THEN s.virtual_address + s.virtual_size ELSE end,
                       0, pe.sections), alignment)

pe_fixup(file) ==
  IF file.pe = NoPe \/ file.pe.relocs_stripped \/ file.pe.reversed THEN Failed("header")
  ELSE IF \E i \in DOMAIN file.pe.sections : file.pe.sections[i].size_of_raw_data = 0
  THEN Failed("empty section")
  ELSE LET salign == Alignment(file.pe.section_alignment, DefaultAlignment)
       IN  [status |-> 0, size |-> file.size,
            pe |-> [file.pe EXCEPT !.stripped = TRUE, !.section_alignment = salign,
                      !.file_alignment = Alignment(@, DefaultFile),
                      !.size_of_image = FixupEnd(file.pe, salign)]]

(* PE_locate_sections(): the last section of a name wins.                  *)
Locate(pe, name) ==
  LET hits == {i \in DOMAIN pe.sections : pe.sections[i].name = name}
  IN  IF hits = {} THEN [load_address |-> 0, offset |-> 0, size |-> 0]
      ELSE LET s == pe.sections[Max(hits)]
           IN  [load_address |-> s.virtual_address, offset |-> s.pointer_to_raw_data,
                size |-> s.virtual_size]

-----------------------------------------------------------------------------

Apart(a, la, b, lb) == la = 0 \/ lb = 0 \/ a + la <= b \/ b + lb <= a

(* The stub, as the linker leaves it: its data ends with the file.         *)
Linked(stub) ==
  stub.size >= End(0, stub.pe.sections, "pointer_to_raw_data", "size_of_raw_data",
                   Alignment(stub.pe.file_alignment, DefaultFile))

(* What was put in is found: every file is located under its name, with    *)
(* its bytes inside the output and nothing written over them, at an        *)
(* address of its own that is not 0 and that the alignment allows.         *)
HoldsItsFiles(stub, files, built) ==
  LET secs == built.pe.sections
  IN  /\ \A name \in DOMAIN files :
           LET l == Locate(built.pe, name)
           IN  /\ l.load_address # 0 /\ l.load_address % built.pe.section_alignment = 0
               /\ l.size >= files[name].size
               /\ l.offset + files[name].size <= built.size
               /\ \E c \in ToSet(built.copied) :
                    c.name = name /\ c.at = l.offset /\ c.size = files[name].size
      /\ \A i, j \in DOMAIN secs : i # j =>
           /\ Apart(secs[i].virtual_address, secs[i].virtual_size,
                    secs[j].virtual_address, secs[j].virtual_size)
           /\ Apart(secs[i].pointer_to_raw_data, secs[i].size_of_raw_data,
                    secs[j].pointer_to_raw_data, secs[j].size_of_raw_data)
      /\ SubSeq(secs, 1, Len(stub.pe.sections)) = stub.pe.sections
=============================================================================

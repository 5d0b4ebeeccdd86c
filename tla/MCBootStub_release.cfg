SPECIFICATION Spec

CONSTANTS
  NDEBUG = TRUE
  USE_LZ4 = TRUE
  USE_ZSTD = TRUE
  USE_EFI_DT_FIXUP = TRUE
  Growth = {0, 1, 3}
  RawAddresses = {64}
  PAGE_SIZE = 4
  U32 = 256
  U64 = 4096
  COFF_HEADER = 1
  SECTION_HEADER = 1
  RELOC_HEADER = 2
  FILE_ALIGNMENT = 8
  SourceBase = 128
  Stubs <- MCStubs
  Sections <- MCSections
  Images <- MCImages

INVARIANTS
  KernelInputsLive
  KernelUndamaged
  PublishedTreeIsWhole
PROPERTIES
  ImplementsContract
  StubDecides

SPECIFICATION Spec

CONSTANTS
  NDEBUG = TRUE
  PAGE_SIZE = 4
  U32 = 256
  U64 = 4096
  COFF_HEADER = 1
  SECTION_HEADER = 1
  RELOC_HEADER = 2
  FILE_ALIGNMENT = 8
  RawAddresses = {64, 68}
  SourceBase = 128
  Images <- MCImages

INVARIANTS
  FailureReleases
  ProtocolsLive
  KernelPagesHeld
  SectionsInPlace
  AlignedImageFits
PROPERTIES
  LoaderAnswers

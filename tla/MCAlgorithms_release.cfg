SPECIFICATION Spec
CONSTANTS
  BlockJobs <- MCBlockJobs
  StreamJobs <- MCStreamJobs
  Streamed <- MCStreamed
  CountJobs <- MCCountJobs
  CodeJobs <- MCCodeJobs
  FrameJobs <- MCFrameJobs
  Compressed <- Compress
  Decompressed <- Decompress
  HashJobs <- MCHashJobs
  ImageJobs <- MCImageJobs
  TextJobs <- MCTextJobs
  PE_HEADER_SIZE = 4
  DefaultAlignment = 4
  DefaultFile = 2
  HufLog = 9
  MinWindowLog = 5
  SplitMin = 4
  CurrentMax = 300
  IndexMargin = 40
  KB64 = 64
  KB4 = 30
  OffsetMax = 300
  HashSize = 32
  OptNum = 40
  INT_RANGE = 65536
  LEN_RANGE = 64
INVARIANTS
  BlocksDecoded
  EntropyDecoded
  HashStreams
  ImageHoldsFiles
  TextRight
CHECK_DEADLOCK FALSE

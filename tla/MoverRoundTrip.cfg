CONSTANTS
  Chunks = 4
  ChunkUnits = 5
  Depth = 1
  OutUnits = 4
  InUnits = 2
  BufferBlocks = 2
  ZstdFiles <- MCZstdFiles
SPECIFICATION FairSpec
INVARIANTS BuffersKept StreamInOrder ChecksumContinues ContentComesBack
PROPERTY RoundTripEnds

CONSTANTS
  BlockBytes = 3
  MAX_NUMBER_BLOCKS = 3
  MaxBlocks = 5
  hostBufferSize = 9
  BlockSizes = {2, 3}
  FrameBlocks = 3
  Files <- MCFiles
SPECIFICATION Lz4FairSpec
INVARIANTS FramedInOrder RoomForSizeWord FileComesBack
PROPERTY RoundTripEnds

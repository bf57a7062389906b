CONSTANTS
  MAX_NUMBER_BLOCKS = 3
  MaxBlocks = 7
  MaxForeign = 5
  Streams <- MCStreams
SPECIFICATION FairSpec
INVARIANTS FramedInOrder BatchFits FileComesBack
PROPERTY RoundTripEnds

CONSTANTS
  MAX_NUMBER_BLOCKS = 3
  MaxBlocks = 4
SPECIFICATION Spec
INVARIANT UncompressedCopy

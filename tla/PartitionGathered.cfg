CONSTANTS
  Sections = 2
  Partitions = 2
  MaxRows = 2
  Results <- TwoPartitions
SPECIFICATION Spec
INVARIANT AllGathered

CONSTANTS
  Sections = 3
  Partitions = 2
  MaxRows = 2
  Results <- TwoPartitions
SPECIFICATION FairSpec
INVARIANTS BuffersKept RowsGathered NoWorkLeft
PROPERTY Ends

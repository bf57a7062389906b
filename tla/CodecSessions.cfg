CONSTANTS
  Sessions <- Runs
  Chunks = 3
  InDepth = 2
  OutDepth = 2
SPECIFICATION FairSpec
INVARIANTS TypeOK OwnWorkshop DeletedAtRest JoinsOwnThread Delivered ChecksumReady
PROPERTY AllSessionsEnd

CONSTANTS
  p1 = p1  p2 = p2  c1 = c1
  Free = Free
  Producers <- TwoProducers
  Consumers <- OneConsumer
  MaxSize = 2
  PushSizes <- Sizes012
  PopSizes <- Sizes13
  MaxFrames = 1
  MaxCalls = 5
SPECIFICATION FairSpec
INVARIANTS NoLostWakeup
PROPERTY EverybodyServed

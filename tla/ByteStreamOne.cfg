CONSTANTS
  p1 = p1  p2 = p2  c1 = c1
  Free = Free
  Producers <- OneProducer
  Consumers <- OneConsumer
  MaxSize = 2
  PushSizes <- Sizes012
  PopSizes <- Sizes013
  MaxFrames = 2
  MaxCalls = 5
SPECIFICATION Spec
INVARIANTS TypeOK Lossless PopWithinFrame
PROPERTY ImplementsChannel

SPECIFICATION FairSpec
CONSTANTS
  FrameSamples = 3
  TxBatchFrames = 2
  MaxSendQueue = 2
  SeqWrap = 3
  TsWrap = 8
  MaxTicks = 10
INVARIANTS
  TypeOK
  NoEnqueueAfterCleanup
  NoLostWakeup
  MediaClock
  StreamOrder
PROPERTIES
  FeedSpec
  StopReturns

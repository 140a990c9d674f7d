SPECIFICATION FairSpec
CONSTANTS
  FrameSamples = 3
  MaxRxBuf = 2
  Prefetch = 2
  Sizes = {0, 1, 2, 3, 5, 10}
  MaxOctets = 21
  Audio <- RunAudio
INVARIANTS
  TypeOK
  Understood
  CarryOver
  BufferIsLatest
PROPERTIES
  PlayedOut
  PlayoutSpec

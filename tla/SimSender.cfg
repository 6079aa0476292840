\* Three frames stand for 20000, the h264 queue has one place.
SPECIFICATION FairSpec
CONSTANTS
  Main = main
  Encoder = encoder
  Packet = packet
  NoBuffer = NoBuffer
  H264Size = 1
  Limit = 2
  MaxQueue = 3
  MaxResumes = 2
INVARIANTS RateKnownWhenSending NetworkStateKept LateFrames
PROPERTY SenderEnds
CHECK_DEADLOCK FALSE

\* Two places for streams: the dummy stream of a DESCRIBE and a client, or two clients.
SPECIFICATION FairSpec
CONSTANTS
  Streams = {stream1, stream2}
  NoStream = NoStream
  Encoder = encoder
  NoBuffer = NoBuffer
  H264Size = 1
  GopSize = 2
  MaxSizes = {1, 2}
  MaxTasks = 2
INVARIANTS WholePackets BareOnlyMeanwhile CheckedSinkIsOpen
PROPERTIES ReadsAnswered DescribeAnswered ImplementsLiveStreams

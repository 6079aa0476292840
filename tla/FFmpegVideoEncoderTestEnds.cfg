\* main() hangs in join() when the encoder thread waits for a place in the h264 queue,
\* even if no thread misses the wakeup of a Stop().
SPECIFICATION WakingTestSpec
CONSTANTS
  Capture = capture
  Encoder = encoder
  Client = client
  RgbSize = 2
  H264Size = 1
  MaxFrame = 1
  Params = {params1}
  NoBuffer = NoBuffer
  Pops = 3
PROPERTY TestEnds
CHECK_DEADLOCK FALSE

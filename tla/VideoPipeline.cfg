\* Capture, encoder and client in any order, the owner too.
SPECIFICATION FairSpec
CONSTANTS
  Capture = capture
  Encoder = encoder
  Client = client
  RgbSize = 2
  H264Size = 1
  MaxFrame = 2
  Params = {params1}
  NoBuffer = NoBuffer
INVARIANTS PipelineInOrder NoPacketRefused
PROPERTIES UnforcedFramesAreNew EncoderCallsReturn KeyFrameServed

\* main() is both the client and the owner.
SPECIFICATION TestSpec
CONSTANTS
  Capture = capture
  Encoder = encoder
  Client = client
  RgbSize = 2
  H264Size = 1
  MaxFrame = 1
  Params = {params1}
  NoBuffer = NoBuffer
  Pops = 3
INVARIANT EndsClean
PROPERTY HangsOnlyInPush
CHECK_DEADLOCK FALSE

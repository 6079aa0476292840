\* main() is both the client and the owner.
SPECIFICATION TestSpec
CONSTANTS
  Capture = capture
  Client = main
  Main = main
  Frame = frame
  QueueSize = 2
  NoBuffer = NoBuffer
  NoThread = NoThread
  Pops = 3
PROPERTY HangsOnlyOnMissedStop
CHECK_DEADLOCK FALSE

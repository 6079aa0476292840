\* main() hangs in join() when the capture thread sleeps through Stop().
SPECIFICATION TestSpec
CONSTANTS
  Capture = capture
  Client = main
  Main = main
  Frame = frame
  QueueSize = 2
  NoBuffer = NoBuffer
  NoThread = NoThread
  Pops = 3
PROPERTY TestEnds
CHECK_DEADLOCK FALSE

\* The capture, its queue of two places, a client that keeps popping and an
\* owner that calls in any order.
SPECIFICATION FairQueueSpec
CONSTANTS
  Capture = capture
  Client = client
  Main = main
  Frame = frame
  QueueSize = 2
  NoBuffer = NoBuffer
  NoThread = NoThread
INVARIANTS NoCaptureAfterFree NoThreadOverwritten DestroyedWhole NoPushAfterStop
PROPERTIES StopReturns CallsReturn ImplementsCaptureFifo

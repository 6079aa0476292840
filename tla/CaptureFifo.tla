------------------------------ MODULE CaptureFifo ------------------------------
(***************************************************************************)
(* What the capture with its rgb queue promises: X11DesktopCapture whose    *)
(* queue is a BoundedFifo.  Calls take effect in one step, there is no      *)
(* mutex, no condition and no window in Stop().  This is how VideoPipeline  *)
(* and the programs built on it see the capture; CaptureQueue implements    *)
(* it.                                                                      *)
(***************************************************************************)
EXTENDS X11DesktopCapture, Sequences

CONSTANTS
  Capture,   (* m_process_thread                                            *)
  Client,    (* the thread that pops                                        *)
  Frame,     (* the content of a frame                                      *)
  QueueSize, (* the size the queue is made with                             *)
  NoBuffer

VARIABLES fifo, open, inCall, box

q == INSTANCE BoundedFifo WITH
  Producers <- {Capture}, Consumers <- {Client}, Buffers <- {Frame}, Size <- QueueSize

qvars == <<fifo, open, inCall, box>>
fifovars == <<vars, qvars>>

FifoInit == Init /\ q!Init

--------------------------------------------------------------------------------
(* The capture thread: a push begins with the frame, and comes back having *)
(* stored or dropped it.                                                   *)
Grabs == Grab /\ q!Invoke(Capture, Frame)
Stores == q!Put(Capture) /\ PushReturns
Drops == q!Refuse(Capture) /\ PushReturns
Leaves == (LeaveLoop \/ GrabFails) /\ UNCHANGED qvars

(* The owner's calls of the queue are a step each. *)
Starts == StartThread /\ q!SetOpen(TRUE)
Stops == StopQueue /\ q!SetOpen(FALSE)
OwnerElsewhere ==
  /\ \/ Usable /\ StartVideoCapture
     \/ StopVideoCapture("idle")
     \/ DestroyVideoCapture
     \/ Join \/ DetachFails \/ Release
  /\ UNCHANGED qvars

ClientPops ==
  /\ q!Invoke(Client, NoBuffer) \/ q!Get(Client) \/ q!Refuse(Client)
  /\ UNCHANGED vars

FifoNext ==
  \/ Grabs \/ Stores \/ Drops \/ Leaves
  \/ Starts \/ Stops \/ OwnerElsewhere
  \/ ClientPops

FifoSpec == FifoInit /\ [][FifoNext]_fifovars
================================================================================

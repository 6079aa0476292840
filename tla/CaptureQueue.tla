------------------------------ MODULE CaptureQueue ------------------------------
(***************************************************************************)
(* X11DesktopCapture with its rgb queue: the capture thread produces into a *)
(* BufferQueue, a Client thread consumes from it, and the owner, Main,      *)
(* starts, stops and destroys the capture while both are inside the queue.  *)
(* The queue is the detailed one, with its mutex and conditions, because    *)
(* what is at stake is whether StopVideoCapture() gets the capture thread   *)
(* out of WaitePushBuffer() so that join() returns.                         *)
(***************************************************************************)
EXTENDS X11DesktopCapture, Sequences, FiniteSets

CONSTANTS
  Capture,   (* m_process_thread                                            *)
  Client,    (* the thread that pops: Main itself in the capture test       *)
  Main,      (* the owner                                                   *)
  Frame,     (* the content of a frame                                      *)
  QueueSize, (* the size the queue is made with                             *)
  NoBuffer, NoThread

ASSUME CaptureAssumption ==
  /\ Capture # Client /\ NoThread \notin {Capture, Client}
  /\ NoBuffer # Frame
  /\ QueueSize \in Nat

VARIABLES rgb_queue, rgb_running, rgb_mutex, rgb_pc, rgb_buffer, rgb_stop

rgb == INSTANCE BufferQueue WITH
  Producers <- {Capture}, Consumers <- {Client}, Controllers <- {Main},
  Buffers <- {Frame}, m_size <- QueueSize,
  m_buffer_queue <- rgb_queue, m_running <- rgb_running, m_mutex <- rgb_mutex,
  pc <- rgb_pc, buffer <- rgb_buffer, stop_pc <- rgb_stop

rgbvars == <<rgb_queue, rgb_running, rgb_mutex, rgb_pc, rgb_buffer, rgb_stop>>
allvars == <<vars, rgbvars>>

QueueInit == Init /\ rgb!Init

--------------------------------------------------------------------------------
(* The capture thread: a push begins with the frame, and ends when the     *)
(* thread is out of its call.                                              *)
CaptureGrabs == Grab /\ rgb!Call(Capture, Frame)
CapturePushes ==
  rgb!PushStep(Capture) /\ IF rgb_pc'[Capture] = "out" THEN PushReturns ELSE UNCHANGED vars
CaptureLeaves == LeaveLoop /\ UNCHANGED rgbvars
CaptureRuns == CaptureGrabs \/ CapturePushes \/ CaptureLeaves
CaptureFails == GrabFails /\ UNCHANGED rgbvars

(* The owner's calls of the queue: Start() is one step, Stop() is three,   *)
(* and the last of them is its return.                                     *)
MainStarts == StartThread /\ rgb!Start(Main)
MainStopsQueue ==
  \/ owner = "stop_queue" /\ rgb!StopFlag(Main) /\ UNCHANGED vars
  \/ rgb!StopNotifyPush(Main) /\ UNCHANGED vars
  \/ rgb!StopNotifyPop(Main) /\ StopQueue

(* The owner inside a call. *)
MainGoesOn ==
  \/ MainStarts
  \/ MainStopsQueue
  \/ (Join \/ DetachFails \/ Release) /\ UNCHANGED rgbvars

(* The owner beginning a call. *)
MainCalls ==
  /\ (Usable /\ StartVideoCapture) \/ StopVideoCapture("idle") \/ DestroyVideoCapture
  /\ UNCHANGED rgbvars

ClientCalls == rgb!Call(Client, NoBuffer) /\ UNCHANGED vars
ClientPops == rgb!PopStep(Client) /\ UNCHANGED vars

Spurious == (\E t \in {Capture, Client} : rgb!SpuriousWakeup(t)) /\ UNCHANGED vars

QueueNext ==
  \/ CaptureRuns \/ CaptureFails
  \/ MainCalls \/ MainGoesOn
  \/ ClientCalls \/ ClientPops
  \/ Spurious

QueueSpec == QueueInit /\ [][QueueNext]_allvars

(* The capture thread and the owner are scheduled; the client pops for     *)
(* ever.  Every thread that finds the mutex free time after time gets it.  *)
QueueFairness ==
  /\ WF_allvars(CaptureGrabs) /\ SF_allvars(CapturePushes) /\ WF_allvars(CaptureLeaves)
  /\ WF_allvars(MainGoesOn)
  /\ WF_allvars(ClientCalls) /\ SF_allvars(ClientPops)

FairQueueSpec == QueueSpec /\ QueueFairness

--------------------------------------------------------------------------------
(* StopVideoCapture() and DestroyVideoCapture() come back although the      *)
(* capture thread may sleep through the queue's Stop(): a client that keeps *)
(* popping lets it out (VideoCapture.cpp:33-36).                            *)
StopReturns == owner # "idle" ~> owner = "idle"

(* When StopVideoCapture() has returned the capture thread is out of the    *)
(* queue, so no frame arrives any more until the next start.                *)
NoPushAfterStop == owner = "idle" /\ ~m_start_capture => rgb_pc[Capture] = "out"

(* Every push comes back, and every pop, also one that slept through a      *)
(* Stop() and sleeps on when the capture is started again: the next frame   *)
(* wakes it, unless the capture is stopped before.  Only a pop of the empty *)
(* queue may sleep on, while there is no capture to push: none was started, *)
(* its Stop() was slept through, or its thread died of a failed grab        *)
(* (BufferQueue.hpp:27-57).                                                 *)
CallsReturn ==
  /\ rgb_pc[Capture] # "out" ~> rgb_pc[Capture] = "out"
  /\ rgb_pc[Client] # "out"
       ~> \/ rgb_pc[Client] = "out" \/ owner = "stop_queue"
          \/ rgb_pc[Client] = "asleep" /\ rgb!IsEmpty /\ (~m_start_capture \/ thread = "exited")

(* Each call of the queue takes effect in one step for capture and client,  *)
(* also while Stop() is between its three statements: to them the owner is  *)
(* in its join from the moment m_running is false (BufferQueue.hpp:52-56,   *)
(* VideoCapture.cpp:33-36).                                                 *)
AtomicCapture == INSTANCE CaptureFifo WITH
  owner <- IF owner = "stop_queue" /\ rgb_stop[Main] # "idle" THEN "join" ELSE owner,
  fifo <- rgb_queue, open <- rgb_running,
  inCall <- {t \in {Capture, Client} : rgb_pc[t] # "out"}, box <- rgb_buffer

ImplementsCaptureFifo == AtomicCapture!FifoSpec
================================================================================

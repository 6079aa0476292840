--------------------------- MODULE X11DesktopCapture ---------------------------
(***************************************************************************)
(* The desktop capture: VideoCapture (VideoCapture.cpp) and its only        *)
(* subclass X11DesktopCapture (X11DesktopCapture.cpp).  One thread, the     *)
(* owner, constructs, starts, stops and destroys it; the object runs a      *)
(* second thread, m_process_thread, that grabs frames into a shared-memory  *)
(* image and pushes copies of them to m_buffer_queue.                       *)
(*                                                                          *)
(* The queue is not part of this module: a push returns when it returns,    *)
(* and the owner's calls of the queue are the steps StartThread and         *)
(* StopQueue.  X11VideoCaptureTest and VideoPipeline put a queue there.     *)
(***************************************************************************)
EXTENDS Naturals

VARIABLES
  m_start_capture,
  live,     (* what exists: a pointer in it is not null, "shmid" is not -1, *)
            (* "shmaddr" is a valid mapping, "attached": to the X server    *)
  thread,   (* where m_process_thread is; "none": not joinable              *)
  owner,    (* where the owner's thread is in a call; "idle": in none       *)
  stop_for  (* where the owner goes on after StopVideoCapture()             *)

vars == <<m_start_capture, live, thread, owner, stop_for>>

Resources == {"m_display", "m_shm_segment_info", "m_x_shm_image", "shmid", "shmaddr", "attached"}
ThreadPC == {"none", "loop", "pushing", "exited"}
OwnerPC == {"idle", "start_thread", "stop_queue", "join", "destroy"}

TypeOK ==
  /\ m_start_capture \in BOOLEAN
  /\ live \subseteq Resources
  /\ thread \in ThreadPC
  /\ owner \in OwnerPC
  /\ stop_for \in {"idle", "destroy"}
  /\ owner \in {"stop_queue", "join", "destroy"} => ~m_start_capture

(* Where InitVideoCapture() and InitShmImages() can stop.  The constructor  *)
(* ignores the result.  A failed shmat() is not noticed: the segment is     *)
(* attached to the X server all the same.                                   *)
InitOutcomes ==
  LET display == {"m_display"}
      info    == display \cup {"m_shm_segment_info"}
      image   == info \cup {"m_x_shm_image"}
      segment == image \cup {"shmid"}
  IN {{}, display, info, image, segment, segment \cup {"attached"},
      segment \cup {"shmaddr"}, segment \cup {"shmaddr", "attached"}}

Init ==
  /\ m_start_capture = FALSE
  /\ live \in InitOutcomes
  /\ thread = "none"
  /\ owner = "idle"
  /\ stop_for = "idle"

(* What the capture thread dereferences: the display connection, the image  *)
(* and the memory the X server and the process share.                       *)
Usable == Resources \subseteq live

--------------------------------------------------------------------------------
(* Mutated forms of the definitions below: bugs the properties must catch. *)

(* StopVideoCapture() that resets m_start_capture after the join. *)
StopKeepsFlag(next) ==
  /\ owner = "idle"
  /\ m_start_capture
  /\ owner' = "stop_queue"
  /\ stop_for' = next
  /\ UNCHANGED <<m_start_capture, live, thread>>

(* DestroyVideoCapture() that does not stop the capture first. *)
DestroyWithoutStop ==
  /\ owner = "idle"
  /\ owner' = "destroy"
  /\ UNCHANGED <<m_start_capture, live, thread, stop_for>>

(* StopVideoCapture() without the join. *)
JoinForgotten ==
  /\ owner = "join"
  /\ owner' = stop_for
  /\ UNCHANGED <<m_start_capture, live, thread, stop_for>>

(* The capture thread resetting m_start_capture when it gives up. *)
GrabFailsResets ==
  /\ thread = "loop"
  /\ m_start_capture
  /\ thread' = "exited"
  /\ m_start_capture' = FALSE
  /\ UNCHANGED <<live, owner, stop_for>>

(* m_display cleared before shmdt() tests it. *)
ReleaseDisplayFirst ==
  LET had(R) == R \subseteq live
      segment == had({"m_shm_segment_info", "shmid", "m_display"})
  IN /\ owner = "destroy"
     /\ live' = live \ (   {"m_x_shm_image", "m_shm_segment_info"}
                      \cup (IF segment THEN {"attached", "shmid", "m_display"} ELSE {}))
     /\ owner' = "idle"
     /\ UNCHANGED <<m_start_capture, thread, stop_for>>

--------------------------------------------------------------------------------
(* The owner.  A call that has nothing to do returns and changes nothing.  *)

(* StartVideoCapture() up to m_buffer_queue->Start(). *)
StartVideoCapture ==
  /\ owner = "idle"
  /\ ~m_start_capture
  /\ m_start_capture' = TRUE
  /\ owner' = "start_thread"
  /\ UNCHANGED <<live, thread, stop_for>>

(* The queue has been started: m_process_thread = std::thread(...). *)
StartThread ==
  /\ owner = "start_thread"
  /\ thread' = "loop"
  /\ owner' = "idle"
  /\ UNCHANGED <<m_start_capture, live, stop_for>>

(* StopVideoCapture() up to m_buffer_queue->Stop(), called by the owner    *)
(* (next = "idle") or by DestroyVideoCapture() (next = "destroy").         *)
StopVideoCapture(next) ==
  /\ owner = "idle"
  /\ m_start_capture
  /\ m_start_capture' = FALSE
  /\ owner' = "stop_queue"
  /\ stop_for' = next
  /\ UNCHANGED <<live, thread>>

(* m_buffer_queue->Stop() has returned. *)
StopQueue ==
  /\ owner = "stop_queue"
  /\ owner' = "join"
  /\ UNCHANGED <<m_start_capture, live, thread, stop_for>>

(* m_process_thread.join(), if joinable. *)
Join ==
  /\ owner = "join"
  /\ thread \in {"none", "exited"}
  /\ thread' = "none"
  /\ owner' = stop_for
  /\ UNCHANGED <<m_start_capture, live, stop_for>>

(* DestroyVideoCapture() when StopVideoCapture() has nothing to do. *)
DestroyStopped ==
  /\ owner = "idle"
  /\ ~m_start_capture
  /\ owner' = "destroy"
  /\ UNCHANGED <<m_start_capture, live, thread, stop_for>>

DestroyVideoCapture == StopVideoCapture("destroy") \/ DestroyStopped

(* XShmDetach() fails: DestroyVideoCapture() returns false. *)
DetachFails ==
  /\ owner = "destroy"
  /\ {"m_shm_segment_info", "shmid", "m_display"} \subseteq live
  /\ owner' = "idle"
  /\ UNCHANGED <<m_start_capture, live, thread, stop_for>>

(* The rest of DestroyVideoCapture(), up to "return true". *)
Release ==
  LET had(R) == R \subseteq live
      segment == had({"m_shm_segment_info", "shmid", "m_display"})
      mapping == had({"m_shm_segment_info", "shmaddr", "m_display"})
  IN /\ owner = "destroy"
     /\ live' = live \ (   {"m_x_shm_image", "m_shm_segment_info"}
                      \cup (IF mapping THEN {"shmaddr"} ELSE {})
                      \cup (IF segment THEN {"attached", "shmid", "m_display"} ELSE {}))
     /\ owner' = "idle"
     /\ UNCHANGED <<m_start_capture, thread, stop_for>>

--------------------------------------------------------------------------------
(* UpdateVideoCapture(), the body of m_process_thread. *)

(* XShmGetImage() and the copy of the image into a vector; the push begins. *)
Grab ==
  /\ thread = "loop"
  /\ m_start_capture
  /\ thread' = "pushing"
  /\ UNCHANGED <<m_start_capture, live, owner, stop_for>>

(* XShmGetImage() fails: the thread ends, m_start_capture stays true. *)
GrabFails ==
  /\ thread = "loop"
  /\ m_start_capture
  /\ thread' = "exited"
  /\ UNCHANGED <<m_start_capture, live, owner, stop_for>>

(* WaitePushBuffer() has returned. *)
PushReturns ==
  /\ thread = "pushing"
  /\ thread' = "loop"
  /\ UNCHANGED <<m_start_capture, live, owner, stop_for>>

LeaveLoop ==
  /\ thread = "loop"
  /\ ~m_start_capture
  /\ thread' = "exited"
  /\ UNCHANGED <<m_start_capture, live, owner, stop_for>>

CaptureThread == Grab \/ GrabFails \/ PushReturns \/ LeaveLoop

--------------------------------------------------------------------------------
(* The owner starts only what the constructor could set up and what is not *)
(* destroyed: neither is checked by StartVideoCapture().                   *)
Owner ==
  \/ Usable /\ StartVideoCapture
  \/ StartThread
  \/ StopVideoCapture("idle")
  \/ StopQueue
  \/ Join
  \/ DestroyVideoCapture
  \/ DetachFails
  \/ Release

Next == Owner \/ CaptureThread

Spec == Init /\ [][Next]_vars

--------------------------------------------------------------------------------
(* The capture thread never runs on freed memory: while it is in its loop   *)
(* or in a push, nothing DestroyVideoCapture() releases has been released   *)
(* (X11DesktopCapture.cpp:78-84 against 91-113).                            *)
NoCaptureAfterFree == thread \in {"loop", "pushing"} => Usable

(* std::thread is never assigned while joinable, which would terminate the  *)
(* program: a second StartVideoCapture() comes after a join, also when the  *)
(* thread ended by itself (VideoCapture.cpp:23-28).                         *)
NoThreadOverwritten == owner = "start_thread" => thread = "none"

(* DestroyVideoCapture() releases what there is, all of it or, if           *)
(* XShmDetach() fails, nothing, wherever the constructor stopped: what it   *)
(* leaves could be the constructor's, so that it can be called again        *)
(* (X11DesktopCapture.cpp:24-75 against 89-116).                            *)
DestroyedWhole == live \in InitOutcomes
================================================================================

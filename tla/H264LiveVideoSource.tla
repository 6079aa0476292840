-------------------------- MODULE H264LiveVideoSource --------------------------
(***************************************************************************)
(* The sources of src/Rtsp/Live555/H264LiveVideoSource.cpp: one per stream  *)
(* of the RTSP server, each handing packets of the h264 queue, in pieces,   *)
(* to the framer that reads it.  A read is answered by a delayed task of    *)
(* the event loop; the task is never unscheduled.                           *)
(*                                                                          *)
(* Of live555 (include/live555) this is what FramedSource.hh tells: a read  *)
(* is awaited until afterGetting(), and stopGettingFrames() forgets it and  *)
(* its callback.                                                            *)
(***************************************************************************)
EXTENDS Naturals

CONSTANTS
  Streams,     (* places for a source with the framer and sink that read it *)
  Packets,
  PacketSize,  (* [Packets -> lengths]                                      *)
  MaxTasks     (* bound: tasks one source may have pending                  *)

VARIABLES
  source,      (* where the life of each source is: see Lives               *)
  awaiting,    (* fIsCurrentlyAwaitingData                                  *)
  tasks,       (* how many getNextFrame tasks are pending for it            *)
  m_left,      (* what is left of m_buffer                                  *)
  missing,     (* what the framer has not got of the packet it is reading   *)
  spoiled      (* a task has run that answered no read                      *)

vars == <<source, awaiting, tasks, m_left, missing, spoiled>>

(* "freed": deleted while a task for it was pending. *)
Lives == {"none", "open", "playing", "freed"}

Lengths == UNION {0..PacketSize[p] : p \in Packets}

TypeOK ==
  /\ source \in [Streams -> Lives]
  /\ awaiting \in [Streams -> BOOLEAN]
  /\ tasks \in [Streams -> 0..MaxTasks]
  /\ m_left \in [Streams -> Lengths]
  /\ missing \in [Streams -> Lengths]
  /\ spoiled \in [Streams -> BOOLEAN]

Alive(s) == source[s] \in {"open", "playing"}

Init ==
  /\ source = [s \in Streams |-> "none"]
  /\ awaiting = [s \in Streams |-> FALSE]
  /\ tasks = [s \in Streams |-> 0]
  /\ m_left = [s \in Streams |-> 0]
  /\ missing = [s \in Streams |-> 0]
  /\ spoiled = [s \in Streams |-> FALSE]

--------------------------------------------------------------------------------
(* Mutated forms of the definitions below: bugs the properties must catch. *)

(* doStopGettingFrames() that keeps what is left. *)
StopGettingFramesKeeps(s) ==
  /\ source[s] = "playing"
  /\ source' = [source EXCEPT ![s] = "open"]
  /\ awaiting' = [awaiting EXCEPT ![s] = FALSE]
  /\ missing' = [missing EXCEPT ![s] = 0]
  /\ UNCHANGED <<tasks, m_left, spoiled>>

(* GetFrameData() that forgets afterGetting(). *)
HandOnSilently(s, left, max, packet) ==
  /\ m_left' = [m_left EXCEPT ![s] = IF max <= left THEN left - max ELSE 0]
  /\ UNCHANGED <<source, awaiting, tasks, missing, spoiled>>

(* GetFrameData() that pops also when something is left. *)
GetFrameDataPopsAnyway(s) ==
  /\ Alive(s)
  /\ tasks[s] > 0
  /\ tasks' = [tasks EXCEPT ![s] = @ - 1]
  /\ UNCHANGED <<source, awaiting, m_left, missing, spoiled>>

--------------------------------------------------------------------------------
(* A new object has m_left = 0. *)
New(s) ==
  /\ source[s] = "none"
  /\ source' = [source EXCEPT ![s] = "open"]
  /\ spoiled' = [spoiled EXCEPT ![s] = FALSE]
  /\ UNCHANGED <<awaiting, tasks, m_left, missing>>

(* The sink starts playing: it reads its first frame at once. *)
NewPlaying(s) ==
  /\ source[s] = "none"
  /\ source' = [source EXCEPT ![s] = "playing"]
  /\ awaiting' = [awaiting EXCEPT ![s] = TRUE]
  /\ tasks' = [tasks EXCEPT ![s] = 1]
  /\ spoiled' = [spoiled EXCEPT ![s] = FALSE]
  /\ UNCHANGED <<m_left, missing>>

(* doGetNextFrame() schedules a task and does not keep its token; a task    *)
(* left over from a read that was given up may be pending still.            *)
DoGetNextFrame(s) ==
  /\ Alive(s)
  /\ ~awaiting[s]
  /\ tasks[s] < MaxTasks
  /\ source' = [source EXCEPT ![s] = "playing"]
  /\ awaiting' = [awaiting EXCEPT ![s] = TRUE]
  /\ tasks' = [tasks EXCEPT ![s] = @ + 1]
  /\ UNCHANGED <<m_left, missing, spoiled>>

(* GetFrameData(), from the task, up to the pop of m_buffer_queue. *)
TaskStarts(s) ==
  /\ Alive(s)
  /\ tasks[s] > 0
  /\ tasks' = [tasks EXCEPT ![s] = @ - 1]

GetFrameDataPops(s) ==
  /\ TaskStarts(s)
  /\ m_left[s] = 0
  /\ UNCHANGED <<source, awaiting, m_left, missing, spoiled>>

(* The rest of it, with left bytes of packet to hand on; the framer gets    *)
(* them only if it has a read outstanding.                                  *)
HandOn(s, left, max, packet) ==
  LET rest == IF max <= left THEN left - max ELSE 0
      begun == IF missing[s] = 0 THEN PacketSize[packet] ELSE missing[s]
      got == left - rest
  IN /\ m_left' = [m_left EXCEPT ![s] = rest]
     /\ awaiting' = [awaiting EXCEPT ![s] = FALSE]
     /\ missing' = IF awaiting[s]
                   THEN [missing EXCEPT ![s] = IF got <= begun THEN begun - got ELSE 0]
                   ELSE missing
     /\ spoiled' = [spoiled EXCEPT ![s] = @ \/ ~awaiting[s]]
     /\ UNCHANGED source

GetFrameDataLeft(s, max, packet) ==
  /\ TaskStarts(s)
  /\ m_left[s] > 0
  /\ HandOn(s, m_left[s], max, packet)

(* The framer stops reading: it drops the packet it was reading. *)
DoStopGettingFrames(s) ==
  /\ source[s] = "playing"
  /\ source' = [source EXCEPT ![s] = "open"]
  /\ awaiting' = [awaiting EXCEPT ![s] = FALSE]
  /\ m_left' = [m_left EXCEPT ![s] = 0]
  /\ missing' = [missing EXCEPT ![s] = 0]
  /\ UNCHANGED <<tasks, spoiled>>

(* The source is closed and deleted, its tasks are not. *)
Close(s) ==
  /\ Alive(s)
  /\ source' = [source EXCEPT ![s] = IF tasks[s] = 0 THEN "none" ELSE "freed"]
  /\ awaiting' = [awaiting EXCEPT ![s] = FALSE]
  /\ m_left' = [m_left EXCEPT ![s] = 0]
  /\ missing' = [missing EXCEPT ![s] = 0]
  /\ spoiled' = [spoiled EXCEPT ![s] = FALSE]
  /\ UNCHANGED tasks

(* A task is pending for a deleted source. *)
TaskOutlivesSource == \E s \in Streams : source[s] = "freed"

--------------------------------------------------------------------------------
(* The framer gets whole packets: between a start and the next stop nothing *)
(* of a packet is left out or handed on twice, and what is left of a packet *)
(* never survives a stop - unless a task of a read that was stopped has run *)
(* and taken a piece nobody gets (H264LiveVideoSource.cpp:32-38, 51-68).    *)
WholePackets == \A s \in Streams : spoiled[s] \/ missing[s] = m_left[s]
================================================================================

------------------------- MODULE FFmpegVideoEncoderTest -------------------------
(***************************************************************************)
(* The program of tests/VideoTest/FFmepgVideoEncoderTest.cpp: main() starts *)
(* capture and encoder, pops a number of packets itself, stops and destroys *)
(* both.  Nothing fails.  A call of a stopped queue comes back or, having   *)
(* missed the wakeup of Stop(), does not.                                   *)
(***************************************************************************)
EXTENDS VideoPipeline

CONSTANT Pops   (* how many packets main() pops: 500 in the source *)

VARIABLES
  line,   (* the statement of main() that comes next *)
  count

testvars == <<vars, line, count>>

TestInit == Init /\ line = "start_capture" /\ count = 0

(* The call main() is in, if any, has returned. *)
MainFree == OwnerFree /\ Client \notin h264_in

--------------------------------------------------------------------------------
NextLine(from) ==
  CASE from = "start_capture" -> "start_encoder"
    [] from = "start_encoder" -> "pop"
    [] from = "pop"           -> "stop_encoder"
    [] from = "stop_encoder"  -> "stop_capture"
    [] from = "stop_capture"  -> "destroy_encoder"
    [] from = "destroy_encoder" -> "destroy_capture"
    [] OTHER -> "done"

(* A line of main() is left for the next one. *)
Leave(from) == line = from /\ MainFree /\ line' = NextLine(from) /\ UNCHANGED count

CallsCapture(call) == call /\ UNCHANGED <<encvars, rgbvars, h264vars, on_screen>>

MainPops ==
  \/ line = "pop" /\ MainFree /\ count < Pops /\ ClientCalls /\ count' = count + 1 /\ UNCHANGED line
  \/ ClientTakes /\ UNCHANGED <<line, count>>

MainRuns ==
  \/ Leave("start_capture") /\ CallsCapture(cap!StartVideoCapture)
  \/ Leave("start_encoder") /\ EncoderStarts
  \/ MainPops
  \/ count = Pops /\ Leave("pop") /\ UNCHANGED vars
  \/ Leave("stop_encoder") /\ EncoderStops("idle")
  \/ Leave("stop_capture") /\ CallsCapture(cap!StopVideoCapture("idle"))
  \/ Leave("destroy_encoder") /\ enc!DestroyStopped /\ UNCHANGED <<capvars, rgbvars, h264vars, on_screen>>
  \/ Leave("destroy_capture") /\ CallsCapture(cap!DestroyVideoCapture)
  \/ (CaptureGoesOn \/ EncoderGoesOn) /\ UNCHANGED <<line, count>>

CaptureThread == (CaptureRuns \/ CaptureDrops) /\ UNCHANGED <<line, count>>
EncoderThread == (EncoderRuns \/ EncoderTakesNone) /\ UNCHANGED <<line, count>>

TestNext == MainRuns \/ CaptureThread \/ EncoderThread

(* The codec goes on giving packets: it may keep one back, not all.         *)
(* Refusals are not counted on, as in VideoPipeline.                        *)
TestSpec ==
  /\ TestInit /\ [][TestNext]_testvars
  /\ WF_testvars(MainRuns)
  /\ WF_testvars(CaptureRuns /\ UNCHANGED <<line, count>>)
  /\ WF_testvars(EncoderRuns /\ UNCHANGED <<line, count>>)
  /\ SF_testvars(EncoderThread /\ enc!Receive)

(* The test when no thread misses the wakeup of a Stop().                   *)
WakingTestSpec ==
  TestSpec /\ WF_testvars(CaptureThread) /\ WF_testvars(EncoderThread)

Done == line = "done" /\ OwnerFree

--------------------------------------------------------------------------------
(* The test ends: main() stops encoder and capture, destroys them and       *)
(* returns 0 (FFmepgVideoEncoderTest.cpp:52-58).                            *)
TestEnds == <>Done

(* StopVideoEncoder() waits in join() for a thread that waits for a place   *)
(* in the h264 queue, which nobody empties any more and which is stopped    *)
(* only after the join (VideoEncoderFFmpeg.cpp:184, 197-200).               *)
EncoderStuck == enc_owner = "join" /\ enc_thread = "pushing" /\ Len(h264_fifo) = H264Size

(* StopVideoCapture() waits in join() for a thread that waits for a place   *)
(* in the rgb queue, although that queue is stopped (VideoCapture.cpp:34).  *)
CaptureStuck ==
  cap_owner = "join" /\ cap_thread = "pushing" /\ Len(rgb_fifo) = RgbSize /\ ~rgb_open

(* The test ends, or hangs in one of two joins: in the encoder's, or in the *)
(* capture's, whose thread can have gone to sleep on the full rgb queue     *)
(* after both of the Stop() calls made on it had notified, that of the      *)
(* encoder and that of the capture (FFmepgVideoEncoderTest.cpp:52-53,       *)
(* BufferQueue.hpp:43, 52-56).                                              *)
HangsOnlyInPush == <>Done \/ <>[]EncoderStuck \/ <>[]CaptureStuck

(* When main() returns nothing is left behind: both threads are joined, the *)
(* codec and everything of the capture released, although main() destroys   *)
(* the encoder while frames lie in the queues                               *)
(* (FFmepgVideoEncoderTest.cpp:52-57, X11DesktopCapture.cpp:89-116,         *)
(* VideoEncoderFFmpeg.cpp:195-226).                                         *)
EndsClean ==
  Done => /\ cap_thread = "none" /\ enc_thread = "none"
          /\ cap_live = {} /\ enc_codec = "freed"
================================================================================

--------------------------- MODULE X11VideoCaptureTest ---------------------------
(***************************************************************************)
(* The program of tests/VideoTest/X11VideoCaptureTest.cpp: main() starts    *)
(* the capture, pops a number of frames itself, stops and destroys it.      *)
(* The X server answers and the shared memory could be set up.              *)
(***************************************************************************)
EXTENDS CaptureQueue

CONSTANT Pops   (* how many frames main() pops: 500 in the source *)

VARIABLES
  line,   (* the statement of main() that comes next *)
  count

testvars == <<allvars, line, count>>

TestInit == QueueInit /\ Usable /\ line = "start" /\ count = 0

(* The call main() is in, if any, has returned. *)
MainFree == owner = "idle" /\ rgb_pc[Main] = "out"

(* A line of main() that calls the capture. *)
CallsCapture(from, call, to) ==
  /\ line = from /\ MainFree
  /\ call
  /\ line' = to
  /\ UNCHANGED <<rgbvars, count>>

MainPops ==
  \/ /\ line = "pop" /\ MainFree /\ count < Pops
     /\ ClientCalls
     /\ count' = count + 1
     /\ UNCHANGED line
  \/ ClientPops /\ UNCHANGED <<line, count>>

MainRuns ==
  \/ CallsCapture("start", StartVideoCapture, "pop")
  \/ MainPops
  \/ count = Pops /\ CallsCapture("pop", StopVideoCapture("idle"), "destroy")
  \/ CallsCapture("destroy", DestroyVideoCapture, "done")
  \/ MainGoesOn /\ UNCHANGED <<line, count>>

Others == (CaptureRuns \/ Spurious) /\ UNCHANGED <<line, count>>

Done == line = "done" /\ owner = "idle"

TestNext == MainRuns \/ Others

TestFairness ==
  /\ SF_testvars(MainRuns)
  /\ SF_testvars(CaptureRuns /\ UNCHANGED <<line, count>>)

TestSpec == TestInit /\ [][TestNext]_testvars /\ TestFairness

--------------------------------------------------------------------------------
(* The test ends: main() stops the capture, destroys it and returns 0       *)
(* (X11VideoCaptureTest.cpp:33-37).                                         *)
TestEnds == <>Done

(* The only thing that can keep the test from ending is that the capture    *)
(* thread went to sleep on the full queue between m_running = false and     *)
(* notify_all() of its Stop() (BufferQueue.hpp:43, 53-54): main() is then    *)
(* in join() and nobody pops.                                               *)
HangsOnlyOnMissedStop == <>(Done \/ (owner = "join" /\ rgb_pc[Capture] = "asleep"))
================================================================================

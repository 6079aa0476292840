------------------------------- MODULE LiveServer -------------------------------
(***************************************************************************)
(* The RTSP server of tests/VideoTest/TestLive555.cpp: the encoder thread   *)
(* fills the h264 queue, one event-loop thread serves every client from it. *)
(* A task that finds no packet sleeps in WaitePopBuffer on the event-loop   *)
(* thread, so nothing else is served until the encoder pushes.  Nobody      *)
(* stops the queue.                                                         *)
(*                                                                          *)
(* A packet is known by its place in the group of pictures: 0 is the key    *)
(* frame, which carries the parameter sets.  The event loop is live555's.   *)
(***************************************************************************)
EXTENDS Naturals, Sequences

CONSTANTS
  Streams, NoStream, Encoder, NoBuffer,
  H264Size,          (* the capacity of the queue                           *)
  GopSize,
  MaxSizes, MaxTasks

ASSUME ServerAssumption ==
  /\ NoStream \notin Streams
  /\ Encoder \notin Streams \cup {NoStream}
  /\ GopSize \in Nat \ {0} /\ H264Size \in Nat
  /\ NoBuffer \notin 0..GopSize - 1
  /\ MaxSizes \subseteq Nat
  /\ MaxTasks \in Nat \ {0}

VARIABLES
  source, awaiting, tasks, m_left, missing, spoiled,
  m_sdp_line, m_done, m_dummy_rtp_sink, nextTask, fSDPLines, describing,
  h264_fifo, h264_open, h264_in, h264_box,
  gop,               (* the place of the packet the encoder makes next      *)
  popping,           (* the stream whose source the event loop pops for     *)
  aux_line           (* whether the dummy sink's auxSDPLine() is non-null   *)

srcvars == <<source, awaiting, tasks, m_left, missing, spoiled>>
subvars == <<m_sdp_line, m_done, m_dummy_rtp_sink, nextTask, fSDPLines, describing>>
h264vars == <<h264_fifo, h264_open, h264_in, h264_box>>
vars == <<srcvars, subvars, h264vars, gop, popping, aux_line>>

Packets == 0..GopSize - 1
PacketSize == [n \in Packets |-> IF n = 0 THEN 2 ELSE 1]

src == INSTANCE H264LiveVideoSource
sub == INSTANCE H264VideoLiveServerMediaSubsession
h264 == INSTANCE BoundedFifo WITH
  Producers <- {Encoder}, Consumers <- Streams, Buffers <- Packets, Size <- H264Size,
  fifo <- h264_fifo, open <- h264_open, inCall <- h264_in, box <- h264_box

TypeOK ==
  /\ src!TypeOK /\ sub!TypeOK
  /\ h264_fifo \in Seq(Packets) /\ Len(h264_fifo) <= H264Size
  /\ h264_in = {t \in {Encoder} : h264_box[t] # NoBuffer} \cup ({popping} \ {NoStream})
  /\ aux_line => describing # NoStream

Init ==
  /\ src!Init /\ sub!Init
  /\ h264_fifo = <<>> /\ h264_open = TRUE /\ h264_in = {}
  /\ h264_box = [t \in {Encoder} \cup Streams |-> NoBuffer]
  /\ gop = 0
  /\ popping = NoStream
  /\ aux_line = FALSE

--------------------------------------------------------------------------------
(* The encoder thread: one packet of the group of pictures after another.  *)
EncoderReceives ==
  /\ h264!Invoke(Encoder, gop)
  /\ gop' = (gop + 1) % GopSize
  /\ UNCHANGED <<srcvars, subvars, popping, aux_line>>

EncoderStores == h264!Put(Encoder) /\ UNCHANGED <<srcvars, subvars, gop, popping, aux_line>>

--------------------------------------------------------------------------------
(* The event loop takes the next event when the last one has been handled   *)
(* and no nested loop is about to return.  A task for a deleted source is   *)
(* due at once: what it does is undefined, and the model goes no further.   *)
SchedulingPoint == popping = NoStream /\ ~sub!Returning /\ ~src!TaskOutlivesSource

(* The framer of stream s wants the next piece. *)
FramerReads(s) ==
  /\ SchedulingPoint
  /\ source[s] = "playing"
  /\ src!DoGetNextFrame(s)
  /\ UNCHANGED <<subvars, h264vars, gop, popping, aux_line>>

(* What stream s hands on is a piece of packet. *)
LearnsAuxLine(s, packet) == aux_line' = (aux_line \/ (s = describing /\ packet = 0))

TaskPops(s) ==
  /\ SchedulingPoint
  /\ src!GetFrameDataPops(s)
  /\ h264!Invoke(s, h264_box[s])
  /\ popping' = s
  /\ UNCHANGED <<subvars, gop, aux_line>>

TaskHandsOnPacket(s) ==
  /\ h264!Get(s)
  /\ \E max \in MaxSizes :
       src!HandOn(s, PacketSize[h264_box'[s]], max, h264_box'[s])
  /\ LearnsAuxLine(s, h264_box'[s])
  /\ popping' = NoStream
  /\ UNCHANGED <<tasks, subvars, gop>>

TaskHandsOnRest(s) ==
  /\ SchedulingPoint
  /\ \E max \in MaxSizes : src!GetFrameDataLeft(s, max, h264_box[s])
  /\ LearnsAuxLine(s, h264_box[s])
  /\ UNCHANGED <<subvars, h264vars, gop, popping>>

TaskRuns(s) == TaskPops(s) \/ TaskHandsOnRest(s)
StreamRuns(s) == FramerReads(s) \/ TaskRuns(s)

TaskOfDeletedSource == src!TaskOutlivesSource /\ UNCHANGED vars

--------------------------------------------------------------------------------
(* DESCRIBE: sdpLines() makes a source and a sink, asks getAuxSDPLine() and *)
(* closes both.                                                             *)
DescribeBegins(s) ==
  /\ SchedulingPoint
  /\ sub!DescribeBegins(s)
  /\ src!NewPlaying(s)
  /\ h264_box' = [h264_box EXCEPT ![s] = NoBuffer]
  /\ UNCHANGED <<h264_fifo, h264_open, h264_in, gop, popping, aux_line>>

DescribeAtOnce ==
  /\ SchedulingPoint
  /\ sub!DescribeAtOnce
  /\ UNCHANGED <<srcvars, h264vars, gop, popping, aux_line>>

CheckForAuxSDPLine ==
  /\ SchedulingPoint
  /\ sub!CheckForAuxSDPLine(aux_line)
  /\ UNCHANGED <<srcvars, h264vars, gop, popping, aux_line>>

DescribeReturns ==
  /\ sub!DescribeReturns
  /\ src!Close(describing)
  /\ aux_line' = FALSE
  /\ UNCHANGED <<h264vars, gop, popping>>

(* SETUP: createNewStreamSource() for the session. *)
Setup(s) ==
  /\ SchedulingPoint
  /\ src!New(s)
  /\ h264_box' = [h264_box EXCEPT ![s] = NoBuffer]
  /\ UNCHANGED <<subvars, h264_fifo, h264_open, h264_in, gop, popping, aux_line>>

(* PLAY, PAUSE and TEARDOWN of a session. *)
Play(s) == source[s] = "open" /\ src!DoGetNextFrame(s)
Request(s) ==
  /\ SchedulingPoint
  /\ s # describing
  /\ Play(s) \/ src!DoStopGettingFrames(s) \/ src!Close(s)
  /\ UNCHANGED <<subvars, h264vars, gop, popping, aux_line>>

--------------------------------------------------------------------------------
Next ==
  \/ EncoderReceives \/ EncoderStores
  \/ \E s \in Streams :
       \/ StreamRuns(s) \/ TaskHandsOnPacket(s)
       \/ DescribeBegins(s) \/ Setup(s) \/ Request(s)
  \/ DescribeAtOnce \/ CheckForAuxSDPLine \/ DescribeReturns
  \/ TaskOfDeletedSource

Spec == Init /\ [][Next]_vars

(* The encoder goes on for ever: its thread is scheduled and the capture    *)
(* feeds it.  Delayed tasks are run in the order they are due, so one that  *)
(* is due again and again between the blocking pops of others is run.       *)
Fairness ==
  /\ WF_vars(EncoderReceives) /\ WF_vars(EncoderStores)
  /\ \A s \in Streams : SF_vars(StreamRuns(s)) /\ WF_vars(TaskHandsOnPacket(s))
  /\ SF_vars(CheckForAuxSDPLine) /\ WF_vars(DescribeReturns)

FairSpec == Spec /\ Fairness

--------------------------------------------------------------------------------
WholePackets == src!WholePackets
BareOnlyMeanwhile == sub!BareOnlyMeanwhile
CheckedSinkIsOpen == sub!CheckedSinkIsOpen

(* Every read of every stream is answered, whatever the other streams and   *)
(* the requests do, although each may put the event loop to sleep           *)
(* (H264LiveVideoSource.cpp:35-53, 99).                                     *)
ReadsAnswered ==
  \A s \in Streams : awaiting[s] ~> ~awaiting[s] \/ src!TaskOutlivesSource

(* The first DESCRIBE is answered, unless another stream goes on playing:   *)
(* the streams share one queue, and that one may take every key frame       *)
(* (H264VideoLiveServerMediaSubsession.cpp:54-68, 80-86, 97).               *)
OthersPlay == \E s \in Streams \ {describing} : tasks[s] > 0
DescribeAnswered ==
  describing # NoStream ~> describing = NoStream \/ OthersPlay \/ src!TaskOutlivesSource

(* The packet that is dealt out next is the oldest one queued, or the one   *)
(* the encoder is pushing, or the one it makes next.                        *)
Made == IF h264_box[Encoder] # NoBuffer THEN h264_box[Encoder] ELSE gop
Coming == IF h264_fifo # <<>> THEN Head(h264_fifo) ELSE Made

(* The tasks of a stream that were scheduled for a read that was given up. *)
Answers(s) == IF popping = s THEN tasks[s] + 1 ELSE tasks[s]
Stale == [s \in Streams |-> IF awaiting[s] THEN Answers(s) - 1 ELSE Answers(s)]

(* The streams deal the packets out among them in the order of the encoder, *)
(* none is left out or given to two, none is begun over the rest of         *)
(* another, and a piece nobody gets was taken for a read that was given up, *)
(* one each (H264LiveVideoSource.cpp:32-38, 45-68, 99).                     *)
Dealt == INSTANCE LiveStreams WITH
  coming <- Coming, life <- source, reading <- awaiting, rest <- m_left, stale <- Stale

ImplementsLiveStreams == Dealt!Spec
================================================================================

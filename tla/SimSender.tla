------------------------------- MODULE SimSender -------------------------------
(***************************************************************************)
(* tests/VideoTest/sim_sender_test.cpp: the network library's thread posts  *)
(* what happens to the connection to main_queue; the main thread takes one  *)
(* message per iteration of main_loop_event() and then, when a frame is     *)
(* due, sends the next packet of the h264 queue, for which it may have to   *)
(* wait.  The encoder thread fills that queue and nobody stops it.          *)
(*                                                                          *)
(* The library is outside the repository: Notify says in which order it may *)
(* call notify_callback().  (main() has its sim_connect() commented out; it *)
(* is the start of the connection assumed here.)  A change of the bitrate   *)
(* matters only to the frame size, which is overwritten (line 188), and to  *)
(* the frame rate, which may or may not double.                             *)
(***************************************************************************)
EXTENDS Naturals, Sequences

CONSTANTS
  Main, Encoder, NoBuffer,
  Packet,          (* what a packet holds                                   *)
  H264Size,        (* the capacity of the h264 queue                        *)
  Limit,           (* stands for the 20000 of lines 207 and 297             *)
  MaxQueue,        (* bound: notifications in main_queue while connected    *)
  MaxResumes       (* bound: interruptions of the connection                *)

ASSUME SenderAssumption ==
  /\ Main # Encoder
  /\ Limit \in Nat /\ MaxQueue \in Nat \ {0} /\ MaxResumes \in Nat

VARIABLES
  net,             (* the connection, as the library has notified it        *)
  interruptions,   (* how often it has been interrupted                     *)
  main_queue,      (* the messages                                          *)
  run, record_flag, frame_rate, index, disconnecting,
  main,            (* where the main thread is in its loop                  *)
  late,            (* frames sent after sim_disconnect()                    *)
  resumed,         (* el_resume handled after sim_disconnect()              *)
  h264_fifo, h264_open, h264_in, h264_box

statevars == <<run, record_flag, frame_rate, index, disconnecting, late, resumed>>
senvars == <<statevars, main>>
netvars == <<net, interruptions>>
h264vars == <<h264_fifo, h264_open, h264_in, h264_box>>
vars == <<netvars, main_queue, senvars, h264vars>>

h264 == INSTANCE BoundedFifo WITH
  Producers <- {Encoder}, Consumers <- {Main}, Buffers <- {Packet}, Size <- H264Size,
  fifo <- h264_fifo, open <- h264_open, inCall <- h264_in, box <- h264_box

Messages == {"connect", "refused", "timeout", "disconnect", "pause", "resume", "bitrate"}
Rates == {16, 32, 64, 128}

TypeOK ==
  /\ net \in {"down", "up", "interrupted", "over"}
  /\ interruptions \in 0..MaxResumes
  /\ main_queue \in Seq(Messages)
  /\ run \in BOOLEAN /\ record_flag \in BOOLEAN /\ disconnecting \in BOOLEAN
  /\ frame_rate \in Rates \cup {0}
  /\ main \in {"top", "send", "popping", "bottom", "join", "done"}
  /\ index \in Nat /\ late \in Nat /\ resumed \in Nat

Init ==
  /\ net = "down" /\ interruptions = 0
  /\ main_queue = <<>>
  /\ run = TRUE /\ record_flag = FALSE /\ disconnecting = FALSE
  /\ frame_rate = 0 /\ index = 0
  /\ main = "top"
  /\ late = 0 /\ resumed = 0
  /\ h264!Init

--------------------------------------------------------------------------------
(* Mutated forms of the definitions below: bugs the properties must catch. *)

(* A message put in front of the others. *)
PostInFront(msg) == main_queue' = <<msg>> \o main_queue

(* The limit of frames not looked at when one has been sent. *)
SendsOn(n, flag) == flag

(* The next message looked at only while nothing is sent. *)
TakeMessageIdle ==
  /\ main = "top" /\ run /\ ~record_flag
  /\ main_queue # <<>>
  /\ main_queue' = Tail(main_queue)

--------------------------------------------------------------------------------
(* The library's thread. *)
Post(msg) == main_queue' = Append(main_queue, msg)

Notify(msg, from, to) ==
  /\ net \in from
  /\ net' = to
  /\ Post(msg)
  /\ UNCHANGED <<senvars, h264vars>>

Room == Len(main_queue) < MaxQueue

(* The answer to sim_connect(), and the end of the connection. *)
Connects ==
  /\ Notify("connect", {"down"}, "up") \/ Notify("refused", {"down"}, "over")
  /\ UNCHANGED interruptions
Ends ==
  /\ \E msg \in {"timeout", "disconnect"} : Notify(msg, {"up", "interrupted"}, "over")
  /\ UNCHANGED interruptions

Interrupts ==
  /\ Room /\ interruptions < MaxResumes
  /\ Notify("pause", {"up"}, "interrupted")
  /\ interruptions' = interruptions + 1
Recovers == Room /\ Notify("resume", {"interrupted"}, "up") /\ UNCHANGED interruptions
ChangesBitrate == Room /\ Notify("bitrate", {net} \ {"down", "over"}, net) /\ UNCHANGED interruptions

Library == Connects \/ Ends \/ Interrupts \/ Recovers \/ ChangesBitrate

(* The encoder thread, until it is joined: the iteration in which it is     *)
(* told to stop may have several packets left to push.                      *)
EncoderRuns ==
  /\ (main # "done" /\ h264!Invoke(Encoder, Packet)) \/ h264!Put(Encoder)
  /\ UNCHANGED <<netvars, main_queue, senvars>>

--------------------------------------------------------------------------------
(* main_loop_event(). *)
TakeMessage ==
  /\ main = "top" /\ run
  /\ main_queue # <<>>
  /\ main_queue' = Tail(main_queue)

Handle(msg) ==
  /\ run' = (run /\ msg \notin {"refused", "timeout", "disconnect"})
  /\ record_flag' = CASE msg \in {"connect", "resume"} -> TRUE
                      [] msg = "bitrate" -> record_flag
                      [] OTHER -> FALSE
  /\ frame_rate' = IF msg = "connect" THEN 16 ELSE frame_rate
  /\ resumed' = IF disconnecting /\ msg = "resume" THEN resumed + 1 ELSE resumed
  /\ UNCHANGED <<index, disconnecting, late>>

HandlesMessage ==
  /\ TakeMessage
  /\ Handle(Head(main_queue))
  /\ main' = "send"
  /\ UNCHANGED <<netvars, h264vars>>

FindsNoMessage ==
  /\ main = "top" /\ run
  /\ main_queue = <<>>
  /\ main' = "send"
  /\ UNCHANGED <<netvars, main_queue, statevars, h264vars>>

(* try_send_video(): nothing to send, or no frame due yet (line 149) ...    *)
SendsNothing ==
  /\ main = "send"
  /\ main' = "bottom"
  /\ UNCHANGED <<netvars, main_queue, statevars, h264vars>>

(* ... or the next packet is fetched, at twice the rate if there was room   *)
(* for more than 800 kB.                                                    *)
Faster(rate) == IF rate * 2 > 128 THEN 128 ELSE rate * 2

FetchesPacket ==
  /\ main = "send" /\ record_flag
  /\ frame_rate' \in {frame_rate, Faster(frame_rate)}
  /\ h264!Invoke(Main, h264_box[Main])
  /\ main' = "popping"
  /\ UNCHANGED <<netvars, main_queue, run, record_flag, index, disconnecting, late, resumed>>

(* record_flag when frame n has been sent. *)
RecordsOn(n, flag) == flag /\ n <= Limit

SendsPacket ==
  /\ main = "popping"
  /\ h264!Get(Main)
  /\ index' = index + 1
  /\ record_flag' = RecordsOn(index + 1, record_flag)
  /\ late' = IF disconnecting THEN late + 1 ELSE late
  /\ main' = "bottom"
  /\ UNCHANGED <<netvars, main_queue, run, frame_rate, disconnecting, resumed>>

(* The end of the iteration: sim_disconnect() at the limit, once. *)
EndsIteration ==
  /\ main = "bottom"
  /\ disconnecting' = (disconnecting \/ index >= Limit)
  /\ main' = "top"
  /\ UNCHANGED <<netvars, main_queue, run, record_flag, frame_rate, index, late, resumed, h264vars>>

(* main() returns: ~VideoEncoderFFmpeg() joins the encoder thread.  What    *)
(* is left of the program is the capture's end.                             *)
LeavesLoop ==
  /\ main = "top" /\ ~run
  /\ main' = "join"
  /\ UNCHANGED <<netvars, main_queue, statevars, h264vars>>

Joins ==
  /\ main = "join" /\ Encoder \notin h264_in
  /\ main' = "done"
  /\ UNCHANGED <<netvars, main_queue, statevars, h264vars>>

MainRuns ==
  \/ HandlesMessage \/ FindsNoMessage
  \/ SendsNothing \/ FetchesPacket \/ SendsPacket
  \/ EndsIteration
  \/ LeavesLoop \/ Joins

Next == Library \/ EncoderRuns \/ MainRuns

Spec == Init /\ [][Next]_vars

(* Main and encoder thread are scheduled, and the library ends a connection *)
(* it was asked to end.                                                     *)
Fairness ==
  /\ WF_vars(MainRuns) /\ WF_vars(EncoderRuns)
  /\ WF_vars(disconnecting /\ Ends)

FairSpec == Spec /\ Fairness

--------------------------------------------------------------------------------
(* Line 149 divides by frame_rate: nothing is recorded before a connection  *)
(* has set it (lines 141, 239, 267-269).                                    *)
RateKnownWhenSending == record_flag => frame_rate # 0

IsLastNews(i) ==
  /\ main_queue[i] # "bitrate"
  /\ \A j \in i + 1..Len(main_queue) : main_queue[j] = "bitrate"

(* No notification is lost or overtaken: the last one in the queue tells    *)
(* the state of the connection; with none in it, record_flag tells it, as   *)
(* long as frames are left to send (lines 95-97, 226-231, 238-269).         *)
NetworkStateKept ==
  /\ \A i \in 1..Len(main_queue) :
       IsLastNews(i) => (net = "up" <=> main_queue[i] \in {"connect", "resume"})
  /\ (\A i \in 1..Len(main_queue) : main_queue[i] = "bitrate") /\ index <= Limit
       => (net = "up" <=> record_flag)

(* After sim_disconnect() one frame more is sent, and one for every         *)
(* recovery of the network handled since (lines 207-208, 267-269, 297-300). *)
LateFrames == late <= 1 + resumed

(* When the connection is over, or the last frame was sent, the program     *)
(* ends, although each iteration may wait for a packet - or the encoder     *)
(* thread waits for a place in the h264 queue, which nobody empties any     *)
(* more, while it is joined (185, 243-260, 297, 352;                        *)
(* VideoEncoderFFmpeg.cpp:184, 197).                                        *)
HangsOnFullOutput == main = "join" /\ Encoder \in h264_in /\ Len(h264_fifo) = H264Size
SenderEnds == net = "over" \/ disconnecting ~> main = "done" \/ HangsOnFullOutput
================================================================================

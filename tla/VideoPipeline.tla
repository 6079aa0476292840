------------------------------ MODULE VideoPipeline ------------------------------
(***************************************************************************)
(* The video pipeline every program of the repository builds: the capture   *)
(* thread fills the rgb queue, the encoder thread empties it and fills the  *)
(* h264 queue, a Client (a network thread) empties that one.  The owner     *)
(* starts and stops capture and encoder.                                    *)
(*                                                                          *)
(* Both queues are BoundedFifo, which BufferQueue implements.  A frame is   *)
(* known by its number, a packet by the number of the frame it encodes; 0   *)
(* is a packet made of the pixels m_yuv_data was allocated with.            *)
(***************************************************************************)
EXTENDS Naturals, Sequences, Functions

CONSTANTS
  Capture, Encoder, Client,   (* the three threads                          *)
  RgbSize, H264Size,          (* the capacities of the queues               *)
  MaxFrame,                   (* frames from this one on have its number    *)
  Params, NoBuffer

ASSUME PipelineAssumption ==
  /\ Capture # Encoder /\ Encoder # Client
  /\ RgbSize \in Nat /\ H264Size \in Nat /\ MaxFrame \in Nat \ {0}
  /\ NoBuffer \notin 0..MaxFrame

VARIABLES
  cap_start, cap_live, cap_thread, cap_owner, cap_stop_for,
  enc_start, enc_force, enc_params, enc_codec, enc_codec_params, enc_pict,
  enc_thread, enc_owner, enc_stop_for,
  rgb_fifo, rgb_open, rgb_in, rgb_box,
  h264_fifo, h264_open, h264_in, h264_box,
  on_screen                   (* the number of the frame now on the screen  *)

capvars == <<cap_start, cap_live, cap_thread, cap_owner, cap_stop_for>>
encvars == <<enc_start, enc_force, enc_params, enc_codec, enc_codec_params, enc_pict,
             enc_thread, enc_owner, enc_stop_for>>
rgbvars == <<rgb_fifo, rgb_open, rgb_in, rgb_box>>
h264vars == <<h264_fifo, h264_open, h264_in, h264_box>>
vars == <<capvars, encvars, rgbvars, h264vars, on_screen>>

cap == INSTANCE X11DesktopCapture WITH
  m_start_capture <- cap_start, live <- cap_live, thread <- cap_thread,
  owner <- cap_owner, stop_for <- cap_stop_for
enc == INSTANCE VideoEncoderFFmpeg WITH
  m_start_encoder <- enc_start, m_force_i_frame <- enc_force, m_params <- enc_params,
  codec <- enc_codec, codec_params <- enc_codec_params, pict_type <- enc_pict,
  thread <- enc_thread, owner <- enc_owner, stop_for <- enc_stop_for
rgb == INSTANCE BoundedFifo WITH
  Producers <- {Capture}, Consumers <- {Encoder}, Buffers <- 1..MaxFrame, Size <- RgbSize,
  fifo <- rgb_fifo, open <- rgb_open, inCall <- rgb_in, box <- rgb_box
h264 == INSTANCE BoundedFifo WITH
  Producers <- {Encoder}, Consumers <- {Client}, Buffers <- 0..MaxFrame, Size <- H264Size,
  fifo <- h264_fifo, open <- h264_open, inCall <- h264_in, box <- h264_box

TypeOK ==
  /\ cap!TypeOK /\ enc!TypeOK
  /\ rgb_fifo \in Seq(1..MaxFrame) /\ Len(rgb_fifo) <= RgbSize
  /\ h264_fifo \in Seq(0..MaxFrame) /\ Len(h264_fifo) <= H264Size
  /\ rgb_box \in [{Capture, Encoder} -> 1..MaxFrame \cup {NoBuffer}]
  /\ h264_box \in [{Encoder, Client} -> 0..MaxFrame \cup {NoBuffer}]
  /\ on_screen \in 1..MaxFrame

Init ==
  /\ cap!Init /\ cap!Usable
  /\ enc!Init /\ enc_codec = "allocated"
  /\ rgb!Init /\ h264!Init
  /\ on_screen = 1

--------------------------------------------------------------------------------
(* Mutated forms of the definitions below: bugs the properties must catch. *)

(* StartVideoEncoder() that starts only its output queue. *)
EncoderStartsOutputOnly ==
  enc!StartThread /\ h264!SetOpen(TRUE) /\ UNCHANGED <<capvars, rgbvars, on_screen>>

(* StopVideoEncoder() that stops the queues before it joins. *)
EncoderStopsQueuesFirst(next) ==
  /\ enc!StopVideoEncoder(next) /\ rgb!SetOpen(FALSE) /\ h264!SetOpen(FALSE)
  /\ UNCHANGED <<capvars, on_screen>>

--------------------------------------------------------------------------------
(* The capture thread. *)

CaptureGrabs ==
  /\ cap!Grab /\ rgb!Invoke(Capture, on_screen)
  /\ on_screen' = IF on_screen < MaxFrame THEN on_screen + 1 ELSE MaxFrame
  /\ UNCHANGED <<encvars, h264vars>>

(* The push comes back, having stored the frame or dropped it.             *)
CaptureStores == rgb!Put(Capture) /\ cap!PushReturns /\ UNCHANGED <<encvars, h264vars, on_screen>>
CaptureDrops == rgb!Refuse(Capture) /\ cap!PushReturns /\ UNCHANGED <<encvars, h264vars, on_screen>>

CaptureLeaves == cap!LeaveLoop /\ UNCHANGED <<encvars, rgbvars, h264vars, on_screen>>
CaptureFails == cap!GrabFails /\ UNCHANGED <<encvars, rgbvars, h264vars, on_screen>>

CaptureRuns == CaptureGrabs \/ CaptureStores \/ CaptureLeaves

(* The encoder thread.  m_input_buffer is the vector it passes to every     *)
(* pop: a pop that comes back empty-handed leaves the last frame in it.     *)

EncoderIterates ==
  /\ enc!Iterate
  /\ IF enc_force THEN UNCHANGED rgbvars ELSE rgb!Invoke(Encoder, rgb_box[Encoder])
  /\ UNCHANGED <<capvars, h264vars, on_screen>>

(* IsEmpty() is read without the mutex, but nobody else pops. *)
EncoderClearsForce ==
  /\ enc!ClearForce(rgb_fifo = <<>>)
  /\ IF rgb_fifo = <<>> THEN UNCHANGED rgbvars ELSE rgb!Invoke(Encoder, rgb_box[Encoder])
  /\ UNCHANGED <<capvars, h264vars, on_screen>>

EncoderTakes == rgb!Get(Encoder) /\ enc!PopReturns /\ UNCHANGED <<capvars, h264vars, on_screen>>
EncoderTakesNone == rgb!Refuse(Encoder) /\ enc!PopReturns /\ UNCHANGED <<capvars, h264vars, on_screen>>

EncoderEncodes == enc!Encode /\ UNCHANGED <<capvars, rgbvars, h264vars, on_screen>>
EncoderFails == enc!EncodeFails /\ UNCHANGED <<capvars, rgbvars, h264vars, on_screen>>

Packet == IF rgb_box[Encoder] = NoBuffer THEN 0 ELSE rgb_box[Encoder]

EncoderReceives ==
  /\ \/ enc!Receive /\ h264!Invoke(Encoder, Packet)
     \/ enc!ReceiveNothing /\ UNCHANGED h264vars
  /\ UNCHANGED <<capvars, rgbvars, on_screen>>

(* Its push is never refused: NoPacketRefused. *)
EncoderStores == h264!Put(Encoder) /\ enc!PushReturns /\ UNCHANGED <<capvars, rgbvars, on_screen>>

EncoderLeaves == enc!LeaveLoop /\ UNCHANGED <<capvars, rgbvars, h264vars, on_screen>>

EncoderRuns ==
  \/ EncoderIterates \/ EncoderClearsForce \/ EncoderTakes \/ EncoderEncodes
  \/ EncoderReceives \/ EncoderStores \/ EncoderLeaves

(* The client. *)
ClientCalls == h264!Invoke(Client, NoBuffer) /\ UNCHANGED <<capvars, encvars, rgbvars, on_screen>>
ClientTakes == h264!Get(Client) /\ UNCHANGED <<capvars, encvars, rgbvars, on_screen>>
ClientTakesNone == h264!Refuse(Client) /\ UNCHANGED <<capvars, encvars, rgbvars, on_screen>>

(* A call of a queue that has been stopped comes back empty-handed. *)
Refusals == CaptureDrops \/ EncoderTakesNone \/ ClientTakesNone

--------------------------------------------------------------------------------
(* The owner: one call at a time, in any order.  The programs start the     *)
(* capture first and stop it last; neither class asks for it.               *)
OwnerFree == cap_owner = "idle" /\ enc_owner = "idle"

CaptureCalls ==
  /\ OwnerFree
  /\ \/ cap!Usable /\ cap!StartVideoCapture
     \/ cap!StopVideoCapture("idle")
     \/ cap!DestroyVideoCapture
  /\ UNCHANGED <<encvars, rgbvars, h264vars, on_screen>>

CaptureStartsQueue == cap!StartThread /\ rgb!SetOpen(TRUE) /\ UNCHANGED <<encvars, h264vars, on_screen>>
CaptureStopsQueue == cap!StopQueue /\ rgb!SetOpen(FALSE) /\ UNCHANGED <<encvars, h264vars, on_screen>>

CaptureGoesOn ==
  \/ CaptureStartsQueue \/ CaptureStopsQueue
  \/ (cap!Join \/ cap!Release) /\ UNCHANGED <<encvars, rgbvars, h264vars, on_screen>>

EncoderStarts ==
  /\ OwnerFree
  /\ enc!OpenCodec
  /\ UNCHANGED <<capvars, rgbvars, h264vars, on_screen>>

EncoderStops(next) ==
  /\ enc!StopVideoEncoder(next)
  /\ UNCHANGED <<capvars, rgbvars, h264vars, on_screen>>

EncoderCalls ==
  /\ OwnerFree
  /\ \/ \E next \in {"idle", "set", "free"} : EncoderStops(next)
     \/ /\ (\E p \in Params : enc!SetStopped(p)) \/ enc!DestroyStopped
        /\ UNCHANGED <<capvars, rgbvars, h264vars, on_screen>>

EncoderStartsQueues ==
  /\ enc!StartThread /\ rgb!SetOpen(TRUE) /\ h264!SetOpen(TRUE)
  /\ UNCHANGED <<capvars, on_screen>>

EncoderStopsQueues ==
  /\ enc!CloseCodec /\ rgb!SetOpen(FALSE) /\ h264!SetOpen(FALSE)
  /\ UNCHANGED <<capvars, on_screen>>

EncoderGoesOn ==
  \/ EncoderStartsQueues \/ EncoderStopsQueues
  \/ /\ \/ enc_owner = "open" /\ enc!OpenCodec
        \/ enc!OpenFails
        \/ enc!Join
        \/ \E p \in Params : enc!WriteParams(p)
        \/ enc!FreeCodec
     /\ UNCHANGED <<capvars, rgbvars, h264vars, on_screen>>

KeyFrameAsked == enc!GenerateKeyFrame /\ UNCHANGED <<capvars, rgbvars, h264vars, on_screen>>

--------------------------------------------------------------------------------
Next ==
  \/ CaptureRuns \/ CaptureFails
  \/ EncoderRuns \/ EncoderFails
  \/ ClientCalls \/ ClientTakes
  \/ Refusals
  \/ CaptureCalls \/ CaptureGoesOn
  \/ EncoderStarts \/ EncoderCalls \/ EncoderGoesOn
  \/ KeyFrameAsked

Spec == Init /\ [][Next]_vars

(* Every thread is scheduled, the client pops for ever, and a call of a     *)
(* queue that can move its buffer does: with one producer and one consumer  *)
(* nothing else can take its place (CallsReturn of CaptureQueue). Refusals  *)
(* are not counted on: the Stop() that causes them may be missed.           *)
Fairness ==
  /\ WF_vars(CaptureRuns)
  /\ WF_vars(EncoderRuns)
  /\ WF_vars(ClientCalls) /\ WF_vars(ClientTakes)
  /\ WF_vars(CaptureGoesOn) /\ WF_vars(EncoderGoesOn)

FairSpec == Spec /\ Fairness

--------------------------------------------------------------------------------
(* What is on its way, oldest first: what the client got last, the h264     *)
(* queue, the packet the encoder pushes, the one its input buffer gives,    *)
(* the rgb queue, the frame the capture pushes, the screen.                 *)
OnTheWay ==
  <<{h264_box[Client]}, Range(h264_fifo), {h264_box[Encoder]}, {Packet},
    Range(rgb_fifo), {rgb_box[Capture]}, {on_screen}>>

NotNewer(S, T) == \A m \in S \ {NoBuffer}, n \in T \ {NoBuffer} : m <= n
InOrder(fifo) == \A i, j \in 1..Len(fifo) : i < j => fifo[i] <= fifo[j]

(* The stream never goes back in time, though frames are dropped while the  *)
(* encoder is restarted and may be encoded twice, and stale ones wait in    *)
(* the queues through a stop (BufferQueue.hpp:33-37, 45-48;                 *)
(* VideoEncoderFFmpeg.cpp:151-164).                                         *)
PipelineInOrder ==
  /\ InOrder(h264_fifo) /\ InOrder(rgb_fifo)
  /\ \A i, j \in 1..7 : i < j => NotNewer(OnTheWay[i], OnTheWay[j])

(* A frame is encoded again, or unset pixels are, only for a key frame that *)
(* did not wait or while the capture, stopping, has closed the queue they   *)
(* share: else a plain iteration comes back from its pop with a new frame   *)
(* (VideoEncoderFFmpeg.cpp:151-162).                                        *)
UnforcedFramesAreNew ==
  [][enc!PopReturns /\ enc_pict = "NONE"
       => rgb!Get(Encoder) \/ ~cap_start \/ cap_owner = "start_thread"]_vars

(* No packet is lost between codec and client: a push is refused only by a  *)
(* queue that is stopped, and the encoder thread is gone before its output  *)
(* queue is, whatever the order of the calls                                *)
(* (VideoEncoderFFmpeg.cpp:184, 197-200).                                   *)
NoPacketRefused == enc_thread \in enc!Encoding => h264_open

(* No frame may come any more: the capture is stopped, or its thread died   *)
(* of an XShmGetImage() failure.                                            *)
CaptureAway == ~cap_start \/ cap_thread = "exited"

(* StopVideoEncoder(), SetVideoParams() and DestroyVideoEncoder() come back *)
(* while the client pops and the capture runs, although they join before    *)
(* they stop the queues (VideoEncoderFFmpeg.cpp:196-200).                   *)
EncoderCallsReturn == enc_owner # "idle" ~> enc_owner = "idle" \/ CaptureAway

(* A request for a key frame is not lost: a frame that asks for one is sent *)
(* after it, unless the encoder is stopped or its thread ends first         *)
(* (VideoEncoderFFmpeg.cpp:151-153, 167, 271-274).                          *)
KeyFrameServed ==
  enc_force ~> \/ enc_thread = "receive" /\ enc_pict = "I"
               \/ ~enc_start \/ enc_thread = "exited" \/ CaptureAway
================================================================================

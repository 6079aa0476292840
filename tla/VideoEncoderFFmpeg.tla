--------------------------- MODULE VideoEncoderFFmpeg ---------------------------
(***************************************************************************)
(* The H.264 encoder of VideoEncoder/VideoEncoderFFmpeg.cpp.  Its owner     *)
(* starts, reconfigures, stops and destroys it; m_process_thread pops a     *)
(* frame, converts it, sends it to the codec and pushes the packet it gets  *)
(* back; anybody may ask for a key frame.                                   *)
(*                                                                          *)
(* The two queues are not part of this module: a pop or a push returns when *)
(* it returns, and the owner's calls of the queues belong to the steps      *)
(* StartThread and CloseCodec.  VideoPipeline puts queues there.            *)
(*                                                                          *)
(* The codec is tuned "zerolatency" (line 136): it gives at most one packet *)
(* for each frame, at once.                                                 *)
(***************************************************************************)
CONSTANT Params   (* the VideoEncoderParams callers pass *)

VARIABLES
  m_start_encoder, m_force_i_frame,
  m_params,      (* the parameters written to the codec context             *)
  codec,         (* the codec context, and all that is freed with it        *)
  codec_params,  (* the parameters the codec was opened with                *)
  pict_type,     (* m_frame->pict_type                                      *)
  thread,        (* where m_process_thread is; "none": not joinable         *)
  owner,         (* where the owner's thread is in a call; "idle": in none  *)
  stop_for       (* where the owner goes on after StopVideoEncoder()        *)

vars == <<m_start_encoder, m_force_i_frame, m_params, codec, codec_params, pict_type,
          thread, owner, stop_for>>

(* "forced": m_force_i_frame was read as true and is about to be cleared.  *)
Encoding == {"loop", "forced", "popping", "send", "receive", "pushing"}
ThreadPC == Encoding \cup {"none", "exited"}
OwnerPC == {"idle", "start_thread", "join", "close", "set", "open", "free"}

TypeOK ==
  /\ m_start_encoder \in BOOLEAN /\ m_force_i_frame \in BOOLEAN
  /\ m_params \in Params /\ codec_params \in Params
  /\ codec \in {"allocated", "open", "closed", "freed"}
  /\ pict_type \in {"NONE", "I"}
  /\ thread \in ThreadPC
  /\ owner \in OwnerPC
  /\ stop_for \in {"idle", "set", "free"}
  /\ owner \in {"join", "close", "set", "open", "free"} => ~m_start_encoder

(* InitVideoEncoder() may fail and nobody looks: without a codec context    *)
(* there is nothing to start or to set, as after DestroyVideoEncoder().     *)
Init ==
  /\ m_start_encoder = FALSE /\ m_force_i_frame = FALSE
  /\ m_params \in Params /\ codec_params = m_params
  /\ codec \in {"allocated", "freed"}
  /\ pict_type = "NONE"
  /\ thread = "none"
  /\ owner = "idle"
  /\ stop_for = "idle"

threadvars == <<m_force_i_frame, pict_type, thread>>
ownervars == <<m_start_encoder, m_params, codec, codec_params, owner, stop_for>>

--------------------------------------------------------------------------------
(* Mutated forms of the definitions below: bugs the properties must catch. *)

(* StopVideoEncoder() without the join. *)
JoinForgotten ==
  /\ owner = "join"
  /\ owner' = "close"
  /\ UNCHANGED <<m_start_encoder, m_params, codec, codec_params, stop_for, threadvars>>

(* StopVideoEncoder() that resets m_start_encoder after the join. *)
StopKeepsFlag(next) ==
  /\ owner = "idle" /\ m_start_encoder
  /\ owner' = "join"
  /\ stop_for' = next
  /\ UNCHANGED <<m_start_encoder, m_params, codec, codec_params, threadvars>>

(* SetVideoParams() that writes the parameters without stopping first. *)
SetWhileRunning(p) ==
  /\ owner = "idle" /\ codec # "freed"
  /\ m_params' = p
  /\ UNCHANGED <<m_start_encoder, codec, codec_params, owner, stop_for, threadvars>>

(* The thread ending on an error with m_start_encoder reset. *)
EncodeFailsResets ==
  /\ thread = "send"
  /\ thread' = "exited"
  /\ m_start_encoder' = FALSE
  /\ UNCHANGED <<m_params, codec, codec_params, owner, stop_for, m_force_i_frame, pict_type>>

(* m_force_i_frame cleared when a frame has been sent, whatever frame. *)
EncodeThenClear ==
  /\ thread = "send"
  /\ thread' = "receive"
  /\ m_force_i_frame' = FALSE
  /\ UNCHANGED <<pict_type, ownervars>>

--------------------------------------------------------------------------------
(* The owner.  A call that has nothing to do returns and changes nothing.  *)

(* avcodec_open2() succeeds, called by StartVideoEncoder() or, when it     *)
(* restarts the encoder, by SetVideoParams().                              *)
OpenCodec ==
  /\ owner \in {"idle", "open"} /\ ~m_start_encoder /\ codec # "freed"
  /\ codec' = "open"
  /\ codec_params' = m_params
  /\ m_start_encoder' = TRUE
  /\ owner' = "start_thread"
  /\ UNCHANGED <<m_params, stop_for, threadvars>>

(* avcodec_open2() fails: SetVideoParams() returns 0 all the same. *)
OpenFails ==
  /\ owner = "open"
  /\ owner' = "idle"
  /\ UNCHANGED <<m_start_encoder, m_params, codec, codec_params, stop_for, threadvars>>

(* Both queues are started and the thread is made. *)
StartThread ==
  /\ owner = "start_thread"
  /\ thread' = "loop"
  /\ owner' = "idle"
  /\ UNCHANGED <<m_start_encoder, m_params, codec, codec_params, stop_for,
                 m_force_i_frame, pict_type>>

(* StopVideoEncoder(), called by the owner (next = "idle"), by              *)
(* SetVideoParams() (next = "set") or DestroyVideoEncoder() (next = "free").*)
StopVideoEncoder(next) ==
  /\ owner = "idle" /\ m_start_encoder
  /\ m_start_encoder' = FALSE
  /\ owner' = "join"
  /\ stop_for' = next
  /\ UNCHANGED <<m_params, codec, codec_params, threadvars>>

(* m_process_thread.join(), BEFORE the queues are stopped. *)
Join ==
  /\ owner = "join"
  /\ thread \in {"none", "exited"}
  /\ thread' = "none"
  /\ owner' = "close"
  /\ UNCHANGED <<m_start_encoder, m_params, codec, codec_params, stop_for,
                 m_force_i_frame, pict_type>>

(* Both queues are stopped and the codec is closed. *)
CloseCodec ==
  /\ owner = "close"
  /\ codec' = IF codec = "open" THEN "closed" ELSE codec
  /\ owner' = stop_for
  /\ UNCHANGED <<m_start_encoder, m_params, codec_params, stop_for, threadvars>>

(* The body of SetVideoParams(p) when the encoder was running ... *)
WriteParams(p) ==
  /\ owner = "set"
  /\ m_params' = p
  /\ owner' = "open"
  /\ UNCHANGED <<m_start_encoder, codec, codec_params, stop_for, threadvars>>

(* ... and when it was not. *)
SetStopped(p) ==
  /\ owner = "idle" /\ ~m_start_encoder /\ codec # "freed"
  /\ m_params' = p
  /\ UNCHANGED <<m_start_encoder, codec, codec_params, owner, stop_for, threadvars>>

(* DestroyVideoEncoder() when StopVideoEncoder() has nothing to do. *)
DestroyStopped ==
  /\ owner = "idle" /\ ~m_start_encoder
  /\ owner' = "free"
  /\ UNCHANGED <<m_start_encoder, m_params, codec, codec_params, stop_for, threadvars>>

(* The rest of DestroyVideoEncoder(); nothing if it was done before. *)
FreeCodec ==
  /\ owner = "free"
  /\ codec' = "freed"
  /\ owner' = "idle"
  /\ UNCHANGED <<m_start_encoder, m_params, codec_params, stop_for, threadvars>>

GenerateKeyFrame ==
  /\ m_force_i_frame' = TRUE
  /\ UNCHANGED <<pict_type, thread, ownervars>>

--------------------------------------------------------------------------------
(* UpdateVideoEncoder(), the body of m_process_thread.                      *)

(* An iteration begins; m_force_i_frame is read. *)
Iterate ==
  /\ thread = "loop" /\ m_start_encoder
  /\ \/ m_force_i_frame /\ pict_type' = "I" /\ thread' = "forced"
     \/ ~m_force_i_frame /\ pict_type' = "NONE" /\ thread' = "popping"
  /\ UNCHANGED <<m_force_i_frame, ownervars>>

(* m_force_i_frame is cleared; a key frame does not wait for a new frame. *)
ClearForce(input_empty) ==
  /\ thread = "forced"
  /\ m_force_i_frame' = FALSE
  /\ thread' = IF input_empty THEN "send" ELSE "popping"
  /\ UNCHANGED <<pict_type, ownervars>>

(* WaitePopBuffer() has returned. *)
PopReturns ==
  /\ thread = "popping"
  /\ thread' = "send"
  /\ UNCHANGED <<m_force_i_frame, pict_type, ownervars>>

(* RGB2YUV() and avcodec_send_frame(). *)
Encode ==
  /\ thread = "send"
  /\ thread' = "receive"
  /\ UNCHANGED <<m_force_i_frame, pict_type, ownervars>>

(* avcodec_send_frame() fails: the thread ends, m_start_encoder stays true. *)
EncodeFails ==
  /\ thread = "send"
  /\ thread' = "exited"
  /\ UNCHANGED <<m_force_i_frame, pict_type, ownervars>>

(* avcodec_receive_packet() gives the packet: its push begins ... *)
Receive ==
  /\ thread = "receive"
  /\ thread' = "pushing"
  /\ UNCHANGED <<m_force_i_frame, pict_type, ownervars>>

(* ... or gives none, or fails: on to the next frame. *)
ReceiveNothing ==
  /\ thread = "receive"
  /\ thread' = "loop"
  /\ UNCHANGED <<m_force_i_frame, pict_type, ownervars>>

(* WaitePushBuffer() has returned, and there is no second packet. *)
PushReturns ==
  /\ thread = "pushing"
  /\ thread' = "loop"
  /\ UNCHANGED <<m_force_i_frame, pict_type, ownervars>>

LeaveLoop ==
  /\ thread = "loop" /\ ~m_start_encoder
  /\ thread' = "exited"
  /\ UNCHANGED <<m_force_i_frame, pict_type, ownervars>>

--------------------------------------------------------------------------------
OwnerCalls ==
  \/ owner = "idle" /\ OpenCodec
  \/ \E next \in {"idle", "set", "free"} : StopVideoEncoder(next)
  \/ \E p \in Params : SetStopped(p)
  \/ DestroyStopped

OwnerGoesOn ==
  \/ owner = "open" /\ OpenCodec
  \/ OpenFails
  \/ StartThread
  \/ Join
  \/ CloseCodec
  \/ \E p \in Params : WriteParams(p)
  \/ FreeCodec

EncoderThread ==
  \/ Iterate
  \/ \E empty \in BOOLEAN : ClearForce(empty)
  \/ PopReturns
  \/ Encode \/ EncodeFails
  \/ Receive \/ ReceiveNothing
  \/ PushReturns
  \/ LeaveLoop

Next == OwnerCalls \/ OwnerGoesOn \/ GenerateKeyFrame \/ EncoderThread

Spec == Init /\ [][Next]_vars

--------------------------------------------------------------------------------
(* The codec context has one user at a time: while the thread is in its     *)
(* loop the codec stays open, whatever the owner is called to do meanwhile  *)
(* (VideoEncoderFFmpeg.cpp:145-187 against 92-136, 201-202 and 213-216).    *)
CodecExclusive == thread \in Encoding => codec = "open"

(* The codec encodes with the parameters of the last SetVideoParams() that  *)
(* has returned (VideoEncoderFFmpeg.cpp:88-141).                            *)
ParamsInForce == m_start_encoder /\ owner = "idle" => codec_params = m_params

(* std::thread is never assigned while joinable (it would terminate the     *)
(* program), also when the thread ended by itself (lines 168-171, 84).      *)
NoThreadOverwritten == owner = "start_thread" => thread = "none"

(* avcodec.h:2526-2529 of the FFmpeg headers the encoder is built with:     *)
(* "Opening and closing a codec context multiple times is not supported     *)
(* anymore -- use multiple codec contexts instead."                         *)
NeverReopened == [][OpenCodec => codec # "closed"]_vars
================================================================================

----------------------------- MODULE EncoderFrames -----------------------------
(***************************************************************************)
(* VideoEncoderFFmpeg with what its thread does to a frame: the time stamp, *)
(* and RGB2YUV(), which writes three planes into one buffer of the size the *)
(* picture had when the encoder was made.  y_size is a static variable: the *)
(* first conversion of the process sets it, for every encoder.              *)
(*                                                                          *)
(* The state has places for pixels and no values.  Params are sizes:        *)
(* m_frame has the width and height of m_params, SetVideoParams() writes    *)
(* both.                                                                    *)
(***************************************************************************)
EXTENDS Integers

CONSTANTS
  Widths, Heights,
  MaxFrames        (* bound: frames sent to one opened codec                *)

ASSUME FramesAssumption ==
  /\ Widths \subseteq Nat \ {0} /\ Heights \subseteq Nat \ {0}
  /\ MaxFrames \in Nat

VARIABLES
  m_start_encoder, m_force_i_frame, m_params, codec, codec_params, pict_type,
  thread, owner, stop_for,
  m_frame_count,
  pts,             (* m_frame->pts                                          *)
  sent,            (* frames sent to the codec since it was opened          *)
  m_input_buffer,  (* how many pixels it holds; 0: an empty vector          *)
  y_size,          (* 0: not initialised yet                                *)
  m_yuv_data,      (* the size it was allocated for                         *)
  misfit           (* a picture has become wider or higher than it was, or  *)
                   (* y_size is left from an encoder of another size        *)

encvars == <<m_start_encoder, m_force_i_frame, m_params, codec, codec_params, pict_type,
             thread, owner, stop_for>>
countvars == <<m_frame_count, pts, sent>>
picturevars == <<m_input_buffer, y_size, m_yuv_data, misfit>>
vars == <<encvars, countvars, picturevars>>

Params == Widths \X Heights

enc == INSTANCE VideoEncoderFFmpeg

Pixels(size) == size[1] * size[2]

(* One pixel: >> 8 on an int is a division that rounds down.               *)
Luma(R, G, B) == (66 * R + 129 * G + 25 * B) \div 256 + 16
ChromaU(R, G, B) == (112 * B - 38 * R - 74 * G) \div 256 + 128
ChromaV(R, G, B) == (112 * R - 94 * G - 18 * B) \div 256 + 128

(* The samples of one chroma plane: every other pixel of every other row.  *)
Samples(size) == ((size[1] + 1) \div 2) * ((size[2] + 1) \div 2)

Frames == {Pixels(size) : size \in Params}

TypeOK ==
  /\ enc!TypeOK
  /\ m_frame_count \in 0..MaxFrames /\ pts \in 0..MaxFrames /\ sent \in 0..MaxFrames
  /\ m_input_buffer \in Frames \cup {0}
  /\ y_size \in Frames \cup {0}
  /\ m_yuv_data \in Params
  /\ misfit \in BOOLEAN

(* An encoder of another size may have been used before this one. *)
Init ==
  /\ enc!Init
  /\ m_frame_count = 0 /\ pts = 0 /\ sent = 0
  /\ m_input_buffer = 0
  /\ m_yuv_data = m_params
  /\ y_size \in Frames \cup {0}
  /\ misfit = (y_size \notin {0, Pixels(m_params)})

--------------------------------------------------------------------------------
(* Mutated forms of the definitions below: bugs the properties must catch. *)

(* RGB2YUV() that does not look at the size of the frame. *)
ConvertsAny == m_input_buffer # 0

(* StopVideoEncoder() that does not reset m_frame_count. *)
StopKeepsCount == enc!CloseCodec /\ UNCHANGED <<countvars, picturevars>>

--------------------------------------------------------------------------------
(* y_size during the next conversion, and where it puts the planes. *)
YSize == IF y_size = 0 THEN Pixels(m_params) ELSE y_size
UIndex == YSize
VIndex == YSize + YSize \div 4

(* A frame of another size is not converted: the last picture stays. *)
Converts == m_input_buffer = YSize

--------------------------------------------------------------------------------
EncoderOpens == enc!OpenCodec /\ sent' = 0 /\ UNCHANGED <<m_frame_count, pts, picturevars>>

EncoderStops == enc!CloseCodec /\ m_frame_count' = 0 /\ UNCHANGED <<pts, sent, picturevars>>

(* SetVideoParams() gives m_frame its new size, m_yuv_data keeps its own.   *)
Resizes(size) ==
  /\ enc!WriteParams(size) \/ enc!SetStopped(size)
  /\ misfit' = (misfit \/ size[1] > m_params[1] \/ size[2] > m_params[2])
  /\ UNCHANGED <<countvars, m_input_buffer, y_size, m_yuv_data>>

OwnerElse ==
  /\ \/ \E next \in {"idle", "set", "free"} : enc!StopVideoEncoder(next)
     \/ enc!DestroyStopped \/ enc!OpenFails \/ enc!StartThread \/ enc!Join \/ enc!FreeCodec
     \/ enc!GenerateKeyFrame
  /\ UNCHANGED <<countvars, picturevars>>

Iterates ==
  /\ m_frame_count < MaxFrames
  /\ enc!Iterate
  /\ pts' = m_frame_count
  /\ m_frame_count' = m_frame_count + 1
  /\ UNCHANGED <<sent, picturevars>>

(* The pop comes back with a frame, or leaves the vector as it is.          *)
Pops ==
  /\ enc!PopReturns
  /\ m_input_buffer' \in Frames \cup {m_input_buffer}
  /\ UNCHANGED <<countvars, y_size, m_yuv_data, misfit>>

Encodes ==
  /\ \/ enc!Encode /\ sent' = sent + 1
     \/ enc!EncodeFails /\ UNCHANGED sent
  /\ y_size' = YSize
  /\ UNCHANGED <<m_frame_count, pts, m_input_buffer, m_yuv_data, misfit>>

ThreadElse ==
  /\ \/ \E empty \in BOOLEAN : enc!ClearForce(empty)
     \/ enc!Receive \/ enc!ReceiveNothing \/ enc!PushReturns \/ enc!LeaveLoop
  /\ UNCHANGED <<countvars, picturevars>>

Next ==
  \/ EncoderOpens \/ EncoderStops
  \/ \E size \in Params : Resizes(size)
  \/ OwnerElse
  \/ Iterates \/ Pops \/ Encodes \/ ThreadElse

Spec == Init /\ [][Next]_vars

--------------------------------------------------------------------------------
CodecExclusive == enc!CodecExclusive
ParamsInForce == enc!ParamsInForce
NoThreadOverwritten == enc!NoThreadOverwritten

(* The codec gets its frames numbered from 0 without a gap, each time it is *)
(* opened anew, although the count is reset by the call that stops it and   *)
(* goes on in the thread (VideoEncoderFFmpeg.cpp:146, 164, 204).            *)
PtsCountsFrames == thread \in {"popping", "send"} => pts = sent

Even(size) == size[1] % 2 = 0 /\ size[2] % 2 = 0

(* A conversion reads inside the frame, and the planes it writes are apart  *)
(* and inside m_yuv_data, also when SetVideoParams() has made the picture   *)
(* smaller and frames of the old size still come: provided sizes are even,  *)
(* no picture has grown and y_size is not that of another encoder           *)
(* (VideoEncoderFFmpeg.cpp:64-67, 113-116, 231-257).                        *)
ConversionFits ==
  thread = "send" /\ Converts /\ Even(m_params) /\ ~misfit =>
    /\ Pixels(m_params) <= m_input_buffer
    /\ Pixels(m_params) <= UIndex
    /\ UIndex + Samples(m_params) <= VIndex
    /\ VIndex + Samples(m_params) <= Pixels(m_yuv_data) + 2 * Samples(m_yuv_data)
================================================================================

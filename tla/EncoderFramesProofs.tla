-------------------------- MODULE EncoderFramesProofs --------------------------
(***************************************************************************)
(* Proofs about EncoderFrames for all widths and heights.  What concerns    *)
(* the owner and the thread only is taken from VideoEncoderProofs.          *)
(***************************************************************************)
EXTENDS EncoderFrames, TLAPS

encp == INSTANCE VideoEncoderProofs

(* The two instances speak of the same actions. *)
LEMMA SameNext == enc!Next <=> encp!Next
BY Zenon DEF enc!Next, enc!OwnerCalls, enc!OwnerGoesOn, enc!EncoderThread,
     enc!OpenCodec, enc!StopVideoEncoder, enc!SetStopped, enc!DestroyStopped,
     enc!OpenFails, enc!StartThread, enc!Join, enc!CloseCodec, enc!WriteParams,
     enc!FreeCodec, enc!GenerateKeyFrame, enc!Iterate, enc!ClearForce, enc!PopReturns,
     enc!Encode, enc!EncodeFails, enc!Receive, enc!ReceiveNothing, enc!PushReturns,
     enc!LeaveLoop, enc!threadvars, enc!ownervars,
     encp!Next, encp!OwnerCalls, encp!OwnerGoesOn, encp!EncoderThread,
     encp!OpenCodec, encp!StopVideoEncoder, encp!SetStopped, encp!DestroyStopped,
     encp!OpenFails, encp!StartThread, encp!Join, encp!CloseCodec, encp!WriteParams,
     encp!FreeCodec, encp!GenerateKeyFrame, encp!Iterate, encp!ClearForce, encp!PopReturns,
     encp!Encode, encp!EncodeFails, encp!Receive, encp!ReceiveNothing, encp!PushReturns,
     encp!LeaveLoop, encp!threadvars, encp!ownervars

(* Every step here is a step of the encoder, or none. *)
LEMMA StepOfEncoder == [Next]_vars => [encp!Next]_encvars
<1> SUFFICES ASSUME [Next]_vars PROVE enc!Next \/ UNCHANGED encvars
  BY SameNext
<1>1. CASE EncoderOpens \/ EncoderStops
  BY <1>1 DEF EncoderOpens, EncoderStops, enc!Next, enc!OwnerCalls, enc!OwnerGoesOn,
              enc!OpenCodec, enc!CloseCodec
<1>2. ASSUME NEW size \in Params, Resizes(size) PROVE enc!Next
  BY <1>2 DEF Resizes, enc!Next, enc!OwnerCalls, enc!OwnerGoesOn
<1>3. CASE OwnerElse
  BY <1>3 DEF OwnerElse, enc!Next, enc!OwnerCalls, enc!OwnerGoesOn
<1>4. CASE Iterates \/ Pops \/ Encodes \/ ThreadElse
  BY <1>4 DEF Iterates, Pops, Encodes, ThreadElse, enc!Next, enc!EncoderThread
<1>5. CASE UNCHANGED vars
  BY <1>5 DEF vars
<1>6. QED
  BY <1>1, <1>2, <1>3, <1>4, <1>5 DEF Next

(* The counts and sizes take nothing from the encoder: with them every      *)
(* behaviour is one of VideoEncoderFFmpeg (VideoEncoderFFmpeg.cpp:144-207). *)
THEOREM FramesAreOfTheEncoder == Spec => enc!Spec
<1>1. Init => enc!Init
  BY DEF Init
<1>2. [Next]_vars => [enc!Next]_(enc!vars)
  BY StepOfEncoder, SameNext DEF encvars, enc!vars
<1>3. QED
  BY <1>1, <1>2, PTL DEF Spec, enc!Spec

LEMMA EncoderInvariant == Spec => []encp!IInv
<1>1. Init => encp!IInv
  BY encp!InitIInv DEF Init, enc!Init, encp!Init
<1>2. encp!IInv /\ [Next]_vars => encp!IInv'
  BY StepOfEncoder, encp!NextIInv DEF encvars, encp!vars
<1>3. QED
  BY <1>1, <1>2, PTL DEF Spec

(* What the owner and the thread keep (VideoEncoderProofs) in the words of  *)
(* this module.                                                             *)
LEMMA OwnerAndThread ==
  encp!IInv => /\ enc!TypeOK /\ CodecExclusive /\ ParamsInForce /\ NoThreadOverwritten
               /\ thread \in enc!Encoding => owner \in {"idle", "join"}
               /\ owner \in {"start_thread", "close", "set", "open", "free"} => thread = "none"
               /\ owner = "start_thread" => m_start_encoder
               /\ owner = "idle" /\ ~m_start_encoder => thread = "none"
BY DEF encp!IInv, encp!TypeOK, encp!Handover, encp!CodecExclusive, encp!Encoding, encp!ThreadPC,
       encp!OwnerPC, enc!TypeOK, enc!Encoding, enc!ThreadPC, enc!OwnerPC, CodecExclusive,
       ParamsInForce, NoThreadOverwritten, enc!CodecExclusive, enc!ParamsInForce,
       enc!NoThreadOverwritten

(* The codec context is closed, rewritten and freed only while no thread of *)
(* the encoder uses it (VideoEncoderFFmpeg.cpp:196-202, 209-226).           *)
THEOREM CodecHasOneUser == Spec => []CodecExclusive
BY EncoderInvariant, OwnerAndThread, PTL

(* A running encoder has the parameters of the last SetVideoParams()        *)
(* (VideoEncoderFFmpeg.cpp:88-141).                                         *)
THEOREM ParamsAreInForce == Spec => []ParamsInForce
BY EncoderInvariant, OwnerAndThread, PTL

(* The encoder thread is started only after the last one was joined, also   *)
(* when that ended by itself (VideoEncoderFFmpeg.cpp:84, 170, 197-198).     *)
THEOREM ThreadIsNotOverwritten == Spec => []NoThreadOverwritten
BY EncoderInvariant, OwnerAndThread, PTL

--------------------------------------------------------------------------------
(* How m_frame_count, pts and the frames sent go along with each other.     *)
Counting ==
  /\ m_frame_count \in Nat /\ sent \in Nat /\ pts \in Nat
  /\ m_frame_count <= MaxFrames /\ sent <= MaxFrames /\ pts <= MaxFrames
  /\ thread \in {"loop", "receive", "pushing"} => m_frame_count = sent
  /\ thread \in {"forced", "popping", "send"} => m_frame_count = sent + 1 /\ pts = sent
  /\ owner = "start_thread" => m_frame_count = 0 /\ sent = 0
  /\ ~m_start_encoder /\ owner \notin {"join", "close"} => m_frame_count = 0

LEMMA InitCounting == Init => Counting
BY FramesAssumption DEF Init, enc!Init, Counting

LEMMA NextCounting == Counting /\ encp!IInv /\ [Next]_vars => Counting'
<1> SUFFICES ASSUME Counting, encp!IInv, [Next]_vars PROVE Counting'
  OBVIOUS
<1> USE FramesAssumption, OwnerAndThread DEF Counting, enc!Encoding, enc!threadvars, enc!ownervars
<1>1. CASE EncoderOpens
  BY <1>1 DEF EncoderOpens, enc!OpenCodec
<1>2. CASE EncoderStops
  BY <1>2 DEF EncoderStops, enc!CloseCodec, enc!TypeOK
<1>3. ASSUME NEW size \in Params, Resizes(size) PROVE Counting'
  BY <1>3 DEF Resizes, countvars, enc!WriteParams, enc!SetStopped
<1>4. ASSUME NEW next \in {"idle", "set", "free"}, enc!StopVideoEncoder(next), UNCHANGED countvars
      PROVE  Counting'
  BY <1>4 DEF countvars, enc!StopVideoEncoder
<1>5. CASE OwnerElse /\ ~\E next \in {"idle", "set", "free"} : enc!StopVideoEncoder(next)
  BY <1>5 DEF OwnerElse, countvars, enc!DestroyStopped, enc!OpenFails, enc!StartThread, enc!Join,
              enc!FreeCodec, enc!GenerateKeyFrame
<1>6. CASE Iterates
  BY <1>6 DEF Iterates, enc!Iterate
<1>7. CASE Pops
  BY <1>7 DEF Pops, enc!PopReturns, countvars
<1>8. CASE Encodes
  BY <1>8 DEF Encodes, enc!Encode, enc!EncodeFails
<1>9. CASE ThreadElse
  BY <1>9 DEF ThreadElse, countvars, enc!ClearForce, enc!Receive, enc!ReceiveNothing,
              enc!PushReturns, enc!LeaveLoop
<1>10. CASE UNCHANGED vars
  BY <1>10 DEF vars, countvars, encvars
<1>11. QED
  BY <1>1, <1>2, <1>3, <1>4, <1>5, <1>6, <1>7, <1>8, <1>9, <1>10 DEF Next, OwnerElse

(* The frames a codec gets are numbered 0, 1, 2, ... from its opening on    *)
(* (VideoEncoderFFmpeg.cpp:146, 164, 204).                                  *)
THEOREM FramesAreNumbered == Spec => []PtsCountsFrames
<1>1. Counting => PtsCountsFrames
  BY DEF Counting, PtsCountsFrames
<1>2. QED
  BY <1>1, InitCounting, NextCounting, EncoderInvariant, PTL DEF Spec

--------------------------------------------------------------------------------
(* Arithmetic of sizes: a smaller picture has fewer pixels; an even one has *)
(* four of them for a chroma sample, any one at most four.                  *)
LEMMA PixelsMonotonic ==
  ASSUME NEW w \in Nat, NEW h \in Nat, NEW w0 \in Nat, NEW h0 \in Nat, w <= w0, h <= h0
  PROVE  w * h <= w0 * h0 /\ w * h \in Nat /\ w0 * h0 \in Nat
<1>1. w0 * h0 = w * h + w * (h0 - h) + (w0 - w) * h0
  OBVIOUS
<1>2. w * h \in Nat /\ w0 * h0 \in Nat /\ w * (h0 - h) \in Nat /\ (w0 - w) * h0 \in Nat
  OBVIOUS
<1>3. QED
  BY <1>1, <1>2

LEMMA SamplesOfPixels ==
  ASSUME NEW size \in Nat \X Nat
  PROVE  /\ Samples(size) \in Nat /\ Pixels(size) \in Nat
         /\ Pixels(size) <= 4 * Samples(size)
         /\ Even(size) => Pixels(size) = 4 * Samples(size)
<1> DEFINE w == (size[1] + 1) \div 2
           h == (size[2] + 1) \div 2
<1>1. /\ size[1] \in Nat /\ size[2] \in Nat /\ w \in Nat /\ h \in Nat
      /\ size[1] <= 2 * w /\ size[2] <= 2 * h
  OBVIOUS
<1>2. (2 * w) * (2 * h) = 4 * (w * h) /\ w * h \in Nat
  BY <1>1
<1>3. size[1] * size[2] <= (2 * w) * (2 * h) /\ size[1] * size[2] \in Nat
  <2>1. 2 * w \in Nat /\ 2 * h \in Nat
    BY <1>1
  <2> HIDE DEF w, h
  <2>2. QED
    BY <1>1, <2>1, PixelsMonotonic
<1>4. Even(size) => size[1] = 2 * w /\ size[2] = 2 * h
  <2>1. ASSUME NEW n \in Nat, n % 2 = 0 PROVE n = 2 * ((n + 1) \div 2)
    BY <2>1
  <2>2. QED
    BY <1>1, <2>1 DEF Even
<1>5. QED
  BY <1>1, <1>2, <1>3, <1>4 DEF Samples, Pixels

(* Unless a picture has grown or y_size was set by an encoder of another    *)
(* size, sizes only shrink: the first, y_size, the present.                 *)
Shrinking ==
  /\ m_params \in Nat \X Nat /\ m_yuv_data \in Nat \X Nat
  /\ y_size \in Nat
  /\ misfit \in BOOLEAN
  /\ ~misfit => /\ m_params[1] <= m_yuv_data[1] /\ m_params[2] <= m_yuv_data[2]
                /\ y_size # 0 => Pixels(m_params) <= y_size /\ y_size <= Pixels(m_yuv_data)

LEMMA SizesAreNat == Params \subseteq Nat \X Nat /\ Frames \subseteq Nat
<1>1. Params \subseteq Nat \X Nat
  BY FramesAssumption DEF Params
<1>2. QED
  BY <1>1, SamplesOfPixels DEF Frames

LEMMA InitShrinking == Init => Shrinking
<1> SUFFICES ASSUME Init PROVE Shrinking
  OBVIOUS
<1>1. m_params \in Nat \X Nat /\ m_yuv_data = m_params /\ y_size \in Nat
  BY SizesAreNat DEF Init, enc!Init
<1>2. Pixels(m_params) \in Nat
  BY <1>1, SamplesOfPixels
<1>3. /\ misfit = (y_size \notin {0, Pixels(m_params)})
      /\ misfit \in BOOLEAN
  BY DEF Init
<1>4. CASE y_size \in {0, Pixels(m_params)}
  BY <1>1, <1>2, <1>3, <1>4 DEF Shrinking
<1>5. CASE misfit
  BY <1>1, <1>3, <1>5 DEF Shrinking
<1>6. QED
  BY <1>3, <1>4, <1>5

LEMMA NextShrinking == Shrinking /\ [Next]_vars => Shrinking'
<1> SUFFICES ASSUME Shrinking, [Next]_vars PROVE Shrinking'
  OBVIOUS
<1> USE DEF Shrinking
<1>1. ASSUME NEW size \in Params, Resizes(size) PROVE Shrinking'
  <2>1. size \in Nat \X Nat /\ m_params' = size
    BY <1>1, SizesAreNat DEF Resizes, enc!WriteParams, enc!SetStopped
  <2>2. /\ misfit' \in BOOLEAN
        /\ ~misfit' => ~misfit /\ ~(size[1] > m_params[1]) /\ ~(size[2] > m_params[2])
    BY <1>1, Zenon DEF Resizes
  <2>3. Pixels(m_params) \in Nat /\ Pixels(size) \in Nat /\ Pixels(m_yuv_data) \in Nat
    BY <2>1, SamplesOfPixels
  <2>4. ~misfit' => Pixels(size) <= Pixels(m_params)
    BY <2>1, <2>2, PixelsMonotonic DEF Pixels
  <2>5. UNCHANGED <<y_size, m_yuv_data>>
    BY <1>1 DEF Resizes
  <2>6. QED
    BY <2>1, <2>2, <2>3, <2>4, <2>5 DEF Pixels
<1>2. CASE Encodes
  <2>1. Pixels(m_params) \in Nat /\ Pixels(m_yuv_data) \in Nat
    BY SamplesOfPixels
  <2>2. ~misfit => Pixels(m_params) <= Pixels(m_yuv_data)
    BY PixelsMonotonic DEF Pixels
  <2>3. UNCHANGED <<m_params, m_yuv_data, misfit>> /\ y_size' = YSize
    BY <1>2 DEF Encodes, enc!Encode, enc!EncodeFails, enc!ownervars
  <2>4. QED
    BY <2>1, <2>2, <2>3 DEF YSize, Pixels
<1>3. CASE UNCHANGED <<m_params, y_size, m_yuv_data, misfit>>
  BY <1>3 DEF Pixels
<1>4. CASE EncoderOpens \/ EncoderStops
  BY <1>3, <1>4 DEF EncoderOpens, EncoderStops, picturevars, enc!OpenCodec, enc!CloseCodec
<1>5. CASE OwnerElse
  BY <1>3, <1>5 DEF OwnerElse, picturevars, enc!StopVideoEncoder, enc!DestroyStopped, enc!OpenFails,
                enc!StartThread, enc!Join, enc!FreeCodec, enc!GenerateKeyFrame, enc!ownervars
<1>6. CASE Iterates \/ Pops \/ ThreadElse
  BY <1>3, <1>6 DEF Iterates, Pops, ThreadElse, picturevars, enc!Iterate, enc!PopReturns,
                enc!ClearForce, enc!Receive, enc!ReceiveNothing, enc!PushReturns, enc!LeaveLoop,
                enc!ownervars
<1>7. CASE UNCHANGED vars
  BY <1>3, <1>7 DEF vars, encvars, picturevars
<1>8. QED
  BY <1>1, <1>2, <1>4, <1>5, <1>6, <1>7 DEF Next

(* Whatever the sizes, RGB2YUV() stays inside its buffers and its planes    *)
(* apart, under the conditions ConversionFits names                         *)
(* (VideoEncoderFFmpeg.cpp:64-67, 113-116, 231-257).                        *)
THEOREM ConversionsFit == Spec => []ConversionFits
<1>1. Shrinking => ConversionFits
  <2> SUFFICES ASSUME Shrinking, Converts, Even(m_params), ~misfit
               PROVE  /\ Pixels(m_params) <= m_input_buffer
                      /\ Pixels(m_params) <= UIndex
                      /\ UIndex + Samples(m_params) <= VIndex
                      /\ VIndex + Samples(m_params) <= Pixels(m_yuv_data) + 2 * Samples(m_yuv_data)
    BY DEF ConversionFits
  <2>1. Pixels(m_params) <= Pixels(m_yuv_data)
    BY PixelsMonotonic DEF Shrinking, Pixels
  <2>2. /\ Pixels(m_params) \in Nat /\ Samples(m_params) \in Nat
        /\ Pixels(m_params) = 4 * Samples(m_params)
        /\ Pixels(m_yuv_data) \in Nat /\ Samples(m_yuv_data) \in Nat
        /\ Pixels(m_yuv_data) <= 4 * Samples(m_yuv_data)
    BY SamplesOfPixels DEF Shrinking
  <2>3. YSize \in Nat /\ Pixels(m_params) <= YSize /\ YSize <= Pixels(m_yuv_data)
    BY <2>1, <2>2 DEF Shrinking, YSize
  <2>4. QED
    BY <2>2, <2>3 DEF Converts, UIndex, VIndex
<1>2. QED
  BY <1>1, InitShrinking, NextShrinking, PTL DEF Spec

(* The values RGB2YUV() casts to uint8_t fit: the casts lose nothing, for   *)
(* every pixel (VideoEncoderFFmpeg.cpp:244-251).                            *)
THEOREM SamplesAreBytes ==
  ASSUME NEW R \in 0..255, NEW G \in 0..255, NEW B \in 0..255
  PROVE  Luma(R, G, B) \in 16..235 /\ ChromaU(R, G, B) \in 16..240 /\ ChromaV(R, G, B) \in 16..240
BY DEF Luma, ChromaU, ChromaV

--------------------------------------------------------------------------------
(* The state is well-typed; the frames of one codec are numbered within     *)
(* their bound.                                                             *)
THEOREM TypeCorrect == Spec => []TypeOK
<1> DEFINE Places == m_input_buffer \in Frames \cup {0} /\ y_size \in Frames \cup {0}
                     /\ m_yuv_data \in Params /\ misfit \in BOOLEAN
<1>1. Init => Places
  BY DEF Init, enc!Init
<1>2. Places /\ encp!IInv /\ [Next]_vars => Places'
  <2> SUFFICES ASSUME Places, encp!IInv, [Next]_vars PROVE Places'
    OBVIOUS
  <2>1. Pixels(m_params) \in Frames
    BY OwnerAndThread DEF enc!TypeOK, Frames
  <2>2. CASE \E size \in Params : Resizes(size)
    BY <2>2 DEF Resizes
  <2>3. CASE Encodes
    BY <2>1, <2>3 DEF Encodes, YSize
  <2>4. QED
    BY <2>2, <2>3 DEF Next, EncoderOpens, EncoderStops, OwnerElse, Iterates, Pops, ThreadElse,
                      picturevars, vars
<1>3. Places /\ Counting /\ encp!IInv => TypeOK
  BY OwnerAndThread, FramesAssumption DEF Counting, TypeOK
<1>4. QED
  BY <1>1, <1>2, <1>3, InitCounting, NextCounting, EncoderInvariant, PTL DEF Spec
================================================================================

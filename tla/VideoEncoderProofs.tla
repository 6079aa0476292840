--------------------------- MODULE VideoEncoderProofs ---------------------------
(***************************************************************************)
(* Proofs about VideoEncoderFFmpeg for any set of parameters and whatever   *)
(* its queues and its callers do.                                           *)
(***************************************************************************)
EXTENDS VideoEncoderFFmpeg, TLAPS

(* The thread exists only between the owner's StartThread and Join, and     *)
(* while the encoder is started the codec is open with the parameters set.  *)
Handover ==
  /\ thread \in Encoding => owner \in {"idle", "join"}
  /\ owner \in {"start_thread", "close", "set", "open", "free"} => thread = "none"
  /\ owner = "start_thread" => m_start_encoder
  /\ owner = "idle" /\ ~m_start_encoder => thread = "none"
  /\ m_start_encoder => codec = "open" /\ codec_params = m_params

IInv == TypeOK /\ Handover /\ CodecExclusive

LEMMA InitIInv == Init => IInv
BY DEF Init, IInv, TypeOK, Handover, CodecExclusive, Encoding, ThreadPC, OwnerPC

LEMMA NextIInv == IInv /\ [Next]_vars => IInv'
<1> SUFFICES ASSUME IInv, [Next]_vars PROVE IInv'
  OBVIOUS
<1> USE DEF IInv, TypeOK, Handover, CodecExclusive, Encoding, ThreadPC, OwnerPC, threadvars, ownervars
(* The owner. *)
<1>1. CASE OpenCodec
  BY <1>1 DEF OpenCodec
<1>2. ASSUME NEW next \in {"idle", "set", "free"}, StopVideoEncoder(next) PROVE IInv'
  BY <1>2 DEF StopVideoEncoder
<1>3. CASE OpenFails \/ StartThread \/ DestroyStopped
  BY <1>3 DEF OpenFails, StartThread, DestroyStopped
<1>4. CASE Join
  BY <1>4 DEF Join
<1>5. CASE CloseCodec
  BY <1>5 DEF CloseCodec
<1>6. ASSUME NEW p \in Params, WriteParams(p) \/ SetStopped(p) PROVE IInv'
  BY <1>6 DEF WriteParams, SetStopped
<1>7. CASE FreeCodec
  BY <1>7 DEF FreeCodec
(* Anybody. *)
<1>8. CASE GenerateKeyFrame
  BY <1>8 DEF GenerateKeyFrame
(* The encoder thread. *)
<1>9. CASE Iterate
  BY <1>9 DEF Iterate
<1>10. ASSUME NEW empty \in BOOLEAN, ClearForce(empty) PROVE IInv'
  BY <1>10 DEF ClearForce
<1>11. CASE PopReturns \/ Encode \/ EncodeFails \/ Receive
  BY <1>11 DEF PopReturns, Encode, EncodeFails, Receive
<1>12. CASE ReceiveNothing \/ PushReturns \/ LeaveLoop
  BY <1>12 DEF ReceiveNothing, PushReturns, LeaveLoop
<1>13. CASE UNCHANGED vars
  BY <1>13 DEF vars
<1>14. QED
  BY <1>1, <1>2, <1>3, <1>4, <1>5, <1>6, <1>7, <1>8, <1>9, <1>10, <1>11, <1>12, <1>13
     DEF Next, OwnerCalls, OwnerGoesOn, EncoderThread

LEMMA Invariant == Spec => []IInv
BY InitIInv, NextIInv, PTL DEF Spec

(* The codec context is closed, reconfigured and freed only while no        *)
(* encoder thread runs (VideoEncoderFFmpeg.cpp:145-187, 196-202, 213-216).  *)
THEOREM CodecHasOneUser == Spec => []CodecExclusive
<1>1. IInv => CodecExclusive
  BY DEF IInv
<1>2. QED
  BY <1>1, Invariant, PTL

(* The running codec has the parameters of the last SetVideoParams()        *)
(* (VideoEncoderFFmpeg.cpp:88-141).                                         *)
THEOREM ParamsAreInForce == Spec => []ParamsInForce
<1>1. IInv => ParamsInForce
  BY DEF IInv, Handover, ParamsInForce
<1>2. QED
  BY <1>1, Invariant, PTL

(* m_process_thread is never assigned while joinable (line 84).             *)
THEOREM ThreadIsNotOverwritten == Spec => []NoThreadOverwritten
<1>1. IInv => NoThreadOverwritten
  BY DEF IInv, Handover, NoThreadOverwritten
<1>2. QED
  BY <1>1, Invariant, PTL
================================================================================

--------------------------- MODULE VideoPipelineProofs ---------------------------
(***************************************************************************)
(* Proofs about VideoPipeline for queues of any size and any number of      *)
(* frames, and about the test program that uses it, for any number of pops. *)
(* What concerns the encoder's owner and thread only is taken from          *)
(* VideoEncoderProofs.                                                      *)
(***************************************************************************)
EXTENDS FFmpegVideoEncoderTest, TLAPS

encp == INSTANCE VideoEncoderProofs WITH
  m_start_encoder <- enc_start, m_force_i_frame <- enc_force, m_params <- enc_params,
  codec <- enc_codec, codec_params <- enc_codec_params, pict_type <- enc_pict,
  thread <- enc_thread, owner <- enc_owner, stop_for <- enc_stop_for

(* The two instances speak of the same actions. *)
LEMMA SameNext == enc!Next <=> encp!Next
BY Zenon DEF enc!Next, enc!OwnerCalls, enc!OwnerGoesOn, enc!EncoderThread,
     enc!OpenCodec, enc!StopVideoEncoder, enc!SetStopped, enc!DestroyStopped,
     enc!OpenFails, enc!StartThread, enc!Join, enc!CloseCodec, enc!WriteParams,
     enc!FreeCodec, enc!GenerateKeyFrame, enc!Iterate, enc!ClearForce, enc!PopReturns,
     enc!Encode, enc!EncodeFails, enc!Receive, enc!ReceiveNothing, enc!PushReturns,
     enc!LeaveLoop, enc!threadvars, enc!ownervars,
     encp!Next, encp!OwnerCalls, encp!OwnerGoesOn, encp!EncoderThread,
     encp!OpenCodec, encp!StopVideoEncoder, encp!SetStopped, encp!DestroyStopped,
     encp!OpenFails, encp!StartThread, encp!Join, encp!CloseCodec, encp!WriteParams,
     encp!FreeCodec, encp!GenerateKeyFrame, encp!Iterate, encp!ClearForce, encp!PopReturns,
     encp!Encode, encp!EncodeFails, encp!Receive, encp!ReceiveNothing, encp!PushReturns,
     encp!LeaveLoop, encp!threadvars, encp!ownervars

(* The steps that are not the encoder's. *)
LEMMA StepOfOthers ==
  ASSUME CaptureRuns \/ CaptureFails \/ CaptureDrops \/ ClientCalls \/ ClientTakes
           \/ ClientTakesNone \/ CaptureCalls \/ CaptureGoesOn
  PROVE  UNCHANGED encvars
BY DEF CaptureRuns, CaptureGrabs, CaptureStores, CaptureLeaves, CaptureFails, CaptureDrops,
       ClientCalls, ClientTakes, ClientTakesNone, CaptureCalls, CaptureGoesOn,
       CaptureStartsQueue, CaptureStopsQueue

LEMMA StepOfEncoder == [Next]_vars => [encp!Next]_encvars
<1> SUFFICES ASSUME [Next]_vars PROVE enc!Next \/ UNCHANGED encvars
  BY SameNext
<1>1. CASE EncoderRuns \/ EncoderTakesNone \/ EncoderFails
  BY <1>1 DEF EncoderRuns, EncoderIterates, EncoderClearsForce, EncoderTakes, EncoderTakesNone,
              EncoderEncodes, EncoderFails, EncoderReceives, EncoderStores, EncoderLeaves,
              enc!Next, enc!EncoderThread
<1>2. CASE EncoderStarts
  BY <1>2 DEF EncoderStarts, OwnerFree, enc!Next, enc!OwnerCalls
<1>3. CASE EncoderCalls
  BY <1>3 DEF EncoderCalls, EncoderStops, enc!Next, enc!OwnerCalls
<1>4. CASE EncoderGoesOn
  BY <1>4 DEF EncoderGoesOn, EncoderStartsQueues, EncoderStopsQueues, enc!Next, enc!OwnerGoesOn
<1>5. CASE KeyFrameAsked
  BY <1>5 DEF KeyFrameAsked, enc!Next
<1>6. CASE UNCHANGED vars
  BY <1>6 DEF vars
<1>7. QED
  BY <1>1, <1>2, <1>3, <1>4, <1>5, <1>6, StepOfOthers DEF Next, Refusals

LEMMA EncoderInvariant == Spec => []encp!IInv
<1>1. Init => encp!IInv
  BY encp!InitIInv DEF Init, enc!Init, encp!Init
<1>2. encp!IInv /\ [Next]_vars => encp!IInv'
  BY StepOfEncoder, encp!NextIInv DEF encvars, encp!vars
<1>3. QED
  BY <1>1, <1>2, PTL DEF Spec

(* The h264 queue is stopped by the encoder's owner alone, after the join.  *)
LEMMA NextNoPacketRefused ==
  encp!IInv /\ NoPacketRefused /\ [Next]_vars => NoPacketRefused'
<1> SUFFICES ASSUME encp!IInv, NoPacketRefused, [Next]_vars PROVE NoPacketRefused'
  OBVIOUS
<1>1. CASE EncoderStartsQueues
  BY <1>1 DEF EncoderStartsQueues, NoPacketRefused, h264!SetOpen
<1>2. CASE EncoderStopsQueues
  BY <1>2 DEF EncoderStopsQueues, NoPacketRefused, enc!CloseCodec, enc!Encoding, enc!threadvars,
              encp!IInv, encp!Handover
<1>3. CASE EncoderRuns \/ EncoderTakesNone \/ EncoderFails
  <2>1. enc_thread \in enc!Encoding
    BY <1>3 DEF EncoderRuns, EncoderIterates, EncoderClearsForce, EncoderTakes, EncoderTakesNone,
                EncoderEncodes, EncoderFails, EncoderReceives, EncoderStores, EncoderLeaves,
                enc!Encoding, enc!Iterate, enc!ClearForce, enc!PopReturns, enc!Encode,
                enc!EncodeFails, enc!Receive, enc!ReceiveNothing, enc!PushReturns, enc!LeaveLoop
  <2>2. UNCHANGED h264_open
    BY <1>3 DEF EncoderRuns, EncoderIterates, EncoderClearsForce, EncoderTakes, EncoderTakesNone,
                EncoderEncodes, EncoderFails, EncoderReceives, EncoderStores, EncoderLeaves,
                h264vars, h264!Invoke, h264!Put
  <2>3. QED
    BY <2>1, <2>2 DEF NoPacketRefused
<1>4. CASE EncoderStarts \/ EncoderCalls \/ KeyFrameAsked
  BY <1>4 DEF EncoderStarts, EncoderCalls, EncoderStops, KeyFrameAsked, NoPacketRefused, h264vars,
              enc!OpenCodec, enc!StopVideoEncoder, enc!SetStopped, enc!DestroyStopped,
              enc!GenerateKeyFrame, enc!threadvars
<1>5. CASE EncoderGoesOn /\ ~EncoderStartsQueues /\ ~EncoderStopsQueues
  BY <1>5 DEF EncoderGoesOn, NoPacketRefused, h264vars, enc!OpenCodec, enc!OpenFails, enc!Join,
              enc!WriteParams, enc!FreeCodec, enc!threadvars, enc!Encoding
<1>6. CASE CaptureRuns \/ CaptureFails \/ CaptureDrops \/ CaptureCalls \/ CaptureGoesOn
  <2>1. UNCHANGED h264_open
    BY <1>6 DEF CaptureRuns, CaptureGrabs, CaptureStores, CaptureLeaves, CaptureFails,
                CaptureDrops, CaptureCalls, CaptureGoesOn, CaptureStartsQueue,
                CaptureStopsQueue, h264vars
  <2>2. QED
    BY <1>6, <2>1, StepOfOthers DEF encvars, NoPacketRefused
<1>7. CASE ClientCalls \/ ClientTakes \/ ClientTakesNone
  <2>1. UNCHANGED h264_open
    BY <1>7 DEF ClientCalls, ClientTakes, ClientTakesNone, h264!Invoke, h264!Get, h264!Refuse
  <2>2. QED
    BY <1>7, <2>1, StepOfOthers DEF encvars, NoPacketRefused
<1>8. CASE UNCHANGED vars
  BY <1>8 DEF vars, encvars, h264vars, NoPacketRefused
<1>9. QED
  BY <1>1, <1>2, <1>3, <1>4, <1>5, <1>6, <1>7, <1>8 DEF Next, Refusals

(* The encoder never pushes to a stopped queue                              *)
(* (VideoEncoderFFmpeg.cpp:184, 197-200).                                   *)
THEOREM PacketsAreTaken == Spec => []NoPacketRefused
<1>1. Init => NoPacketRefused
  BY DEF Init, enc!Init, enc!Encoding, NoPacketRefused
<1>2. QED
  BY <1>1, NextNoPacketRefused, EncoderInvariant, PTL DEF Spec

--------------------------------------------------------------------------------
(* The queues and the boxes their callers bring: who is in a push has a     *)
(* buffer.                                                                  *)
QueuesTyped ==
  /\ rgb_fifo \in Seq(1..MaxFrame) /\ Len(rgb_fifo) <= RgbSize
  /\ h264_fifo \in Seq(0..MaxFrame) /\ Len(h264_fifo) <= H264Size
  /\ rgb_box \in [{Capture, Encoder} -> 1..MaxFrame \cup {NoBuffer}]
  /\ h264_box \in [{Encoder, Client} -> 0..MaxFrame \cup {NoBuffer}]
  /\ on_screen \in 1..MaxFrame

PushesBring ==
  /\ Capture \in rgb_in => rgb_box[Capture] # NoBuffer
  /\ Encoder \in h264_in => h264_box[Encoder] # NoBuffer

buffers == <<rgb_fifo, rgb_box, h264_fifo, h264_box, on_screen>>

EncoderPushes ==
  h264!Invoke(Encoder, Packet) /\ UNCHANGED <<rgb_fifo, rgb_box, rgb_in, on_screen>>

(* The steps that move a buffer, and what the others may do. *)
LEMMA BufferSteps ==
  ASSUME QueuesTyped, [Next]_vars
  PROVE  \/ CaptureGrabs \/ CaptureStores \/ EncoderTakes \/ EncoderPushes \/ EncoderStores
         \/ ClientCalls \/ ClientTakes
         \/ /\ UNCHANGED buffers
            /\ rgb_in' \subseteq rgb_in \cup {Encoder} /\ h264_in' \subseteq h264_in
<1> USE DEF buffers, rgbvars, h264vars
<1>1. CASE CaptureRuns \/ CaptureFails \/ CaptureDrops
  BY <1>1 DEF CaptureRuns, CaptureLeaves, CaptureFails, CaptureDrops, rgb!Refuse
<1>2. CASE EncoderIterates \/ EncoderClearsForce
  BY <1>2 DEF EncoderIterates, EncoderClearsForce, rgb!Invoke, QueuesTyped
<1>3. CASE EncoderReceives
  BY <1>3 DEF EncoderReceives, EncoderPushes
<1>4. CASE EncoderTakes \/ EncoderStores \/ EncoderEncodes \/ EncoderLeaves \/ EncoderFails \/ EncoderTakesNone
  BY <1>4 DEF EncoderEncodes, EncoderLeaves, EncoderFails, EncoderTakesNone, rgb!Refuse
<1>5. CASE ClientCalls \/ ClientTakes \/ ClientTakesNone
  BY <1>5 DEF ClientTakesNone, h264!Refuse
<1>6. CASE CaptureCalls \/ CaptureGoesOn
  BY <1>6 DEF CaptureCalls, CaptureGoesOn, CaptureStartsQueue, CaptureStopsQueue, rgb!SetOpen
<1>7. CASE EncoderStarts \/ EncoderCalls \/ EncoderGoesOn \/ KeyFrameAsked
  BY <1>7 DEF EncoderStarts, EncoderCalls, EncoderStops, EncoderGoesOn, EncoderStartsQueues,
              EncoderStopsQueues, KeyFrameAsked, rgb!SetOpen, h264!SetOpen
<1>8. CASE UNCHANGED vars
  BY <1>8 DEF vars
<1>9. QED
  BY <1>1, <1>2, <1>3, <1>4, <1>5, <1>6, <1>7, <1>8 DEF Next, Refusals, EncoderRuns

(* What a queue of numbers keeps when one comes and when one leaves. *)
LEMMA Appending ==
  ASSUME NEW S \in SUBSET Nat, NEW fifo \in Seq(S), NEW n \in S
  PROVE  /\ Append(fifo, n) \in Seq(S) /\ Len(Append(fifo, n)) = Len(fifo) + 1
         /\ Range(Append(fifo, n)) \subseteq Range(fifo) \cup {n}
         /\ InOrder(fifo) /\ (\A m \in Range(fifo) : m <= n) => InOrder(Append(fifo, n))
<1>1. DOMAIN fifo = 1..Len(fifo) /\ DOMAIN Append(fifo, n) = 1..Len(fifo) + 1
  OBVIOUS
<1>2. \A i \in 1..Len(fifo) + 1 :
        Append(fifo, n)[i] = IF i <= Len(fifo) THEN fifo[i] ELSE n
  OBVIOUS
<1>3. \A i \in 1..Len(fifo) : fifo[i] \in S
  OBVIOUS
<1>4. Range(Append(fifo, n)) \subseteq Range(fifo) \cup {n}
  BY <1>1, <1>2 DEF Range
<1>5. ASSUME InOrder(fifo), \A m \in Range(fifo) : m <= n PROVE InOrder(Append(fifo, n))
  BY <1>1, <1>2, <1>3, <1>5 DEF Range, InOrder
<1>6. QED
  BY <1>4, <1>5

LEMMA Taking ==
  ASSUME NEW S \in SUBSET Nat, NEW fifo \in Seq(S), fifo # <<>>
  PROVE  /\ Head(fifo) \in S /\ Head(fifo) \in Range(fifo)
         /\ Tail(fifo) \in Seq(S) /\ Len(Tail(fifo)) = Len(fifo) - 1
         /\ Range(Tail(fifo)) \subseteq Range(fifo)
         /\ InOrder(fifo) => InOrder(Tail(fifo)) /\ \A m \in Range(Tail(fifo)) : Head(fifo) <= m
<1>1. /\ Len(fifo) \in Nat \ {0} /\ DOMAIN fifo = 1..Len(fifo)
      /\ Len(Tail(fifo)) = Len(fifo) - 1 /\ DOMAIN Tail(fifo) = 1..Len(fifo) - 1
  OBVIOUS
<1>2. \A i \in 1..Len(fifo) - 1 : Tail(fifo)[i] = fifo[i + 1]
  OBVIOUS
<1>3. Head(fifo) = fifo[1] /\ 1 \in 1..Len(fifo)
  BY <1>1
<1>4. \A i \in 1..Len(fifo) : fifo[i] \in S
  OBVIOUS
<1>5. Head(fifo) \in Range(fifo) /\ Range(Tail(fifo)) \subseteq Range(fifo)
  BY <1>1, <1>2, <1>3 DEF Range
<1>6. ASSUME InOrder(fifo) PROVE InOrder(Tail(fifo)) /\ \A m \in Range(Tail(fifo)) : Head(fifo) <= m
  BY <1>1, <1>2, <1>3, <1>4, <1>6 DEF Range, InOrder
<1>7. QED
  BY <1>1, <1>3, <1>4, <1>5, <1>6

LEMMA InitQueues == Init => QueuesTyped /\ PushesBring /\ PipelineInOrder
<1> SUFFICES ASSUME Init PROVE QueuesTyped /\ PushesBring /\ PipelineInOrder
  OBVIOUS
<1> USE PipelineAssumption
<1>1. /\ rgb_fifo = <<>> /\ h264_fifo = <<>> /\ rgb_in = {} /\ h264_in = {} /\ on_screen = 1
      /\ rgb_box = [t \in {Capture, Encoder} |-> NoBuffer]
      /\ h264_box = [t \in {Encoder, Client} |-> NoBuffer]
  BY DEF Init, rgb!Init, h264!Init, rgb!Threads, h264!Threads
<1>2. Range(rgb_fifo) = {} /\ Range(h264_fifo) = {}
  BY <1>1 DEF Range
<1>3. /\ InOrder(rgb_fifo) /\ InOrder(h264_fifo)
      /\ OnTheWay = <<{NoBuffer}, {}, {NoBuffer}, {0}, {}, {NoBuffer}, {1}>>
  BY <1>1, <1>2 DEF InOrder, OnTheWay, Packet
<1>4. PipelineInOrder
  BY <1>3 DEF PipelineInOrder, NotNewer
<1>5. QED
  BY <1>1, <1>4 DEF QueuesTyped, PushesBring

LEMMA NextQueues ==
  QueuesTyped /\ PushesBring /\ [Next]_vars => (QueuesTyped /\ PushesBring)'
<1> SUFFICES ASSUME QueuesTyped, PushesBring, [Next]_vars PROVE (QueuesTyped /\ PushesBring)'
  OBVIOUS
<1> USE PipelineAssumption DEF QueuesTyped, PushesBring
<1>0. 1..MaxFrame \in SUBSET Nat /\ 0..MaxFrame \in SUBSET Nat
  OBVIOUS
<1>1. CASE CaptureGrabs
  BY <1>1 DEF CaptureGrabs, rgb!Invoke, h264vars
<1>2. CASE CaptureStores
  <2>1. rgb_box[Capture] \in 1..MaxFrame
    BY <1>2 DEF CaptureStores, rgb!Put
  <2>2. QED
    BY <1>0, <1>2, <2>1, Appending DEF CaptureStores, rgb!Put, h264vars
<1>3. CASE EncoderTakes
  <2>1. rgb_fifo # <<>>
    BY <1>3 DEF EncoderTakes, rgb!Get
  <2>2. Head(rgb_fifo) \in 1..MaxFrame /\ Tail(rgb_fifo) \in Seq(1..MaxFrame)
        /\ Len(Tail(rgb_fifo)) = Len(rgb_fifo) - 1
    BY <1>0, <2>1, Taking
  <2>3. QED
    BY <1>3, <2>2 DEF EncoderTakes, rgb!Get, h264vars
<1>4. CASE EncoderPushes
  <2>1. Packet \in 0..MaxFrame
    BY DEF Packet
  <2>2. QED
    BY <1>4, <2>1 DEF EncoderPushes, h264!Invoke
<1>5. CASE EncoderStores
  <2>1. h264_box[Encoder] \in 0..MaxFrame
    BY <1>5 DEF EncoderStores, h264!Put
  <2>2. QED
    BY <1>0, <1>5, <2>1, Appending DEF EncoderStores, h264!Put, rgbvars
<1>6. CASE ClientCalls
  BY <1>6 DEF ClientCalls, h264!Invoke, rgbvars
<1>7. CASE ClientTakes
  <2>1. h264_fifo # <<>>
    BY <1>7 DEF ClientTakes, h264!Get
  <2>2. Head(h264_fifo) \in 0..MaxFrame /\ Tail(h264_fifo) \in Seq(0..MaxFrame)
        /\ Len(Tail(h264_fifo)) = Len(h264_fifo) - 1
    BY <1>0, <2>1, Taking
  <2>3. QED
    BY <1>7, <2>2 DEF ClientTakes, h264!Get, rgbvars
<1>8. CASE UNCHANGED buffers /\ rgb_in' \subseteq rgb_in \cup {Encoder} /\ h264_in' \subseteq h264_in
  BY <1>8 DEF buffers
<1>9. QED
  BY <1>1, <1>2, <1>3, <1>4, <1>5, <1>6, <1>7, <1>8, BufferSteps

--------------------------------------------------------------------------------
InStages(s) == \A i, j \in 1..7 : i < j => NotNewer(s[i], s[j])

(* A buffer moves on from stage k + 1 to stage k and nothing else comes.    *)
LEMMA MovesOn ==
  ASSUME NEW s, NEW t, NEW k \in 1..6, InStages(s),
         \A i \in 1..7 \ {k} : t[i] \subseteq s[i] \cup {NoBuffer},
         t[k] \subseteq s[k] \cup s[k + 1],
         NotNewer(t[k], t[k + 1])
  PROVE  InStages(t)
<1> SUFFICES ASSUME NEW i \in 1..7, NEW j \in 1..7, i < j PROVE NotNewer(t[i], t[j])
  BY DEF InStages
<1>1. CASE i # k /\ j # k
  BY <1>1 DEF InStages, NotNewer
<1>2. CASE j = k
  <2>1. NotNewer(s[i], s[k]) /\ NotNewer(s[i], s[k + 1])
    BY <1>2 DEF InStages
  <2>2. QED
    BY <1>2, <2>1 DEF NotNewer
<1>3. CASE i = k /\ j > k + 1
  <2>1. NotNewer(s[k], s[j]) /\ NotNewer(s[k + 1], s[j])
    BY <1>3 DEF InStages
  <2>2. QED
    BY <1>3, <2>1 DEF NotNewer
<1>4. CASE i = k /\ j = k + 1
  BY <1>4
<1>5. QED
  BY <1>1, <1>2, <1>3, <1>4

LEMMA NextInOrder ==
  QueuesTyped /\ PushesBring /\ PipelineInOrder /\ [Next]_vars => PipelineInOrder'
<1> SUFFICES ASSUME QueuesTyped, PushesBring, PipelineInOrder, [Next]_vars PROVE PipelineInOrder'
  OBVIOUS
<1> USE PipelineAssumption
<1>0. 1..MaxFrame \in SUBSET Nat /\ 0..MaxFrame \in SUBSET Nat
  OBVIOUS
<1>a. InOrder(h264_fifo) /\ InOrder(rgb_fifo) /\ InStages(OnTheWay)
  BY DEF PipelineInOrder, InStages
<1>b. SUFFICES InOrder(h264_fifo)' /\ InOrder(rgb_fifo)' /\ InStages(OnTheWay')
  BY DEF PipelineInOrder, InStages, NotNewer
<1>1. CASE CaptureGrabs
  <2> DEFINE t == <<{h264_box[Client]}, Range(h264_fifo), {h264_box[Encoder]}, {Packet},
                    Range(rgb_fifo), {on_screen}, {on_screen}>>
  <2>1. /\ rgb_fifo' = rgb_fifo /\ h264_fifo' = h264_fifo
        /\ OnTheWay' = [t EXCEPT ![7] = {on_screen'}]
    BY <1>1 DEF CaptureGrabs, rgb!Invoke, QueuesTyped, OnTheWay, Packet, h264vars
  <2>2. InStages(t)
    <3>1. \A i \in 1..7 \ {6} : t[i] \subseteq OnTheWay[i] \cup {NoBuffer}
      BY DEF OnTheWay
    <3>2. t[6] \subseteq OnTheWay[6] \cup OnTheWay[7] /\ NotNewer(t[6], t[7])
      BY DEF OnTheWay, NotNewer, QueuesTyped
    <3> HIDE DEF t
    <3>3. QED
      BY <1>a, <3>1, <3>2, MovesOn
  <2>3. on_screen <= on_screen' /\ on_screen \in Nat /\ on_screen' \in Nat /\ on_screen # NoBuffer
    BY <1>1 DEF CaptureGrabs, QueuesTyped
  <2>4. \A i \in 1..6 : t[i] \subseteq Nat \cup {NoBuffer}
    <3>1. Range(rgb_fifo) \subseteq Nat /\ Range(h264_fifo) \subseteq Nat
      BY DEF Range, QueuesTyped
    <3>2. {h264_box[Client]} \subseteq Nat \cup {NoBuffer}
          /\ {h264_box[Encoder]} \subseteq Nat \cup {NoBuffer} /\ Packet \in Nat
      BY DEF QueuesTyped, Packet
    <3>3. QED
      BY <2>3, <3>1, <3>2
  <2>5. InStages([t EXCEPT ![7] = {on_screen'}])
    <3>1. \A i \in 1..6 : NotNewer(t[i], {on_screen})
      BY <2>2 DEF InStages
    <3>2. \A i \in 1..6 : NotNewer(t[i], {on_screen'})
      BY <2>3, <2>4, <3>1 DEF NotNewer
    <3>3. \A i \in 1..7 : [t EXCEPT ![7] = {on_screen'}][i] = IF i = 7 THEN {on_screen'} ELSE t[i]
      OBVIOUS
    <3> HIDE DEF t
    <3>4. QED
      BY <2>2, <3>2, <3>3 DEF InStages
  <2>6. QED
    BY <1>a, <2>1, <2>5
<1>2. CASE CaptureStores
  <2>1. rgb_box[Capture] \in 1..MaxFrame
    BY <1>2 DEF CaptureStores, rgb!Put, QueuesTyped, PushesBring
  <2>2. \A m \in Range(rgb_fifo) : m <= rgb_box[Capture]
    <3>1. NotNewer(Range(rgb_fifo), {rgb_box[Capture]})
      BY <1>a DEF InStages, OnTheWay
    <3>2. NoBuffer \notin Range(rgb_fifo)
      BY DEF QueuesTyped, Range
    <3>3. QED
      BY <2>1, <3>1, <3>2 DEF NotNewer
  <2>3. /\ rgb_fifo' = Append(rgb_fifo, rgb_box[Capture]) /\ h264_fifo' = h264_fifo
        /\ OnTheWay' = <<{h264_box[Client]}, Range(h264_fifo), {h264_box[Encoder]}, {Packet},
                         Range(Append(rgb_fifo, rgb_box[Capture])), {NoBuffer}, {on_screen}>>
    BY <1>2 DEF CaptureStores, rgb!Put, QueuesTyped, OnTheWay, Packet, h264vars
  <2>4. /\ InOrder(rgb_fifo')
        /\ Range(Append(rgb_fifo, rgb_box[Capture])) \subseteq Range(rgb_fifo) \cup {rgb_box[Capture]}
    BY <1>0, <1>a, <2>1, <2>2, <2>3, Appending DEF QueuesTyped
  <2>5. \A i \in 1..7 \ {5} : OnTheWay'[i] \subseteq OnTheWay[i] \cup {NoBuffer}
    <3> DEFINE R == Range(Append(rgb_fifo, rgb_box[Capture]))
    <3> HIDE DEF R
    <3>1. OnTheWay' = <<{h264_box[Client]}, Range(h264_fifo), {h264_box[Encoder]}, {Packet},
                        R, {NoBuffer}, {on_screen}>>
      BY <2>3 DEF R
    <3>2. QED
      BY <3>1 DEF OnTheWay
  <2>6. OnTheWay'[5] \subseteq OnTheWay[5] \cup OnTheWay[6] /\ NotNewer(OnTheWay'[5], OnTheWay'[6])
    BY <2>3, <2>4 DEF OnTheWay, NotNewer
  <2>7. InStages(OnTheWay')
    BY <1>a, <2>5, <2>6, MovesOn
  <2>8. QED
    BY <1>a, <2>3, <2>4, <2>7
<1>3. CASE EncoderTakes
  <2>1. /\ rgb_fifo # <<>> /\ rgb_fifo' = Tail(rgb_fifo) /\ h264_fifo' = h264_fifo
        /\ rgb_box' = [rgb_box EXCEPT ![Encoder] = Head(rgb_fifo)]
        /\ UNCHANGED <<h264_box, on_screen>>
    BY <1>3 DEF EncoderTakes, rgb!Get, h264vars
  <2>2. /\ Head(rgb_fifo) \in 1..MaxFrame /\ Head(rgb_fifo) \in Range(rgb_fifo)
        /\ Range(Tail(rgb_fifo)) \subseteq Range(rgb_fifo)
        /\ InOrder(Tail(rgb_fifo)) /\ \A m \in Range(Tail(rgb_fifo)) : Head(rgb_fifo) <= m
    BY <1>0, <1>a, <2>1, Taking DEF QueuesTyped
  <2>3. OnTheWay' = <<{h264_box[Client]}, Range(h264_fifo), {h264_box[Encoder]}, {Head(rgb_fifo)},
                      Range(Tail(rgb_fifo)), {rgb_box[Capture]}, {on_screen}>>
    BY <2>1, <2>2 DEF QueuesTyped, OnTheWay, Packet
  <2>4. \A i \in 1..7 \ {4} : OnTheWay'[i] \subseteq OnTheWay[i] \cup {NoBuffer}
    BY <2>2, <2>3 DEF OnTheWay
  <2>5. OnTheWay'[4] \subseteq OnTheWay[4] \cup OnTheWay[5] /\ NotNewer(OnTheWay'[4], OnTheWay'[5])
    BY <2>2, <2>3 DEF OnTheWay, NotNewer
  <2>6. InStages(OnTheWay')
    BY <1>a, <2>4, <2>5, MovesOn
  <2>7. QED
    BY <1>a, <2>1, <2>2, <2>6
<1>4. CASE EncoderPushes
  <2>1. /\ rgb_fifo' = rgb_fifo /\ h264_fifo' = h264_fifo
        /\ OnTheWay' = <<{h264_box[Client]}, Range(h264_fifo), {Packet}, {Packet},
                         Range(rgb_fifo), {rgb_box[Capture]}, {on_screen}>>
    BY <1>4 DEF EncoderPushes, h264!Invoke, QueuesTyped, OnTheWay, Packet
  <2>2. \A i \in 1..7 \ {3} : OnTheWay'[i] \subseteq OnTheWay[i] \cup {NoBuffer}
    BY <2>1 DEF OnTheWay
  <2>3. OnTheWay'[3] \subseteq OnTheWay[3] \cup OnTheWay[4] /\ NotNewer(OnTheWay'[3], OnTheWay'[4])
    <3>1. Packet \in Nat
      BY DEF QueuesTyped, Packet
    <3>2. QED
      BY <2>1, <3>1 DEF OnTheWay, NotNewer
  <2>4. InStages(OnTheWay')
    BY <1>a, <2>2, <2>3, MovesOn
  <2>5. QED
    BY <1>a, <2>1, <2>4
<1>5. CASE EncoderStores
  <2>1. h264_box[Encoder] \in 0..MaxFrame
    BY <1>5 DEF EncoderStores, h264!Put, QueuesTyped, PushesBring
  <2>2. \A m \in Range(h264_fifo) : m <= h264_box[Encoder]
    <3>1. NotNewer(Range(h264_fifo), {h264_box[Encoder]})
      BY <1>a DEF InStages, OnTheWay
    <3>2. NoBuffer \notin Range(h264_fifo)
      BY DEF QueuesTyped, Range
    <3>3. QED
      BY <2>1, <3>1, <3>2 DEF NotNewer
  <2>3. /\ h264_fifo' = Append(h264_fifo, h264_box[Encoder]) /\ rgb_fifo' = rgb_fifo
        /\ OnTheWay' = <<{h264_box[Client]}, Range(Append(h264_fifo, h264_box[Encoder])), {NoBuffer},
                         {Packet}, Range(rgb_fifo), {rgb_box[Capture]}, {on_screen}>>
    BY <1>5 DEF EncoderStores, h264!Put, QueuesTyped, OnTheWay, Packet, rgbvars
  <2>4. /\ InOrder(h264_fifo')
        /\ Range(Append(h264_fifo, h264_box[Encoder])) \subseteq Range(h264_fifo) \cup {h264_box[Encoder]}
    BY <1>0, <1>a, <2>1, <2>2, <2>3, Appending DEF QueuesTyped
  <2>5. \A i \in 1..7 \ {2} : OnTheWay'[i] \subseteq OnTheWay[i] \cup {NoBuffer}
    <3> DEFINE R == Range(Append(h264_fifo, h264_box[Encoder]))
    <3> HIDE DEF R
    <3>1. OnTheWay' = <<{h264_box[Client]}, R, {NoBuffer}, {Packet}, Range(rgb_fifo),
                        {rgb_box[Capture]}, {on_screen}>>
      BY <2>3 DEF R
    <3>2. QED
      BY <3>1 DEF OnTheWay
  <2>6. OnTheWay'[2] \subseteq OnTheWay[2] \cup OnTheWay[3] /\ NotNewer(OnTheWay'[2], OnTheWay'[3])
    BY <2>3, <2>4 DEF OnTheWay, NotNewer
  <2>7. InStages(OnTheWay')
    BY <1>a, <2>5, <2>6, MovesOn
  <2>8. QED
    BY <1>a, <2>3, <2>4, <2>7
<1>6. CASE ClientCalls
  <2>1. /\ rgb_fifo' = rgb_fifo /\ h264_fifo' = h264_fifo
        /\ OnTheWay' = [OnTheWay EXCEPT ![1] = {NoBuffer}]
    BY <1>6 DEF ClientCalls, h264!Invoke, QueuesTyped, OnTheWay, Packet, rgbvars
  <2>2. InStages(OnTheWay')
    BY <1>a, <2>1 DEF InStages, NotNewer, OnTheWay
  <2>3. QED
    BY <1>a, <2>1, <2>2
<1>7. CASE ClientTakes
  <2>1. /\ h264_fifo # <<>> /\ h264_fifo' = Tail(h264_fifo) /\ rgb_fifo' = rgb_fifo
        /\ h264_box' = [h264_box EXCEPT ![Client] = Head(h264_fifo)]
        /\ UNCHANGED <<rgb_box, on_screen>>
    BY <1>7 DEF ClientTakes, h264!Get, rgbvars
  <2>2. /\ Head(h264_fifo) \in 0..MaxFrame /\ Head(h264_fifo) \in Range(h264_fifo)
        /\ Range(Tail(h264_fifo)) \subseteq Range(h264_fifo)
        /\ InOrder(Tail(h264_fifo)) /\ \A m \in Range(Tail(h264_fifo)) : Head(h264_fifo) <= m
    BY <1>0, <1>a, <2>1, Taking DEF QueuesTyped
  <2>3. OnTheWay' = <<{Head(h264_fifo)}, Range(Tail(h264_fifo)), {h264_box[Encoder]}, {Packet},
                      Range(rgb_fifo), {rgb_box[Capture]}, {on_screen}>>
    BY <2>1, <2>2 DEF QueuesTyped, OnTheWay, Packet
  <2>4. \A i \in 1..7 \ {1} : OnTheWay'[i] \subseteq OnTheWay[i] \cup {NoBuffer}
    BY <2>2, <2>3 DEF OnTheWay
  <2>5. OnTheWay'[1] \subseteq OnTheWay[1] \cup OnTheWay[2] /\ NotNewer(OnTheWay'[1], OnTheWay'[2])
    BY <2>2, <2>3 DEF OnTheWay, NotNewer
  <2>6. InStages(OnTheWay')
    BY <1>a, <2>4, <2>5, MovesOn
  <2>7. QED
    BY <1>a, <2>1, <2>2, <2>6
<1>8. CASE UNCHANGED buffers
  BY <1>8, <1>a DEF buffers, OnTheWay, Packet
<1>9. QED
  BY <1>1, <1>2, <1>3, <1>4, <1>5, <1>6, <1>7, <1>8, BufferSteps DEF QueuesTyped

(* Frames reach the client in the order they were on the screen, through    *)
(* every start and stop, dropped or repeated but never back in time         *)
(* (BufferQueue.hpp:33-37, 45-48; VideoEncoderFFmpeg.cpp:151-164).          *)
THEOREM FramesStayInOrder == Spec => []PipelineInOrder
<1> DEFINE Inv == QueuesTyped /\ PushesBring /\ PipelineInOrder
<1>1. Init => Inv
  BY InitQueues
<1>2. Inv /\ [Next]_vars => Inv'
  BY NextQueues, NextInOrder
<1>3. QED
  BY <1>1, <1>2, PTL DEF Spec

--------------------------------------------------------------------------------
LEMMA StepOfCapture == [Next]_vars => [cap!Next]_capvars
<1> SUFFICES ASSUME [Next]_vars PROVE cap!Next \/ UNCHANGED capvars
  OBVIOUS
<1>1. CASE CaptureRuns \/ CaptureFails \/ CaptureDrops
  BY <1>1 DEF CaptureRuns, CaptureGrabs, CaptureStores, CaptureLeaves, CaptureFails, CaptureDrops,
              cap!Next, cap!CaptureThread
<1>2. CASE CaptureCalls \/ CaptureGoesOn
  BY <1>2 DEF CaptureCalls, CaptureGoesOn, CaptureStartsQueue, CaptureStopsQueue, cap!Next, cap!Owner
<1>3. CASE EncoderRuns \/ EncoderFails \/ EncoderTakesNone
  BY <1>3 DEF EncoderRuns, EncoderIterates, EncoderClearsForce, EncoderTakes, EncoderTakesNone,
              EncoderEncodes, EncoderFails, EncoderReceives, EncoderStores, EncoderLeaves
<1>4. CASE EncoderStarts \/ EncoderCalls \/ EncoderGoesOn \/ KeyFrameAsked
  BY <1>4 DEF EncoderStarts, EncoderCalls, EncoderStops, EncoderGoesOn, EncoderStartsQueues,
              EncoderStopsQueues, KeyFrameAsked
<1>5. CASE ClientCalls \/ ClientTakes \/ ClientTakesNone
  BY <1>5 DEF ClientCalls, ClientTakes, ClientTakesNone
<1>6. CASE UNCHANGED vars
  BY <1>6 DEF vars
<1>7. QED
  BY <1>1, <1>2, <1>3, <1>4, <1>5, <1>6 DEF Next, Refusals

LEMMA NextCaptureTyped == cap!TypeOK /\ [Next]_vars => cap!TypeOK'
<1> SUFFICES ASSUME cap!TypeOK, [cap!Next]_capvars PROVE cap!TypeOK'
  BY StepOfCapture
<1> USE DEF cap!TypeOK, cap!ThreadPC, cap!OwnerPC
<1>1. CASE cap!Owner
  <2>1. CASE (cap!Usable /\ cap!StartVideoCapture) \/ cap!StartThread
    BY <2>1 DEF cap!StartVideoCapture, cap!StartThread
  <2>2. ASSUME NEW next \in {"idle", "destroy"}, cap!StopVideoCapture(next) PROVE cap!TypeOK'
    BY <2>2 DEF cap!StopVideoCapture
  <2>3. CASE cap!StopQueue \/ cap!Join \/ cap!DestroyStopped \/ cap!DetachFails
    BY <2>3 DEF cap!StopQueue, cap!Join, cap!DestroyStopped, cap!DetachFails
  <2>4. CASE cap!Release
    <3>1. cap_live' \subseteq cap_live
      BY <2>4 DEF cap!Release
    <3>2. QED
      BY <2>4, <3>1 DEF cap!Release
  <2>5. QED
    BY <1>1, <2>1, <2>2, <2>3, <2>4 DEF cap!Owner, cap!DestroyVideoCapture
<1>2. CASE cap!CaptureThread
  BY <1>2 DEF cap!CaptureThread, cap!Grab, cap!GrabFails, cap!PushReturns, cap!LeaveLoop
<1>3. CASE UNCHANGED capvars
  BY <1>3 DEF capvars
<1>4. QED
  BY <1>1, <1>2, <1>3 DEF cap!Next

(* The pipeline's state is well-typed and no queue holds more than its size *)
(* (BufferQueue.hpp:25, 42-48).                                             *)
THEOREM TypeCorrect == Spec => []TypeOK
<1>1. Init => cap!TypeOK /\ QueuesTyped /\ PushesBring
  BY InitQueues DEF Init, cap!Init, cap!InitOutcomes, cap!TypeOK, cap!Resources, cap!ThreadPC,
                    cap!OwnerPC
<1>2. cap!TypeOK /\ QueuesTyped /\ PushesBring /\ [Next]_vars
        => (cap!TypeOK /\ QueuesTyped /\ PushesBring)'
  BY NextCaptureTyped, NextQueues
<1>3. encp!IInv => enc!TypeOK
  BY DEF encp!IInv, encp!TypeOK, encp!ThreadPC, encp!OwnerPC, encp!Encoding, enc!TypeOK,
         enc!ThreadPC, enc!OwnerPC, enc!Encoding
<1>4. cap!TypeOK /\ QueuesTyped /\ enc!TypeOK => TypeOK
  BY DEF TypeOK, QueuesTyped
<1>5. QED
  BY <1>1, <1>2, <1>3, <1>4, EncoderInvariant, PTL DEF Spec

--------------------------------------------------------------------------------
(* The queue the encoder pops from is closed under its thread by the        *)
(* capture's StopVideoCapture() alone, and what the capture closes it opens *)
(* again when it starts.                                                    *)
CaptureClosesIt ==
  enc_thread \in enc!Encoding => rgb_open \/ ~cap_start \/ cap_owner = "start_thread"

(* Who changes what CaptureClosesIt speaks of. *)
LEMMA StepsOnOpenQueue ==
  ASSUME [Next]_vars
  PROVE  \/ CaptureCalls \/ CaptureStartsQueue \/ CaptureStopsQueue
         \/ EncoderStartsQueues \/ EncoderStopsQueues
         \/ /\ UNCHANGED <<rgb_open, cap_start>>
            /\ cap_owner = "start_thread" => cap_owner' = "start_thread"
            /\ enc_thread' \in enc!Encoding => enc_thread \in enc!Encoding
<1> USE DEF capvars, encvars, rgbvars
<1>1. CASE CaptureRuns \/ CaptureFails \/ CaptureDrops
  BY <1>1 DEF CaptureRuns, CaptureGrabs, CaptureStores, CaptureLeaves, CaptureFails, CaptureDrops,
              cap!Grab, cap!PushReturns, cap!LeaveLoop, cap!GrabFails,
              rgb!Invoke, rgb!Put, rgb!Refuse
<1>2. CASE CaptureCalls \/ CaptureGoesOn
  BY <1>2 DEF CaptureGoesOn, cap!Join, cap!Release
<1>3. CASE EncoderRuns \/ EncoderFails \/ EncoderTakesNone
  <2>1. enc_thread \in enc!Encoding
    BY <1>3 DEF EncoderRuns, EncoderIterates, EncoderClearsForce, EncoderTakes, EncoderTakesNone,
                EncoderEncodes, EncoderFails, EncoderReceives, EncoderStores, EncoderLeaves,
                enc!Encoding, enc!Iterate, enc!ClearForce, enc!PopReturns, enc!Encode,
                enc!EncodeFails, enc!Receive, enc!ReceiveNothing, enc!PushReturns, enc!LeaveLoop
  <2>2. UNCHANGED <<capvars, rgb_open>>
    BY <1>3 DEF EncoderRuns, EncoderIterates, EncoderClearsForce, EncoderTakes, EncoderTakesNone,
                EncoderEncodes, EncoderFails, EncoderReceives, EncoderStores, EncoderLeaves,
                rgb!Invoke, rgb!Get, rgb!Refuse
  <2>3. QED
    BY <2>1, <2>2
<1>4. CASE EncoderStarts \/ EncoderCalls \/ KeyFrameAsked
  BY <1>4 DEF EncoderStarts, EncoderCalls, EncoderStops, KeyFrameAsked, enc!OpenCodec,
              enc!StopVideoEncoder, enc!SetStopped, enc!DestroyStopped, enc!GenerateKeyFrame,
              enc!threadvars
<1>5. CASE EncoderGoesOn
  BY <1>5 DEF EncoderGoesOn, enc!OpenCodec, enc!OpenFails, enc!Join, enc!WriteParams,
              enc!FreeCodec, enc!threadvars, enc!Encoding
<1>6. CASE ClientCalls \/ ClientTakes \/ ClientTakesNone
  BY <1>6 DEF ClientCalls, ClientTakes, ClientTakesNone
<1>7. CASE UNCHANGED vars
  BY <1>7 DEF vars
<1>8. QED
  BY <1>1, <1>2, <1>3, <1>4, <1>5, <1>6, <1>7 DEF Next, Refusals

LEMMA NextCaptureClosesIt ==
  cap!TypeOK /\ encp!IInv /\ CaptureClosesIt /\ [Next]_vars => CaptureClosesIt'
<1> SUFFICES ASSUME cap!TypeOK, encp!IInv, CaptureClosesIt, [Next]_vars PROVE CaptureClosesIt'
  OBVIOUS
<1> USE DEF CaptureClosesIt
<1>1. CASE CaptureCalls
  BY <1>1 DEF CaptureCalls, OwnerFree, encvars, rgbvars, cap!StartVideoCapture,
              cap!StopVideoCapture, cap!DestroyVideoCapture, cap!DestroyStopped
<1>2. CASE CaptureStartsQueue
  BY <1>2 DEF CaptureStartsQueue, rgb!SetOpen
(* StopVideoCapture() has reset m_start_capture before it stops the queue. *)
<1>3. CASE CaptureStopsQueue
  BY <1>3 DEF CaptureStopsQueue, cap!StopQueue, cap!TypeOK
<1>4. CASE EncoderStartsQueues
  BY <1>4 DEF EncoderStartsQueues, rgb!SetOpen
(* StopVideoEncoder() has joined the thread before it stops the queue. *)
<1>5. CASE EncoderStopsQueues
  BY <1>5 DEF EncoderStopsQueues, enc!CloseCodec, enc!Encoding, enc!threadvars,
              encp!IInv, encp!Handover
<1>6. CASE /\ UNCHANGED <<rgb_open, cap_start>>
           /\ cap_owner = "start_thread" => cap_owner' = "start_thread"
           /\ enc_thread' \in enc!Encoding => enc_thread \in enc!Encoding
  BY <1>6
<1>7. QED
  BY <1>1, <1>2, <1>3, <1>4, <1>5, <1>6, StepsOnOpenQueue

(* A pop of the encoder thread comes back in these two steps only. *)
LEMMA PopsReturn ==
  ASSUME [Next]_vars, enc!PopReturns
  PROVE  rgb!Get(Encoder) \/ rgb!Refuse(Encoder)
<1>0. enc_thread = "popping" /\ enc_thread' = "send"
  BY DEF enc!PopReturns
<1>1. CASE EncoderRuns \/ EncoderFails \/ EncoderTakesNone
  BY <1>0, <1>1 DEF EncoderRuns, EncoderIterates, EncoderClearsForce, EncoderTakes,
       EncoderTakesNone, EncoderEncodes, EncoderFails, EncoderReceives, EncoderStores,
       EncoderLeaves, enc!Iterate, enc!ClearForce, enc!Encode, enc!EncodeFails, enc!Receive,
       enc!ReceiveNothing, enc!PushReturns, enc!LeaveLoop
<1>2. CASE EncoderStarts \/ EncoderCalls \/ EncoderGoesOn \/ KeyFrameAsked
  BY <1>0, <1>2 DEF EncoderStarts, EncoderCalls, EncoderStops, EncoderGoesOn, KeyFrameAsked,
       EncoderStartsQueues, EncoderStopsQueues, enc!OpenCodec, enc!StopVideoEncoder,
       enc!SetStopped, enc!DestroyStopped, enc!OpenFails, enc!StartThread, enc!Join,
       enc!CloseCodec, enc!WriteParams, enc!FreeCodec, enc!GenerateKeyFrame, enc!threadvars
<1>3. CASE UNCHANGED encvars
  BY <1>0, <1>3 DEF encvars
<1>4. QED
  BY <1>1, <1>2, <1>3, StepOfOthers DEF Next, Refusals, vars

LEMMA CaptureInvariant == Spec => []cap!TypeOK
<1>1. Init => cap!TypeOK
  BY DEF Init, cap!Init, cap!InitOutcomes, cap!TypeOK, cap!Resources, cap!ThreadPC, cap!OwnerPC
<1>2. QED
  BY <1>1, NextCaptureTyped, PTL DEF Spec

(* A plain iteration of the encoder has a new frame, or the capture is      *)
(* stopped or about to open the queue it closed                             *)
(* (VideoEncoderFFmpeg.cpp:151-162, VideoCapture.cpp:22-36).                *)
THEOREM PlainFramesAreNew == Spec => UnforcedFramesAreNew
<1>1. Init => CaptureClosesIt
  BY DEF Init, enc!Init, enc!Encoding, CaptureClosesIt
<1>2. CaptureClosesIt /\ [Next]_vars
        => [enc!PopReturns /\ enc_pict = "NONE"
              => rgb!Get(Encoder) \/ ~cap_start \/ cap_owner = "start_thread"]_vars
  <2> SUFFICES ASSUME CaptureClosesIt, [Next]_vars, enc!PopReturns
               PROVE  rgb!Get(Encoder) \/ ~cap_start \/ cap_owner = "start_thread"
    OBVIOUS
  <2>1. CASE rgb!Refuse(Encoder)
    BY <2>1 DEF rgb!Refuse, CaptureClosesIt, enc!PopReturns, enc!Encoding
  <2>2. QED
    BY <2>1, PopsReturn
<1>3. QED
  BY <1>1, <1>2, NextCaptureClosesIt, EncoderInvariant, CaptureInvariant, PTL
     DEF Spec, UnforcedFramesAreNew

--------------------------------------------------------------------------------
(* The pipeline is what its parts make together: each of them, and each     *)
(* queue, sees steps of its own and nothing else.                           *)

LEMMA StepOfRgb == QueuesTyped /\ [Next]_vars => [rgb!Next]_rgbvars
<1> SUFFICES ASSUME QueuesTyped, [Next]_vars PROVE rgb!Next \/ UNCHANGED rgbvars
  OBVIOUS
<1> USE DEF rgb!Next, rgb!Threads
<1>1. CASE CaptureRuns \/ CaptureFails \/ CaptureDrops
  BY <1>1 DEF CaptureRuns, CaptureGrabs, CaptureStores, CaptureLeaves, CaptureFails, CaptureDrops,
              QueuesTyped
<1>2. CASE CaptureCalls \/ CaptureGoesOn
  BY <1>2 DEF CaptureCalls, CaptureGoesOn, CaptureStartsQueue, CaptureStopsQueue
<1>3. CASE EncoderRuns \/ EncoderFails \/ EncoderTakesNone
  BY <1>3 DEF EncoderRuns, EncoderIterates, EncoderClearsForce, EncoderTakes, EncoderTakesNone,
              EncoderEncodes, EncoderFails, EncoderReceives, EncoderStores, EncoderLeaves
<1>4. CASE EncoderStarts \/ EncoderCalls \/ EncoderGoesOn \/ KeyFrameAsked
  BY <1>4 DEF EncoderStarts, EncoderCalls, EncoderStops, EncoderGoesOn, EncoderStartsQueues,
              EncoderStopsQueues, KeyFrameAsked
<1>5. CASE ClientCalls \/ ClientTakes \/ ClientTakesNone
  BY <1>5 DEF ClientCalls, ClientTakes, ClientTakesNone
<1>6. CASE UNCHANGED vars
  BY <1>6 DEF vars
<1>7. QED
  BY <1>1, <1>2, <1>3, <1>4, <1>5, <1>6 DEF Next, Refusals

LEMMA StepOfH264 == QueuesTyped /\ [Next]_vars => [h264!Next]_h264vars
<1> SUFFICES ASSUME QueuesTyped, [Next]_vars PROVE h264!Next \/ UNCHANGED h264vars
  OBVIOUS
<1> USE DEF h264!Next, h264!Threads
<1>1. CASE CaptureRuns \/ CaptureFails \/ CaptureDrops \/ CaptureCalls \/ CaptureGoesOn
  BY <1>1 DEF CaptureRuns, CaptureGrabs, CaptureStores, CaptureLeaves, CaptureFails, CaptureDrops,
              CaptureCalls, CaptureGoesOn, CaptureStartsQueue, CaptureStopsQueue
<1>2. CASE EncoderReceives
  BY <1>2, PipelineAssumption DEF EncoderReceives, Packet, QueuesTyped
<1>3. CASE EncoderIterates \/ EncoderClearsForce \/ EncoderTakes \/ EncoderTakesNone
             \/ EncoderEncodes \/ EncoderFails \/ EncoderStores \/ EncoderLeaves
  BY <1>3 DEF EncoderIterates, EncoderClearsForce, EncoderTakes, EncoderTakesNone,
              EncoderEncodes, EncoderFails, EncoderStores, EncoderLeaves
<1>4. CASE EncoderStarts \/ EncoderCalls \/ EncoderGoesOn \/ KeyFrameAsked
  BY <1>4 DEF EncoderStarts, EncoderCalls, EncoderStops, EncoderGoesOn, EncoderStartsQueues,
              EncoderStopsQueues, KeyFrameAsked
<1>5. CASE ClientCalls \/ ClientTakes \/ ClientTakesNone
  BY <1>5 DEF ClientCalls, ClientTakes, ClientTakesNone
<1>6. CASE UNCHANGED vars
  BY <1>6 DEF vars
<1>7. QED
  BY <1>1, <1>2, <1>3, <1>4, <1>5, <1>6 DEF Next, Refusals, EncoderRuns

(* Every behaviour of the pipeline is one of the capture, of the encoder    *)
(* and of both queues, so that what is proved of each of them by itself     *)
(* holds in it, and no part is asked for a step it cannot take              *)
(* (VideoCapture.cpp:22-39, X11DesktopCapture.cpp:78-116,                   *)
(* VideoEncoderFFmpeg.cpp:88-215, BufferQueue.hpp:27-57).                   *)
THEOREM PipelineOfItsParts == Spec => cap!Spec /\ enc!Spec /\ rgb!Spec /\ h264!Spec
<1>1. Init => cap!Init /\ enc!Init /\ rgb!Init /\ h264!Init /\ QueuesTyped /\ PushesBring
  BY InitQueues DEF Init
<1>2. [Next]_vars => [cap!Next]_(cap!vars) /\ [enc!Next]_(enc!vars)
  BY StepOfCapture, StepOfEncoder, SameNext DEF capvars, cap!vars, encvars, enc!vars
<1>3. QueuesTyped /\ [Next]_vars => [rgb!Next]_(rgb!vars) /\ [h264!Next]_(h264!vars)
  BY StepOfRgb, StepOfH264 DEF rgbvars, rgb!vars, h264vars, h264!vars
<1>4. QED
  BY <1>1, <1>2, <1>3, NextQueues, PTL DEF Spec, cap!Spec, enc!Spec, rgb!Spec, h264!Spec

--------------------------------------------------------------------------------
(* The capture's Handover (X11DesktopCaptureProofs) in the pipeline: its    *)
(* thread exists only between the owner's StartThread and Join, and nothing *)
(* is released before the Join.                                             *)
CaptureHandover ==
  /\ cap_thread \in {"loop", "pushing"} => cap_owner \in {"idle", "stop_queue", "join"}
  /\ cap_owner \in {"start_thread", "destroy"} => cap_thread = "none"
  /\ cap_owner = "start_thread" => cap_start /\ cap!Usable
  /\ cap_owner = "idle" /\ ~cap_start => cap_thread = "none"
  /\ cap!NoCaptureAfterFree

LEMMA NextCaptureHandover ==
  cap!TypeOK /\ CaptureHandover /\ [Next]_vars => CaptureHandover'
<1> SUFFICES ASSUME cap!TypeOK, CaptureHandover, [cap!Next]_capvars PROVE CaptureHandover'
  BY StepOfCapture
<1> USE DEF cap!TypeOK, CaptureHandover, cap!NoCaptureAfterFree, cap!Usable, cap!ThreadPC,
            cap!OwnerPC
<1>1. CASE cap!Usable /\ cap!StartVideoCapture
  BY <1>1 DEF cap!StartVideoCapture
<1>2. CASE cap!StartThread
  BY <1>2 DEF cap!StartThread
<1>3. ASSUME NEW next \in {"idle", "destroy"}, cap!StopVideoCapture(next) PROVE CaptureHandover'
  BY <1>3 DEF cap!StopVideoCapture
<1>4. CASE cap!StopQueue \/ cap!Join
  BY <1>4 DEF cap!StopQueue, cap!Join
<1>5. CASE cap!DestroyStopped \/ cap!DetachFails
  BY <1>5 DEF cap!DestroyStopped, cap!DetachFails
<1>6. CASE cap!Release
  <2>1. cap_thread = "none" /\ UNCHANGED <<cap_thread, cap_start>> /\ cap_owner' = "idle"
    BY <1>6 DEF cap!Release
  <2>2. QED
    BY <2>1
<1>7. CASE cap!CaptureThread
  BY <1>7 DEF cap!CaptureThread, cap!Grab, cap!GrabFails, cap!PushReturns, cap!LeaveLoop
<1>8. CASE UNCHANGED capvars
  BY <1>8 DEF capvars
<1>9. QED
  BY <1>1, <1>2, <1>3, <1>4, <1>5, <1>6, <1>7, <1>8
     DEF cap!Next, cap!Owner, cap!DestroyVideoCapture

LEMMA HandoverInvariant == Spec => []CaptureHandover
<1>1. Init => CaptureHandover
  BY DEF Init, cap!Init, CaptureHandover, cap!NoCaptureAfterFree
<1>2. QED
  BY <1>1, NextCaptureHandover, CaptureInvariant, PTL DEF Spec

(* What makes capture and encoder correct by themselves they keep in the    *)
(* pipeline, whatever the owner calls in between: neither thread runs on    *)
(* what is released or outlives its joining, and the codec has the last     *)
(* parameters (X11DesktopCapture.cpp:78-113, VideoCapture.cpp:22-39,        *)
(* VideoEncoderFFmpeg.cpp:88-215).                                          *)
THEOREM PartsStaySafe ==
  Spec => []/\ cap!NoCaptureAfterFree /\ cap!NoThreadOverwritten
            /\ enc!CodecExclusive /\ enc!ParamsInForce /\ enc!NoThreadOverwritten
<1>1. CaptureHandover => cap!NoCaptureAfterFree /\ cap!NoThreadOverwritten
  BY DEF CaptureHandover, cap!NoThreadOverwritten
<1>2. encp!IInv => enc!CodecExclusive /\ enc!ParamsInForce /\ enc!NoThreadOverwritten
  BY DEF encp!IInv, encp!Handover, encp!CodecExclusive, encp!Encoding, enc!CodecExclusive,
         enc!Encoding, enc!ParamsInForce, enc!NoThreadOverwritten
<1>3. QED
  BY <1>1, <1>2, HandoverInvariant, EncoderInvariant, PTL

--------------------------------------------------------------------------------
(* The encoder test: what each line of main() finds done by those before.   *)
Stopped == {"stop_capture", "destroy_encoder", "destroy_capture", "done"}

ProgramOrder ==
  /\ line \in {"start_capture", "start_encoder", "pop", "stop_encoder"} \cup Stopped
  /\ enc_owner \in {"idle", "start_thread", "join", "close", "free"} /\ enc_stop_for = "idle"
  /\ line = "start_capture" => cap_owner = "idle"
  /\ line \in Stopped => ~enc_start
  /\ cap_live \subseteq cap!Resources
  /\ line # "done" => cap!Usable /\ cap_owner # "destroy" /\ cap_stop_for = "idle"
  /\ line \in {"destroy_encoder", "destroy_capture", "done"}
       => ~cap_start /\ enc_owner \in {"idle", "free"}
  /\ line \in {"destroy_capture", "done"} => enc_owner = "free" \/ enc_codec = "freed"
  /\ cap_owner \in {"stop_queue", "join"} => line = "destroy_encoder"
  /\ line = "done" => \/ cap_owner = "destroy" /\ cap!Usable
                      \/ cap_owner = "idle" /\ cap_live = {}

(* The steps of main() that are no line of it are the pipeline's anyway;    *)
(* with ProgramOrder the lines are, too.                                    *)
LEMMA StepOfTest == ProgramOrder /\ [TestNext]_testvars => [Next]_vars
<1> SUFFICES ASSUME ProgramOrder, TestNext PROVE Next \/ UNCHANGED vars
  BY DEF testvars
<1> USE DEF Leave, MainFree, CallsCapture
<1>1. CASE Leave("start_capture") /\ CallsCapture(cap!StartVideoCapture)
  BY <1>1 DEF ProgramOrder, Next, CaptureCalls
<1>2. CASE \/ Leave("start_encoder") /\ EncoderStarts
           \/ MainPops
           \/ count = Pops /\ Leave("pop") /\ UNCHANGED vars
           \/ (CaptureGoesOn \/ EncoderGoesOn) /\ UNCHANGED <<line, count>>
  BY <1>2 DEF MainPops, Next
<1>3. CASE Leave("stop_encoder") /\ EncoderStops("idle")
  BY <1>3 DEF Next, EncoderCalls
<1>4. CASE \/ Leave("stop_capture") /\ CallsCapture(cap!StopVideoCapture("idle"))
           \/ Leave("destroy_capture") /\ CallsCapture(cap!DestroyVideoCapture)
  BY <1>4 DEF Next, CaptureCalls
<1>5. CASE /\ Leave("destroy_encoder") /\ enc!DestroyStopped
           /\ UNCHANGED <<capvars, rgbvars, h264vars, on_screen>>
  BY <1>5 DEF Next, EncoderCalls
<1>6. CASE CaptureThread \/ EncoderThread
  BY <1>6 DEF CaptureThread, EncoderThread, Next, Refusals
<1>7. QED
  BY <1>1, <1>2, <1>3, <1>4, <1>5, <1>6 DEF TestNext, MainRuns

(* The threads leave alone what the lines of main() are about. *)
LEMMA ThreadsOfTest ==
  ASSUME CaptureThread \/ EncoderThread
  PROVE  UNCHANGED <<line, cap_start, cap_live, cap_owner, cap_stop_for, enc_start, enc_codec,
                     enc_owner, enc_stop_for>>
<1> USE DEF capvars, encvars
<1>1. CASE CaptureThread
  BY <1>1 DEF CaptureThread, CaptureRuns, CaptureGrabs, CaptureStores, CaptureLeaves, CaptureDrops,
              cap!Grab, cap!PushReturns, cap!LeaveLoop
<1>2. CASE EncoderThread
  BY <1>2 DEF EncoderThread, EncoderRuns, EncoderIterates, EncoderClearsForce, EncoderTakes,
              EncoderTakesNone, EncoderEncodes, EncoderReceives, EncoderStores, EncoderLeaves,
              enc!Iterate, enc!ClearForce, enc!PopReturns, enc!Encode, enc!Receive,
              enc!ReceiveNothing, enc!PushReturns, enc!LeaveLoop, enc!ownervars
<1>3. QED
  BY <1>1, <1>2

LEMMA NextProgramOrder == ProgramOrder /\ [TestNext]_testvars => ProgramOrder'
<1> SUFFICES ASSUME ProgramOrder, [TestNext]_testvars PROVE ProgramOrder'
  OBVIOUS
<1> USE DEF ProgramOrder, Stopped, Leave, MainFree, OwnerFree, NextLine, CallsCapture, cap!Usable,
            capvars, encvars
(* The lines of main(). *)
<1>1. CASE Leave("start_capture") /\ CallsCapture(cap!StartVideoCapture)
  BY <1>1 DEF cap!StartVideoCapture
<1>2. CASE Leave("start_encoder") /\ EncoderStarts
  BY <1>2 DEF EncoderStarts, enc!OpenCodec
<1>3. CASE MainPops
  BY <1>3 DEF MainPops, ClientCalls, ClientTakes
<1>4. CASE count = Pops /\ Leave("pop") /\ UNCHANGED vars
  BY <1>4 DEF vars
<1>5. CASE Leave("stop_encoder") /\ EncoderStops("idle")
  BY <1>5 DEF EncoderStops, enc!StopVideoEncoder
<1>6. CASE Leave("stop_capture") /\ CallsCapture(cap!StopVideoCapture("idle"))
  BY <1>6 DEF cap!StopVideoCapture
<1>7. CASE /\ Leave("destroy_encoder") /\ enc!DestroyStopped
           /\ UNCHANGED <<capvars, rgbvars, h264vars, on_screen>>
  BY <1>7 DEF enc!DestroyStopped
<1>8. CASE Leave("destroy_capture") /\ CallsCapture(cap!DestroyVideoCapture)
  BY <1>8 DEF cap!DestroyVideoCapture, cap!StopVideoCapture, cap!DestroyStopped
(* What the call a line has begun goes on with. *)
<1>9. CASE CaptureGoesOn /\ UNCHANGED <<line, count>>
  <2>1. UNCHANGED <<line, cap_start, enc_start, enc_codec, enc_owner, enc_stop_for, cap_stop_for>>
    BY <1>9 DEF CaptureGoesOn, CaptureStartsQueue, CaptureStopsQueue, cap!StartThread,
                cap!StopQueue, cap!Join, cap!Release
  <2>2. CASE CaptureStartsQueue
    <3>1. cap_owner = "start_thread" /\ cap_owner' = "idle" /\ cap_live' = cap_live
      BY <2>2 DEF CaptureStartsQueue, cap!StartThread
    <3>2. QED
      BY <2>1, <3>1
  <2>3. CASE CaptureStopsQueue
    <3>1. cap_owner = "stop_queue" /\ cap_owner' = "join" /\ cap_live' = cap_live
      BY <2>3 DEF CaptureStopsQueue, cap!StopQueue
    <3>2. QED
      BY <2>1, <3>1
  <2>4. CASE cap!Join
    <3>1. cap_owner = "join" /\ cap_owner' = cap_stop_for /\ cap_live' = cap_live
      BY <2>4 DEF cap!Join
    <3>2. QED
      BY <2>1, <3>1
  <2>5. CASE cap!Release
    <3>1. cap_owner = "destroy" /\ cap_owner' = "idle" /\ line = "done"
          /\ cap!Resources \subseteq cap_live
      BY <2>5 DEF cap!Release
    <3>2. cap_live' = cap_live \ cap!Resources
      BY <2>5, <3>1 DEF cap!Release, cap!Resources
    <3>3. cap_live' = {}
      BY <3>2
    <3>4. QED
      BY <2>1, <3>1, <3>3
  <2>6. QED
    BY <1>9, <2>2, <2>3, <2>4, <2>5 DEF CaptureGoesOn
<1>10. CASE EncoderGoesOn /\ UNCHANGED <<line, count>>
  <2>1. UNCHANGED <<line, cap_start, cap_owner, cap_live, cap_stop_for, enc_start, enc_stop_for>>
    BY <1>10 DEF EncoderGoesOn, EncoderStartsQueues, EncoderStopsQueues, enc!StartThread, enc!Join,
                 enc!CloseCodec, enc!FreeCodec, enc!OpenCodec, enc!OpenFails, enc!WriteParams
  <2>2. \/ enc_owner = "start_thread" /\ enc_owner' = "idle"
        \/ enc_owner = "join" /\ enc_owner' = "close"
        \/ enc_owner = "close" /\ enc_owner' = "idle"
        \/ enc_owner = "free" /\ enc_owner' = "idle" /\ enc_codec' = "freed"
    BY <1>10 DEF EncoderGoesOn, EncoderStartsQueues, EncoderStopsQueues, enc!StartThread, enc!Join,
                 enc!CloseCodec, enc!FreeCodec, enc!OpenFails, enc!WriteParams
  <2>3. QED
    BY <2>1, <2>2
<1>11. CASE CaptureThread \/ EncoderThread
  BY <1>11, ThreadsOfTest
<1>12. CASE UNCHANGED testvars
  BY <1>12 DEF testvars, vars
<1>13. QED
  BY <1>1, <1>2, <1>3, <1>4, <1>5, <1>6, <1>7, <1>8, <1>9, <1>10, <1>11, <1>12
     DEF TestNext, MainRuns

LEMMA InitProgramOrder == TestInit => ProgramOrder
BY DEF TestInit, Init, enc!Init, cap!Init, cap!InitOutcomes, cap!Usable, cap!Resources, Stopped,
       ProgramOrder

LEMMA TestInvariant == TestSpec => []ProgramOrder /\ [][Next]_vars
<1>1. TestSpec => TestInit /\ [][TestNext]_testvars
  BY PTL DEF TestSpec
<1>2. QED
  BY <1>1, InitProgramOrder, StepOfTest, NextProgramOrder, PTL

(* The encoder test is a pipeline: its main() is one of the owners and one  *)
(* of the clients the pipeline allows, so that everything proved of the     *)
(* pipeline holds of the program (FFmepgVideoEncoderTest.cpp:20-58).        *)
THEOREM EncoderTestIsPipeline == TestSpec => Spec
<1>1. TestInit => Init
  BY DEF TestInit
<1>2. QED
  BY <1>1, TestInvariant, PTL DEF Spec, TestSpec

(* main() leaves nothing behind (FFmepgVideoEncoderTest.cpp:52-57,          *)
(* X11DesktopCapture.cpp:89-116, VideoEncoderFFmpeg.cpp:195-226).           *)
THEOREM TestEndsClean == TestSpec => []EndsClean
<1>1. ProgramOrder /\ CaptureHandover /\ encp!IInv => EndsClean
  BY DEF ProgramOrder, Stopped, CaptureHandover, encp!IInv, encp!Handover, EndsClean, Done, OwnerFree
<1>2. QED
  BY <1>1, EncoderTestIsPipeline, TestInvariant, HandoverInvariant, EncoderInvariant, PTL

(* In the test the queue the encoder pops from stays open under its thread: *)
(* main() stops the capture, which closes it too, only after the encoder.   *)
OpenForEncoder == enc_thread \in enc!Encoding => rgb_open

LEMMA NextOpenForEncoder ==
  ProgramOrder /\ encp!IInv /\ OpenForEncoder /\ [TestNext]_testvars => OpenForEncoder'
<1> SUFFICES ASSUME ProgramOrder, encp!IInv, OpenForEncoder, [Next]_vars, [TestNext]_testvars
             PROVE  OpenForEncoder'
  BY StepOfTest
<1> USE DEF OpenForEncoder
<1>1. CASE CaptureCalls
  BY <1>1 DEF CaptureCalls, encvars, rgbvars
<1>2. CASE CaptureStartsQueue \/ EncoderStartsQueues
  BY <1>2 DEF CaptureStartsQueue, EncoderStartsQueues, rgb!SetOpen
(* The encoder is stopped, its thread joined. *)
<1>3. CASE CaptureStopsQueue
  <2>1. cap_owner = "stop_queue" /\ UNCHANGED encvars
    BY <1>3 DEF CaptureStopsQueue, cap!StopQueue
  <2>2. enc_owner \in {"idle", "free"} /\ ~enc_start
    BY <2>1 DEF ProgramOrder, Stopped
  <2>3. enc_thread = "none"
    BY <2>2 DEF encp!IInv, encp!Handover
  <2>4. QED
    BY <2>1, <2>3 DEF encvars, enc!Encoding
<1>4. CASE EncoderStopsQueues
  BY <1>4 DEF EncoderStopsQueues, enc!CloseCodec, enc!Encoding, enc!threadvars,
              encp!IInv, encp!Handover
<1>5. CASE UNCHANGED rgb_open /\ (enc_thread' \in enc!Encoding => enc_thread \in enc!Encoding)
  BY <1>5
<1>6. QED
  BY <1>1, <1>2, <1>3, <1>4, <1>5, StepsOnOpenQueue

(* Every frame main() gets a packet of is a new one: no pop of the encoder  *)
(* thread comes back empty-handed in this program, so that nothing is       *)
(* encoded twice and no unset pixels are (VideoEncoderFFmpeg.cpp:155-162;   *)
(* FFmepgVideoEncoderTest.cpp:38-53).                                       *)
THEOREM TestFramesAreNew == TestSpec => [][enc!PopReturns => rgb!Get(Encoder)]_vars
<1>1. TestSpec => TestInit /\ [][TestNext]_testvars
  BY PTL DEF TestSpec
<1>2. TestInit => OpenForEncoder
  BY DEF TestInit, Init, enc!Init, enc!Encoding, OpenForEncoder
<1>3. OpenForEncoder /\ [Next]_vars => [enc!PopReturns => rgb!Get(Encoder)]_vars
  <2> SUFFICES ASSUME OpenForEncoder, [Next]_vars, enc!PopReturns PROVE rgb!Get(Encoder)
    OBVIOUS
  <2>1. ~rgb!Refuse(Encoder)
    BY DEF rgb!Refuse, OpenForEncoder, enc!PopReturns, enc!Encoding
  <2>2. QED
    BY <2>1, PopsReturn
<1>4. QED
  BY <1>1, <1>2, <1>3, NextOpenForEncoder, TestInvariant, EncoderTestIsPipeline, EncoderInvariant, PTL
================================================================================

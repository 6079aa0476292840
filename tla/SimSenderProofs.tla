---------------------------- MODULE SimSenderProofs ----------------------------
(***************************************************************************)
(* Proofs about SimSender for any limit of frames, any number of messages   *)
(* and of interruptions and any capacity of the h264 queue.                 *)
(***************************************************************************)
EXTENDS SimSender, TLAPS

(* What a step of the library does: one message more, at the end.           *)
LEMMA LibraryPosts ==
  ASSUME TypeOK, Library
  PROVE  \E msg \in Messages :
           /\ main_queue' = Append(main_queue, msg)
           /\ UNCHANGED senvars
           /\ net' \in {"up", "interrupted", "over"}
           /\ msg \in {"connect", "refused"} => net = "down"
           /\ net = "down" => msg \in {"connect", "refused"}
           /\ msg = "bitrate" => net' = net
           /\ msg # "bitrate" => (net' = "up" <=> msg \in {"connect", "resume"})
<1>1. CASE Connects
  BY <1>1 DEF Connects, Notify, Post, Messages
<1>2. CASE Ends
  BY <1>2 DEF Ends, Notify, Post, Messages
<1>3. CASE Interrupts
  BY <1>3 DEF Interrupts, Notify, Post, Messages
<1>4. CASE Recovers
  BY <1>4 DEF Recovers, Notify, Post, Messages
<1>5. CASE ChangesBitrate
  BY <1>5 DEF ChangesBitrate, Notify, Post, Messages, TypeOK
<1>6. QED
  BY <1>1, <1>2, <1>3, <1>4, <1>5 DEF Library

LEMMA InitTypeOK == Init => TypeOK
<1>1. <<>> \in Seq(Messages)
  OBVIOUS
<1>2. 0 \in 0..MaxResumes /\ 0 \in Nat
  BY SenderAssumption
<1>3. QED
  BY <1>1, <1>2, Zenon DEF Init, TypeOK

LEMMA NextTypeOK == TypeOK /\ [Next]_vars => TypeOK'
<1> SUFFICES ASSUME TypeOK, [Next]_vars PROVE TypeOK'
  OBVIOUS
<1> USE SenderAssumption DEF TypeOK, netvars, statevars, senvars
<1>1. CASE Library
  <2>1. interruptions' \in 0..MaxResumes
    BY <1>1 DEF Library, Connects, Ends, Interrupts, Recovers, ChangesBitrate
  <2>2. PICK msg \in Messages :
           /\ main_queue' = Append(main_queue, msg)
           /\ UNCHANGED senvars
           /\ net' \in {"up", "interrupted", "over"}
    BY <1>1, LibraryPosts
  <2>3. QED
    BY <2>1, <2>2
<1>2. CASE EncoderRuns
  BY <1>2 DEF EncoderRuns
<1>3. CASE HandlesMessage
  <2>1. /\ Handle(Head(main_queue)) /\ main' = "send" /\ UNCHANGED netvars
        /\ main_queue' \in Seq(Messages)
    BY <1>3 DEF HandlesMessage, TakeMessage
  <2>2. record_flag' \in BOOLEAN /\ run' \in BOOLEAN
    BY <2>1 DEF Handle
  <2>3. frame_rate' \in Rates \cup {0} /\ resumed' \in Nat
    BY <2>1 DEF Handle, Rates
  <2>4. QED
    BY <2>1, <2>2, <2>3 DEF Handle
<1>4. CASE FindsNoMessage \/ SendsNothing \/ LeavesLoop \/ Joins
  BY <1>4 DEF FindsNoMessage, SendsNothing, LeavesLoop, Joins
<1>5. CASE FetchesPacket
  BY <1>5 DEF FetchesPacket, Faster, Rates
<1>6. CASE SendsPacket
  BY <1>6 DEF SendsPacket, RecordsOn
<1>7. CASE EndsIteration
  BY <1>7 DEF EndsIteration
<1>8. CASE UNCHANGED vars
  BY <1>8 DEF vars
<1>9. QED
  BY <1>1, <1>2, <1>3, <1>4, <1>5, <1>6, <1>7, <1>8 DEF Next, MainRuns

(* The state is well-typed; the frame rate stays at 0, 16, 32, 64 or 128.   *)
THEOREM TypeCorrect == Spec => []TypeOK
BY InitTypeOK, NextTypeOK, PTL DEF Spec

--------------------------------------------------------------------------------
(* The answer to sim_connect() is the first message there is, and until it  *)
(* has been handled nothing is sent.                                        *)
ConnectFirst ==
  /\ net = "down" => main_queue = <<>> /\ frame_rate = 0
  /\ frame_rate = 0 /\ run /\ net # "down" =>
       main_queue # <<>> /\ main_queue[1] \in {"connect", "refused"}
  /\ \A i \in 1..Len(main_queue) :
       main_queue[i] \in {"connect", "refused"} => i = 1 /\ frame_rate = 0
  /\ frame_rate = 0 => ~record_flag

LEMMA InitConnectFirst == Init => ConnectFirst
BY DEF Init, ConnectFirst

LEMMA NextConnectFirst == ConnectFirst /\ TypeOK /\ [Next]_vars => ConnectFirst'
<1> SUFFICES ASSUME ConnectFirst, TypeOK, [Next]_vars PROVE ConnectFirst'
  OBVIOUS
<1> USE DEF ConnectFirst, TypeOK, netvars, statevars, senvars
<1>1. CASE Library
  <2>1. PICK msg \in Messages :
           /\ main_queue' = Append(main_queue, msg)
           /\ UNCHANGED senvars
           /\ net' \in {"up", "interrupted", "over"}
           /\ msg \in {"connect", "refused"} => net = "down"
           /\ net = "down" => msg \in {"connect", "refused"}
    BY <1>1, LibraryPosts
  <2>2. /\ Len(main_queue') = Len(main_queue) + 1
        /\ main_queue'[Len(main_queue) + 1] = msg
        /\ \A i \in 1..Len(main_queue) : main_queue'[i] = main_queue[i]
    BY <2>1
  <2>3. QED
    BY <2>1, <2>2
<1>2. CASE EncoderRuns
  BY <1>2 DEF EncoderRuns
<1>3. CASE HandlesMessage
  <2>1. /\ main_queue # <<>> /\ run /\ Head(main_queue) = main_queue[1]
        /\ main_queue' = Tail(main_queue) /\ net' = net
        /\ Len(main_queue') = Len(main_queue) - 1
        /\ \A i \in 1..Len(main_queue') : main_queue'[i] = main_queue[i + 1]
    BY <1>3 DEF HandlesMessage, TakeMessage
  <2>2. \A i \in 1..Len(main_queue') : main_queue'[i] \notin {"connect", "refused"}
    BY <2>1
  <2>3. Handle(main_queue[1])
    BY <1>3, <2>1 DEF HandlesMessage
  <2>4. CASE frame_rate = 0
    BY <2>1, <2>2, <2>3, <2>4 DEF Handle
  <2>5. CASE frame_rate # 0
    BY <2>1, <2>2, <2>3, <2>5 DEF Handle
  <2>6. QED
    BY <2>4, <2>5
<1>4. CASE FindsNoMessage \/ SendsNothing \/ LeavesLoop \/ Joins
  BY <1>4 DEF FindsNoMessage, SendsNothing, LeavesLoop, Joins
<1>5. CASE FetchesPacket
  BY <1>5 DEF FetchesPacket, Faster, Rates
<1>6. CASE SendsPacket
  BY <1>6 DEF SendsPacket, RecordsOn
<1>7. CASE EndsIteration
  BY <1>7 DEF EndsIteration
<1>8. CASE UNCHANGED vars
  BY <1>8 DEF vars
<1>9. QED
  BY <1>1, <1>2, <1>3, <1>4, <1>5, <1>6, <1>7, <1>8 DEF Next, MainRuns

(* Line 149 never divides by zero.                                          *)
THEOREM RateIsKnown == Spec => []RateKnownWhenSending
<1>1. ConnectFirst => RateKnownWhenSending
  BY DEF ConnectFirst, RateKnownWhenSending
<1>2. QED
  BY <1>1, InitConnectFirst, NextConnectFirst, TypeCorrect, PTL DEF Spec

--------------------------------------------------------------------------------
(* A frame that may still be sent counts as sent. *)
LateBudget ==
  /\ ~disconnecting => late = 0 /\ resumed = 0
  /\ disconnecting => index >= Limit /\ late + (IF record_flag THEN 1 ELSE 0) <= 1 + resumed
  /\ main = "popping" => record_flag
  /\ frame_rate = 0 => late = 0

LEMMA InitLateBudget == Init => LateBudget
BY DEF Init, LateBudget

LEMMA NextLateBudget == LateBudget /\ ConnectFirst /\ TypeOK /\ [Next]_vars => LateBudget'
<1> SUFFICES ASSUME LateBudget, ConnectFirst, TypeOK, [Next]_vars PROVE LateBudget'
  OBVIOUS
<1> USE SenderAssumption DEF LateBudget, TypeOK, statevars, senvars
<1>1. CASE Library
  BY <1>1, LibraryPosts
<1>2. CASE EncoderRuns
  BY <1>2 DEF EncoderRuns
<1>3. CASE HandlesMessage
  <2>1. /\ main_queue # <<>> /\ Head(main_queue) = main_queue[1]
        /\ Handle(main_queue[1]) /\ main' = "send"
    BY <1>3 DEF HandlesMessage, TakeMessage
  <2>2. main_queue[1] = "connect" => frame_rate = 0
    BY <2>1 DEF ConnectFirst
  <2>3. QED
    BY <2>1, <2>2 DEF Handle
<1>4. CASE FindsNoMessage \/ SendsNothing \/ LeavesLoop \/ Joins
  BY <1>4 DEF FindsNoMessage, SendsNothing, LeavesLoop, Joins
<1>5. CASE FetchesPacket
  BY <1>5 DEF FetchesPacket, Faster, Rates, ConnectFirst
<1>6. CASE SendsPacket
  <2>1. /\ main = "popping" /\ index' = index + 1
        /\ late' = IF disconnecting THEN late + 1 ELSE late
        /\ main' = "bottom" /\ UNCHANGED <<frame_rate, disconnecting, resumed>>
    BY <1>6 DEF SendsPacket
  <2>2. record_flag' \in BOOLEAN /\ (record_flag' => index + 1 <= Limit)
    BY <1>6 DEF SendsPacket, RecordsOn
  <2>3. frame_rate # 0
    BY <2>1 DEF ConnectFirst
  <2>4. QED
    BY <2>1, <2>2, <2>3
<1>7. CASE EndsIteration
  BY <1>7 DEF EndsIteration
<1>8. CASE UNCHANGED vars
  BY <1>8 DEF vars
<1>9. QED
  BY <1>1, <1>2, <1>3, <1>4, <1>5, <1>6, <1>7, <1>8 DEF Next, MainRuns

(* After sim_disconnect() one frame more is sent and one for each resume    *)
(* handled since (lines 207-208, 267-269, 297-300).                         *)
THEOREM FewFramesAreLate == Spec => []LateFrames
<1>1. LateBudget /\ TypeOK => LateFrames
  BY DEF LateBudget, LateFrames, TypeOK
<1>2. QED
  BY <1>1, InitLateBudget, NextLateBudget, InitConnectFirst, NextConnectFirst, TypeCorrect, PTL
     DEF Spec

--------------------------------------------------------------------------------
LEMMA InitNetworkState == Init => NetworkStateKept
BY DEF Init, NetworkStateKept, IsLastNews

LEMMA NextNetworkState == NetworkStateKept /\ TypeOK /\ [Next]_vars => NetworkStateKept'
<1> SUFFICES ASSUME NetworkStateKept, TypeOK, [Next]_vars PROVE NetworkStateKept'
  OBVIOUS
<1> USE SenderAssumption DEF NetworkStateKept, IsLastNews, TypeOK, netvars, statevars, senvars
<1>1. CASE Library
  <2>1. PICK msg \in Messages :
           /\ main_queue' = Append(main_queue, msg)
           /\ UNCHANGED senvars
           /\ msg = "bitrate" => net' = net
           /\ msg # "bitrate" => (net' = "up" <=> msg \in {"connect", "resume"})
    BY <1>1, LibraryPosts
  <2>2. /\ Len(main_queue') = Len(main_queue) + 1
        /\ main_queue'[Len(main_queue) + 1] = msg
        /\ \A i \in 1..Len(main_queue) : main_queue'[i] = main_queue[i]
    BY <2>1
  <2>3. QED
    BY <2>1, <2>2
<1>2. CASE EncoderRuns
  BY <1>2 DEF EncoderRuns
<1>3. CASE HandlesMessage
  <2>1. /\ main_queue # <<>> /\ Head(main_queue) = main_queue[1] /\ net' = net /\ index' = index
        /\ Len(main_queue') = Len(main_queue) - 1
        /\ \A i \in 1..Len(main_queue') : main_queue'[i] = main_queue[i + 1]
    BY <1>3 DEF HandlesMessage, TakeMessage, Handle
  <2>2. record_flag' = CASE main_queue[1] \in {"connect", "resume"} -> TRUE
                         [] main_queue[1] = "bitrate" -> record_flag
                         [] OTHER -> FALSE
    BY <1>3, <2>1 DEF HandlesMessage, Handle
  <2>3. \A j \in 2..Len(main_queue) :
          j - 1 \in 1..Len(main_queue') /\ main_queue'[j - 1] = main_queue[j]
    BY <2>1
  <2>4. ASSUME NEW i \in 1..Len(main_queue'), IsLastNews(i)'
        PROVE  net' = "up" <=> main_queue'[i] \in {"connect", "resume"}
    <3>1. ASSUME NEW j \in i + 2..Len(main_queue) PROVE main_queue[j] = "bitrate"
      <4>1. j \in 2..Len(main_queue) /\ j - 1 \in i + 1..Len(main_queue')
        BY <2>1
      <4>2. QED
        BY <4>1, <2>3, <2>4
    <3>2. i + 1 \in 1..Len(main_queue) /\ (i + 1) + 1 = i + 2 /\ main_queue'[i] = main_queue[i + 1]
      BY <2>1
    <3>3. QED
      BY <2>1, <2>4, <3>1, <3>2
  <2>5. ASSUME \A i \in 1..Len(main_queue') : main_queue'[i] = "bitrate", index <= Limit
        PROVE  net = "up" <=> record_flag'
    <3>1. \A j \in 1 + 1..Len(main_queue) : main_queue[j] = "bitrate"
      BY <2>3, <2>5
    <3>2. 1 \in 1..Len(main_queue)
      BY <2>1
    <3>3. CASE main_queue[1] = "bitrate"
      <4>1. \A j \in 1..Len(main_queue) : main_queue[j] = "bitrate"
        BY <3>1, <3>3
      <4>2. QED
        BY <2>2, <2>5, <3>3, <4>1
    <3>4. CASE main_queue[1] # "bitrate"
      BY <2>2, <3>1, <3>2, <3>4
    <3>5. QED
      BY <3>3, <3>4
  <2>6. QED
    BY <2>1, <2>4, <2>5
<1>4. CASE FindsNoMessage \/ SendsNothing \/ LeavesLoop \/ Joins
  BY <1>4 DEF FindsNoMessage, SendsNothing, LeavesLoop, Joins
<1>5. CASE FetchesPacket
  BY <1>5 DEF FetchesPacket
<1>6. CASE SendsPacket
  BY <1>6 DEF SendsPacket, RecordsOn
<1>7. CASE EndsIteration
  BY <1>7 DEF EndsIteration
<1>8. CASE UNCHANGED vars
  BY <1>8 DEF vars
<1>9. QED
  BY <1>1, <1>2, <1>3, <1>4, <1>5, <1>6, <1>7, <1>8 DEF Next, MainRuns

(* What the library has said of the network is what the sender knows, or    *)
(* will know when it has read its messages (lines 95-97, 226-269).          *)
THEOREM NetworkIsKnown == Spec => []NetworkStateKept
BY InitNetworkState, NextNetworkState, TypeCorrect, PTL DEF Spec

--------------------------------------------------------------------------------
(* All but three steps leave the queue alone.                               *)
UsesQueue == EncoderRuns \/ FetchesPacket \/ SendsPacket

LEMMA OtherStepsLeaveQueue ==
  ASSUME [Next]_vars, ~UsesQueue
  PROVE  UNCHANGED h264vars
<1>1. CASE Library \/ UNCHANGED vars
  BY <1>1 DEF Library, Connects, Ends, Interrupts, Recovers, ChangesBitrate, Notify, senvars, vars
<1>2. CASE HandlesMessage \/ FindsNoMessage \/ SendsNothing \/ EndsIteration
  BY <1>2 DEF HandlesMessage, TakeMessage, FindsNoMessage, SendsNothing, EndsIteration
<1>3. CASE LeavesLoop \/ Joins
  BY <1>3 DEF LeavesLoop, Joins
<1>4. QED
  BY <1>1, <1>2, <1>3 DEF Next, MainRuns, UsesQueue

LEMMA UseOfQueue == UsesQueue => h264!Next
BY DEF UsesQueue, EncoderRuns, FetchesPacket, SendsPacket, h264!Next

(* The main thread and the encoder thread use the h264 queue as it wants to *)
(* be used, one call at a time: its promises hold of what is sent, also     *)
(* while the encoder thread is joined (sim_sender_test.cpp:185, 352;        *)
(* VideoEncoderFFmpeg.cpp:184).                                             *)
THEOREM SenderUsesQueue == Spec => h264!Spec
<1>1. Init => h264!Init
  BY DEF Init
<1>2. [Next]_vars => [h264!Next]_(h264!vars)
  BY UseOfQueue, OtherStepsLeaveQueue DEF h264vars, h264!vars
<1>3. QED
  BY <1>1, <1>2, PTL DEF Spec, h264!Spec
================================================================================

---------------------------- MODULE LiveServerProofs ----------------------------
(***************************************************************************)
(* That the answers to DESCRIBE are right and the streams whole in every    *)
(* server, whatever the number of streams, the size of a group of pictures, *)
(* of a read and of the queue.                                              *)
(***************************************************************************)
EXTENDS LiveServer, TLAPS

(* What the handler and its task know of each other: the sink is looked at  *)
(* only until the line is found, the task is pending only while m_done is   *)
(* not set, and a pointer left behind was left with m_done set.             *)
HandlerAndTask ==
  /\ m_dummy_rtp_sink # NoStream => ~m_sdp_line
  /\ nextTask => ~m_done
  /\ m_dummy_rtp_sink # NoStream /\ describing = NoStream => m_done
  /\ m_dummy_rtp_sink = NoStream /\ describing # NoStream => m_sdp_line

IInv == sub!TypeOK /\ HandlerAndTask /\ CheckedSinkIsOpen /\ BareOnlyMeanwhile

LEMMA InitIInv == Init => IInv
  BY DEF Init, IInv, HandlerAndTask, CheckedSinkIsOpen, BareOnlyMeanwhile, sub!Init,
         sub!TypeOK, sub!Descriptions, sub!CheckedSinkIsOpen, sub!BareOnlyMeanwhile, sub!GivenUp

(* The subsession is all that matters: most steps leave it alone. *)
LEMMA SubsessionAlone == ASSUME IInv, UNCHANGED subvars PROVE IInv'
  BY DEF subvars, IInv, HandlerAndTask, CheckedSinkIsOpen, BareOnlyMeanwhile,
         sub!TypeOK, sub!Descriptions, sub!CheckedSinkIsOpen, sub!BareOnlyMeanwhile, sub!GivenUp

LEMMA NextIInv == IInv /\ [Next]_vars => IInv'
<1> SUFFICES ASSUME IInv, [Next]_vars PROVE IInv'
  OBVIOUS
<1> USE ServerAssumption
    DEF IInv, HandlerAndTask, CheckedSinkIsOpen, BareOnlyMeanwhile, sub!TypeOK,
        sub!Descriptions, sub!CheckedSinkIsOpen, sub!BareOnlyMeanwhile, sub!GivenUp
<1>1. CASE EncoderReceives \/ EncoderStores
  BY <1>1, SubsessionAlone DEF EncoderReceives, EncoderStores
<1>2. ASSUME NEW s \in Streams, StreamRuns(s) \/ TaskHandsOnPacket(s) PROVE IInv'
  BY <1>2, SubsessionAlone
     DEF StreamRuns, FramerReads, TaskRuns, TaskPops, TaskHandsOnRest, TaskHandsOnPacket
<1>3. ASSUME NEW s \in Streams, DescribeBegins(s) PROVE IInv'
  BY <1>3 DEF DescribeBegins, sub!DescribeBegins
<1>4. ASSUME NEW s \in Streams, Setup(s) \/ Request(s) PROVE IInv'
  BY <1>4, SubsessionAlone DEF Setup, Request
<1>5. CASE DescribeAtOnce
  BY <1>5 DEF DescribeAtOnce, sub!DescribeAtOnce
<1>6. CASE CheckForAuxSDPLine
  BY <1>6 DEF CheckForAuxSDPLine, sub!CheckForAuxSDPLine
<1>7. CASE DescribeReturns
  BY <1>7 DEF DescribeReturns, sub!DescribeReturns, sub!Returning
<1>8. CASE TaskOfDeletedSource \/ UNCHANGED vars
  BY <1>8, SubsessionAlone DEF TaskOfDeletedSource, vars
<1> QED
  BY <1>1, <1>2, <1>3, <1>4, <1>5, <1>6, <1>7, <1>8 DEF Next

(* The task asks the sink of the handler on the stack, never a closed one   *)
(* (H264VideoLiveServerMediaSubsession.cpp:48, 55-58).                      *)
THEOREM ChecksLivingSink == Spec => []CheckedSinkIsOpen
<1>1. IInv => CheckedSinkIsOpen
  BY DEF IInv
<1> QED
  BY InitIInv, NextIInv, <1>1, PTL DEF Spec

(* A description without parameter sets does not outlive the handler that   *)
(* looks for them, unless m_done was set by accident                        *)
(* (H264VideoLiveServerMediaSubsession.cpp:54-68, 71-90).                   *)
THEOREM DescriptionIsCompleted == Spec => []BareOnlyMeanwhile
<1>1. IInv => BareOnlyMeanwhile
  BY DEF IInv
<1> QED
  BY InitIInv, NextIInv, <1>1, PTL DEF Spec
--------------------------------------------------------------------------------
Lengths == src!Lengths

LEMMA LengthFacts ==
  /\ Lengths \subseteq Nat
  /\ 0 \in Lengths
  /\ \A p \in Packets : PacketSize[p] \in Lengths
  /\ \A n \in Lengths, m \in Nat : m <= n => m \in Lengths
<1>1. \A p \in Packets : PacketSize[p] \in Nat
  BY DEF PacketSize
<1>2. 0 \in Packets
  BY ServerAssumption DEF Packets
<1>3. \A n : n \in Lengths <=> \E p \in Packets : n \in 0..PacketSize[p]
  BY DEF Lengths, src!Lengths
<1> QED
  BY <1>1, <1>2, <1>3

(* What the queue and the vectors hold, and that only a live source pops,   *)
(* and only when nothing is left of its packet.                             *)
QueueInv ==
  /\ gop \in Packets
  /\ h264_fifo \in Seq(Packets)
  /\ h264_box \in [{Encoder} \cup Streams -> Packets \cup {NoBuffer}]
  /\ h264_in \subseteq {Encoder, popping} \ {NoStream}
  /\ Encoder \in h264_in => h264_box[Encoder] \in Packets

PopInv ==
  /\ popping \in Streams \cup {NoStream}
  /\ popping # NoStream => src!Alive(popping) /\ m_left[popping] = 0
  /\ sub!Returning => popping = NoStream

PieceInv ==
  \A s \in Streams :
    /\ m_left[s] > 0 => h264_box[s] \in Packets
    /\ source[s] = "none" => m_left[s] = 0 /\ missing[s] = 0
    /\ spoiled[s] \/ missing[s] = m_left[s]

WInv == src!TypeOK /\ sub!TypeOK /\ QueueInv /\ PopInv /\ PieceInv

LEMMA InitWInv == Init => WInv
<1> SUFFICES ASSUME Init PROVE WInv
  OBVIOUS
<1> USE DEF Init, src!Init, sub!Init
<1>1. src!TypeOK
  BY ServerAssumption, LengthFacts DEF src!TypeOK, src!Lives, Lengths
<1>2. sub!TypeOK
  BY DEF sub!TypeOK, sub!Descriptions
<1>3. QueueInv
  BY ServerAssumption DEF QueueInv, Packets
<1>4. PopInv
  BY DEF PopInv, sub!Returning
<1>5. PieceInv
  <2> SUFFICES ASSUME NEW s \in Streams
               PROVE  /\ m_left[s] > 0 => h264_box[s] \in Packets
                      /\ source[s] = "none" => m_left[s] = 0 /\ missing[s] = 0
                      /\ spoiled[s] \/ missing[s] = m_left[s]
    BY DEF PieceInv
  <2>1. m_left[s] = 0 /\ missing[s] = 0
    OBVIOUS
  <2>2. ~(m_left[s] > 0)
    BY <2>1
  <2> QED
    BY <2>1, <2>2
<1> QED
  BY <1>1, <1>2, <1>3, <1>4, <1>5 DEF WInv

(* A step that hands on a piece keeps the count of what is missing. *)
LEMMA HandOnFacts ==
  ASSUME NEW s \in Streams, NEW left \in Lengths, NEW max \in MaxSizes,
         NEW packet \in Packets, src!TypeOK, left > 0,
         missing[s] = m_left[s] => missing[s] = left \/ (missing[s] = 0 /\ left = PacketSize[packet]),
         spoiled[s] \/ missing[s] = m_left[s],
         tasks' \in [Streams -> 0..MaxTasks],
         src!HandOn(s, left, max, packet)
  PROVE  /\ src!TypeOK'
         /\ spoiled'[s] \/ missing'[s] = m_left'[s]
         /\ \A q \in Streams \ {s} :
              m_left'[q] = m_left[q] /\ missing'[q] = missing[q] /\ spoiled'[q] = spoiled[q]
<1> DEFINE rest == IF max <= left THEN left - max ELSE 0
           begun == IF missing[s] = 0 THEN PacketSize[packet] ELSE missing[s]
           got == left - rest
           new == IF got <= begun THEN begun - got ELSE 0
<1>1. max \in Nat /\ left \in Nat /\ rest \in Nat /\ rest <= left
  BY ServerAssumption, LengthFacts
<1>2. rest \in Lengths /\ got \in Nat
  BY <1>1, LengthFacts
<1>3. missing[s] \in Lengths /\ begun \in Lengths /\ begun \in Nat
  BY LengthFacts DEF src!TypeOK, Lengths
<1>4. new \in Lengths
  <2>1. new \in Nat /\ new <= begun
    BY <1>2, <1>3
  <2> QED
    BY <2>1, <1>3, LengthFacts
<1>5. /\ m_left' = [m_left EXCEPT ![s] = rest]
      /\ awaiting' = [awaiting EXCEPT ![s] = FALSE]
      /\ missing' = IF awaiting[s] THEN [missing EXCEPT ![s] = new] ELSE missing
      /\ spoiled' = [spoiled EXCEPT ![s] = @ \/ ~awaiting[s]]
      /\ source' = source
  BY DEF src!HandOn
<1> HIDE DEF rest, new
<1>6. src!TypeOK'
  BY <1>2, <1>4, <1>5 DEF src!TypeOK, Lengths
<1>7. ASSUME ~spoiled[s], awaiting[s] PROVE new = rest
  <2>1. begun = left
    BY <1>7, <1>1, LengthFacts
  <2> QED
    BY <2>1, <1>1 DEF new, rest
<1>8. spoiled'[s] \/ missing'[s] = m_left'[s]
  <2>1. CASE spoiled[s] \/ ~awaiting[s]
    BY <2>1, <1>5 DEF src!TypeOK
  <2>2. CASE ~spoiled[s] /\ awaiting[s]
    BY <2>2, <1>5, <1>7 DEF src!TypeOK
  <2> QED
    BY <2>1, <2>2
<1>9. \A q \in Streams \ {s} :
        m_left'[q] = m_left[q] /\ missing'[q] = missing[q] /\ spoiled'[q] = spoiled[q]
  BY <1>5 DEF src!TypeOK
<1> QED
  BY <1>6, <1>8, <1>9
LEMMA NextWInv == WInv /\ [Next]_vars => WInv'
<1> SUFFICES ASSUME WInv, [Next]_vars PROVE WInv'
  OBVIOUS
<1> USE DEF WInv
<1>1. CASE EncoderReceives
  <2> USE <1>1 DEF EncoderReceives, h264!Invoke, srcvars, subvars
  <2>1. (src!TypeOK /\ sub!TypeOK)'
    BY DEF src!TypeOK, sub!TypeOK
  <2>2. QueueInv'
    <3>1. gop' \in Packets
      BY ServerAssumption DEF QueueInv, Packets
    <3> QED
      BY <3>1, ServerAssumption DEF QueueInv
  <2>3. PopInv'
    BY DEF PopInv, sub!Returning, src!Alive
  <2>4. PieceInv'
    BY ServerAssumption DEF PieceInv, QueueInv
  <2> QED
    BY <2>1, <2>2, <2>3, <2>4
<1>2. CASE EncoderStores
  <2> USE <1>2 DEF EncoderStores, h264!Put, srcvars, subvars
  <2>1. (src!TypeOK /\ sub!TypeOK)'
    BY DEF src!TypeOK, sub!TypeOK
  <2>2. QueueInv'
    BY ServerAssumption DEF QueueInv
  <2>3. PopInv'
    BY DEF PopInv, sub!Returning, src!Alive
  <2>4. PieceInv'
    BY ServerAssumption DEF PieceInv, QueueInv
  <2> QED
    BY <2>1, <2>2, <2>3, <2>4
<1>3. ASSUME NEW s \in Streams, FramerReads(s) PROVE WInv'
  <2> USE <1>3 DEF FramerReads, src!DoGetNextFrame, subvars, h264vars, SchedulingPoint
  <2>1. (src!TypeOK /\ sub!TypeOK)'
    BY ServerAssumption DEF src!TypeOK, src!Lives, sub!TypeOK
  <2>2. QueueInv'
    BY DEF QueueInv
  <2>3. PopInv'
    BY DEF PopInv, sub!Returning
  <2>4. PieceInv'
    BY DEF PieceInv, src!TypeOK
  <2> QED
    BY <2>1, <2>2, <2>3, <2>4
<1>4. ASSUME NEW s \in Streams, TaskPops(s) PROVE WInv'
  <2> USE <1>4 DEF TaskPops, src!GetFrameDataPops, src!TaskStarts, h264!Invoke, subvars, SchedulingPoint
  <2>1. (src!TypeOK /\ sub!TypeOK)'
    BY ServerAssumption DEF src!TypeOK, sub!TypeOK
  <2>2. QueueInv'
    BY ServerAssumption DEF QueueInv
  <2>3. PopInv'
    BY DEF PopInv, sub!Returning, src!Alive
  <2>4. PieceInv'
    BY DEF PieceInv, QueueInv
  <2> QED
    BY <2>1, <2>2, <2>3, <2>4
<1>5. ASSUME NEW s \in Streams, TaskHandsOnPacket(s) PROVE WInv'
  <2> USE <1>5 DEF TaskHandsOnPacket, h264!Get, subvars
  <2>1. s = popping /\ src!Alive(s) /\ m_left[s] = 0
    BY ServerAssumption DEF QueueInv, PopInv
  <2>2. PICK max \in MaxSizes : src!HandOn(s, PacketSize[h264_box'[s]], max, h264_box'[s])
    OBVIOUS
  <2>3. h264_box'[s] = Head(h264_fifo) /\ Head(h264_fifo) \in Packets
    BY DEF QueueInv
  <2>4. PacketSize[h264_box'[s]] \in Lengths /\ PacketSize[h264_box'[s]] > 0
    BY <2>3, LengthFacts DEF PacketSize
  <2>5. /\ src!TypeOK'
        /\ spoiled'[s] \/ missing'[s] = m_left'[s]
        /\ \A q \in Streams \ {s} :
             m_left'[q] = m_left[q] /\ missing'[q] = missing[q] /\ spoiled'[q] = spoiled[q]
    BY <2>1, <2>2, <2>3, <2>4, HandOnFacts DEF src!TypeOK, PieceInv
  <2>6. sub!TypeOK'
    BY DEF sub!TypeOK
  <2>7. QueueInv'
    BY <2>1, <2>3, ServerAssumption DEF QueueInv
  <2>8. PopInv'
    BY DEF PopInv, sub!Returning
  <2>9. PieceInv'
    <3>1. source' = source
      BY <2>2 DEF src!HandOn
    <3>2. \A q \in Streams \ {s} : h264_box'[q] = h264_box[q]
      BY DEF QueueInv
    <3> QED
      BY <3>1, <3>2, <2>1, <2>3, <2>5 DEF PieceInv, src!Alive
  <2> QED
    BY <2>5, <2>6, <2>7, <2>8, <2>9
<1>6. ASSUME NEW s \in Streams, TaskHandsOnRest(s) PROVE WInv'
  <2> USE <1>6 DEF TaskHandsOnRest, subvars, h264vars, SchedulingPoint
  <2>1. PICK max \in MaxSizes : src!GetFrameDataLeft(s, max, h264_box[s])
    OBVIOUS
  <2>2. /\ src!Alive(s) /\ m_left[s] > 0 /\ tasks' = [tasks EXCEPT ![s] = @ - 1] /\ tasks[s] > 0
        /\ src!HandOn(s, m_left[s], max, h264_box[s])
    BY <2>1 DEF src!GetFrameDataLeft, src!TaskStarts
  <2>3. tasks' \in [Streams -> 0..MaxTasks]
    BY <2>2, ServerAssumption DEF src!TypeOK
  <2>4. m_left[s] \in Lengths /\ h264_box[s] \in Packets
    BY <2>2 DEF src!TypeOK, Lengths, PieceInv
  <2>5. /\ src!TypeOK'
        /\ spoiled'[s] \/ missing'[s] = m_left'[s]
        /\ \A q \in Streams \ {s} :
             m_left'[q] = m_left[q] /\ missing'[q] = missing[q] /\ spoiled'[q] = spoiled[q]
    BY <2>2, <2>3, <2>4, HandOnFacts DEF PieceInv
  <2>6. (sub!TypeOK /\ QueueInv /\ PopInv)'
    BY DEF sub!TypeOK, QueueInv, PopInv, sub!Returning
  <2>7. PieceInv'
    <3>1. source' = source
      BY <2>2 DEF src!HandOn
    <3> QED
      BY <3>1, <2>2, <2>4, <2>5 DEF PieceInv, src!Alive
  <2> QED
    BY <2>5, <2>6, <2>7
<1>7. ASSUME NEW s \in Streams, DescribeBegins(s) PROVE WInv'
  <2> USE <1>7 DEF DescribeBegins, sub!DescribeBegins, src!NewPlaying, SchedulingPoint
  <2>1. (src!TypeOK /\ sub!TypeOK)'
    BY ServerAssumption DEF src!TypeOK, src!Lives, sub!TypeOK
  <2>2. QueueInv'
    BY ServerAssumption DEF QueueInv
  <2>3. PopInv'
    BY DEF PopInv
  <2>4. PieceInv'
    BY DEF PieceInv, src!TypeOK, QueueInv
  <2> QED
    BY <2>1, <2>2, <2>3, <2>4
<1>8. CASE DescribeAtOnce \/ CheckForAuxSDPLine
  <2> USE <1>8 DEF DescribeAtOnce, CheckForAuxSDPLine, sub!DescribeAtOnce, sub!CheckForAuxSDPLine,
                   SchedulingPoint, srcvars, h264vars
  <2>1. (src!TypeOK /\ sub!TypeOK)'
    BY DEF src!TypeOK, sub!TypeOK, sub!Descriptions
  <2>2. (QueueInv /\ PopInv /\ PieceInv)'
    BY DEF QueueInv, PopInv, PieceInv
  <2> QED
    BY <2>1, <2>2
<1>9. ASSUME NEW s \in Streams, src!Close(s), popping = NoStream, popping' = NoStream,
             UNCHANGED <<gop, h264vars>>, sub!TypeOK'
      PROVE WInv'
  <2> USE <1>9 DEF src!Close, h264vars
  <2>1. src!TypeOK'
    BY LengthFacts DEF src!TypeOK, src!Lives, Lengths
  <2>2. (QueueInv /\ PopInv)'
    BY DEF QueueInv, PopInv
  <2>3. PieceInv'
    BY DEF PieceInv, src!TypeOK
  <2> QED
    BY <2>1, <2>2, <2>3
<1>10. CASE DescribeReturns
  <2>1. describing \in Streams /\ popping = NoStream /\ popping' = NoStream
    BY <1>10 DEF DescribeReturns, sub!DescribeReturns, sub!Returning, sub!TypeOK, PopInv
  <2>2. sub!TypeOK'
    BY <1>10 DEF DescribeReturns, sub!DescribeReturns, sub!TypeOK, sub!Descriptions
  <2> QED
    BY <1>9, <1>10, <2>1, <2>2 DEF DescribeReturns
<1>11. ASSUME NEW s \in Streams, Setup(s) PROVE WInv'
  <2> USE <1>11 DEF Setup, src!New, subvars, SchedulingPoint
  <2>1. (src!TypeOK /\ sub!TypeOK)'
    BY DEF src!TypeOK, src!Lives, sub!TypeOK
  <2>2. (QueueInv /\ PopInv)'
    BY ServerAssumption DEF QueueInv, PopInv
  <2>3. PieceInv'
    BY DEF PieceInv, src!TypeOK, QueueInv
  <2> QED
    BY <2>1, <2>2, <2>3
<1>12. ASSUME NEW s \in Streams, Request(s) PROVE WInv'
  <2> USE <1>12 DEF Request, subvars, SchedulingPoint
  <2>1. sub!TypeOK'
    BY DEF sub!TypeOK
  <2>2. CASE Play(s)
    <3> USE <2>2 DEF Play, src!DoGetNextFrame, h264vars
    <3>1. src!TypeOK'
      BY ServerAssumption DEF src!TypeOK, src!Lives
    <3>2. (QueueInv /\ PopInv)'
      BY DEF QueueInv, PopInv
    <3>3. PieceInv'
      BY DEF PieceInv, src!TypeOK
    <3> QED
      BY <2>1, <3>1, <3>2, <3>3
  <2>3. CASE src!DoStopGettingFrames(s)
    <3> USE <2>3 DEF src!DoStopGettingFrames, h264vars
    <3>1. src!TypeOK'
      BY LengthFacts DEF src!TypeOK, src!Lives, Lengths
    <3>2. (QueueInv /\ PopInv)'
      BY DEF QueueInv, PopInv
    <3>3. PieceInv'
      BY DEF PieceInv, src!TypeOK
    <3> QED
      BY <2>1, <3>1, <3>2, <3>3
  <2>4. CASE src!Close(s)
    BY <1>9, <2>1, <2>4
  <2> QED
    BY <2>2, <2>3, <2>4
<1>13. CASE TaskOfDeletedSource \/ UNCHANGED vars
  BY <1>13 DEF TaskOfDeletedSource, vars, srcvars, subvars, h264vars, src!TypeOK, sub!TypeOK,
               QueueInv, PopInv, PieceInv, src!Alive, sub!Returning
<1> QED
  BY <1>1, <1>2, <1>3, <1>4, <1>5, <1>6, <1>7, <1>8, <1>10, <1>11, <1>12, <1>13
     DEF Next, StreamRuns, TaskRuns

(* Clients get whole packets, unless a task has run that answered no read   *)
(* (H264LiveVideoSource.cpp:32-38, 51-68).                                  *)
THEOREM ClientsGetWholePackets == Spec => []WholePackets
<1>1. WInv => WholePackets
  BY DEF WInv, PieceInv, WholePackets, src!WholePackets
<1> QED
  BY InitWInv, NextWInv, <1>1, PTL DEF Spec

--------------------------------------------------------------------------------
(* Who is in a call of the queue, and that a line is learnt only while a    *)
(* DESCRIBE looks for it.                                                   *)
CallsInv ==
  /\ Len(h264_fifo) <= H264Size
  /\ h264_in = {t \in {Encoder} : h264_box[t] # NoBuffer} \cup ({popping} \ {NoStream})
  /\ aux_line => describing # NoStream

LEMMA NextCallsInv == WInv /\ CallsInv /\ [Next]_vars => CallsInv'
<1> SUFFICES ASSUME WInv, CallsInv, [Next]_vars PROVE CallsInv'
  OBVIOUS
<1> USE ServerAssumption DEF CallsInv, h264vars
<1>0. /\ h264_fifo \in Seq(Packets) /\ gop \in Packets /\ NoBuffer \notin Packets
      /\ h264_box \in [{Encoder} \cup Streams -> Packets \cup {NoBuffer}]
      /\ popping \in Streams \cup {NoStream}
  BY DEF WInv, QueueInv, PopInv, Packets
<1>1. CASE EncoderReceives
  BY <1>0, <1>1 DEF EncoderReceives, h264!Invoke, subvars
<1>2. CASE EncoderStores
  BY <1>0, <1>2 DEF EncoderStores, h264!Put, subvars
<1>3. ASSUME NEW s \in Streams, FramerReads(s) \/ TaskHandsOnRest(s) PROVE CallsInv'
  <2>1. UNCHANGED <<h264vars, popping, describing>>
    BY <1>3 DEF FramerReads, TaskHandsOnRest, subvars
  <2>2. aux_line' => aux_line \/ s = describing
    BY <1>3, Zenon DEF FramerReads, TaskHandsOnRest, LearnsAuxLine
  <2>3. QED
    BY <2>1, <2>2
<1>4. ASSUME NEW s \in Streams, TaskPops(s) PROVE CallsInv'
  BY <1>0, <1>4 DEF TaskPops, SchedulingPoint, h264!Invoke, subvars
<1>5. ASSUME NEW s \in Streams, TaskHandsOnPacket(s) PROVE CallsInv'
  <2>1. /\ h264_fifo # <<>> /\ h264_fifo' = Tail(h264_fifo) /\ h264_in' = h264_in \ {s}
        /\ h264_box' = [h264_box EXCEPT ![s] = Head(h264_fifo)]
        /\ s \in h264_in /\ popping' = NoStream /\ describing' = describing
    BY <1>5 DEF TaskHandsOnPacket, h264!Get, subvars
  <2>2. Len(h264_fifo') <= H264Size
    BY <1>0, <2>1
  <2>3. s = popping /\ h264_box'[Encoder] = h264_box[Encoder]
    BY <1>0, <2>1
  <2>4. QED
    BY <1>5, <2>1, <2>2, <2>3 DEF TaskHandsOnPacket, LearnsAuxLine
<1>6. ASSUME NEW s \in Streams, DescribeBegins(s) \/ Setup(s) PROVE CallsInv'
  BY <1>0, <1>6 DEF DescribeBegins, sub!DescribeBegins, Setup, subvars
<1>7. ASSUME NEW s \in Streams, Request(s) PROVE CallsInv'
  BY <1>7 DEF Request, subvars
<1>8. CASE DescribeAtOnce \/ CheckForAuxSDPLine \/ DescribeReturns
  BY <1>8 DEF DescribeAtOnce, CheckForAuxSDPLine, DescribeReturns, sub!DescribeAtOnce,
              sub!CheckForAuxSDPLine
<1>9. CASE TaskOfDeletedSource \/ UNCHANGED vars
  BY <1>9 DEF TaskOfDeletedSource, vars, subvars
<1>10. QED
  BY <1>1, <1>2, <1>3, <1>4, <1>5, <1>6, <1>7, <1>8, <1>9 DEF Next, StreamRuns, TaskRuns

(* The server's state is well-typed: the queue keeps to its size and only   *)
(* the encoder and the stream that is popping are in it                     *)
(* (BufferQueue.hpp:42-48, H264LiveVideoSource.cpp:51-53).                  *)
THEOREM TypeCorrect == Spec => []TypeOK
<1>1. Init => CallsInv
  BY ServerAssumption DEF Init, CallsInv
<1>2. WInv /\ CallsInv => TypeOK
  BY DEF WInv, CallsInv, QueueInv, TypeOK
<1>3. QED
  BY <1>1, <1>2, InitWInv, NextWInv, NextCallsInv, PTL DEF Spec

--------------------------------------------------------------------------------
(* The packets on their way are consecutive: from the oldest one queued to  *)
(* the one the encoder makes next.                                          *)
After(n) == (n + 1) % GopSize

Consecutive ==
  /\ h264_box[Encoder] # NoBuffer => gop = After(h264_box[Encoder])
  /\ \A i \in 1..Len(h264_fifo) :
       (IF i = Len(h264_fifo) THEN Made ELSE h264_fifo[i + 1]) = After(h264_fifo[i])

(* A read that waits has its task, and a new source has neither.            *)
ReadHasTask ==
  \A s \in Streams : /\ awaiting[s] => Answers(s) > 0
                     /\ source[s] = "none" => tasks[s] = 0 /\ ~awaiting[s]

DInv == WInv /\ CallsInv /\ Consecutive /\ ReadHasTask

LEMMA QueueTyped ==
  ASSUME WInv
  PROVE  /\ h264_fifo \in Seq(Packets) /\ gop \in Packets /\ NoBuffer \notin Packets
         /\ h264_box \in [{Encoder} \cup Streams -> Packets \cup {NoBuffer}]
         /\ popping \in Streams \cup {NoStream}
BY ServerAssumption DEF WInv, QueueInv, PopInv, Packets

(* What the encoder does: the row of packets grows at its end.              *)
LEMMA ReceivingKeepsRow ==
  ASSUME WInv, CallsInv, Consecutive, EncoderReceives
  PROVE  Consecutive' /\ Coming' = Coming
<1>1. h264_box[Encoder] = NoBuffer
  BY DEF CallsInv, EncoderReceives, h264!Invoke
<1>2. /\ h264_fifo' = h264_fifo /\ gop' = After(gop)
      /\ h264_box'[Encoder] = gop /\ gop # NoBuffer
  BY QueueTyped DEF EncoderReceives, h264!Invoke, After
<1>3. Made' = Made
  BY <1>1, <1>2 DEF Made
<1>4. QED
  BY <1>2, <1>3 DEF Consecutive, Coming

LEMMA StoringKeepsRow ==
  ASSUME WInv, CallsInv, Consecutive, EncoderStores
  PROVE  Consecutive' /\ Coming' = Coming
<1> DEFINE b == h264_box[Encoder]
           n == Len(h264_fifo)
<1>1. b \in Packets
  BY DEF WInv, QueueInv, EncoderStores, h264!Put
<1>2. /\ h264_fifo' = Append(h264_fifo, b) /\ gop' = gop /\ h264_box'[Encoder] = NoBuffer
      /\ h264_fifo \in Seq(Packets) /\ n \in Nat /\ b # NoBuffer
  BY <1>1, QueueTyped DEF EncoderStores, h264!Put
<1>3. Made = b /\ Made' = gop /\ gop = After(b)
  BY <1>2 DEF Made, Consecutive
<1>4. /\ Len(h264_fifo') = n + 1
      /\ \A i \in 1..(n + 1) : h264_fifo'[i] = IF i = n + 1 THEN b ELSE h264_fifo[i]
  BY <1>1, <1>2
<1>5. Coming' = Coming
  <2>1. h264_fifo' # <<>> /\ Head(h264_fifo') = h264_fifo'[1]
    BY <1>2, <1>4
  <2>2. h264_fifo # <<>> <=> n # 0
    BY <1>2
  <2>3. h264_fifo'[1] = IF n = 0 THEN b ELSE h264_fifo[1]
    BY <1>2, <1>4
  <2>4. QED
    BY <1>2, <1>3, <2>1, <2>2, <2>3 DEF Coming
<1>6. ASSUME NEW i \in 1..(n + 1)
      PROVE  (IF i = n + 1 THEN Made' ELSE h264_fifo'[i + 1]) = After(h264_fifo'[i])
  <2>1. CASE i = n + 1
    BY <1>3, <1>4, <2>1
  <2>2. CASE i # n + 1
    <3>1. i \in 1..n /\ (IF i = n THEN Made ELSE h264_fifo[i + 1]) = After(h264_fifo[i])
      BY <1>2, <2>2 DEF Consecutive
    <3>2. h264_fifo'[i + 1] = IF i = n THEN b ELSE h264_fifo[i + 1]
      <4>1. i + 1 \in 1..(n + 1) /\ (i + 1 = n + 1 <=> i = n)
        BY <1>2, <3>1
      <4>2. QED
        BY <1>4, <4>1
    <3>3. QED
      BY <1>3, <1>4, <2>2, <3>1, <3>2
  <2>3. QED
    BY <2>1, <2>2
<1>7. QED
  BY <1>2, <1>4, <1>5, <1>6 DEF Consecutive, After

(* A stream takes the packet at its head, and the next one is due.          *)
LEMMA TakingMovesRow ==
  ASSUME WInv, Consecutive, NEW s \in Streams, h264!Get(s), gop' = gop
  PROVE  Consecutive' /\ Coming = h264_box'[s] /\ Coming' = After(Coming)
<1> DEFINE n == Len(h264_fifo)
<1>1. /\ h264_fifo \in Seq(Packets) /\ n \in Nat \ {0} /\ h264_fifo # <<>>
      /\ h264_fifo' = Tail(h264_fifo)
      /\ h264_box'[s] = h264_fifo[1] /\ h264_box'[Encoder] = h264_box[Encoder]
  BY QueueTyped, ServerAssumption DEF h264!Get
<1>2. Made' = Made
  BY <1>1 DEF Made
<1>3. /\ Len(h264_fifo') = n - 1
      /\ \A i \in 1..(n - 1) : h264_fifo'[i] = h264_fifo[i + 1]
  BY <1>1
<1>4. Coming = h264_fifo[1] /\ Coming' = IF n = 1 THEN Made ELSE h264_fifo[2]
  BY <1>1, <1>2, <1>3 DEF Coming
<1>5. Coming' = After(Coming)
  <2>1. 1 \in 1..n
    BY <1>1
  <2>2. (IF 1 = n THEN Made ELSE h264_fifo[1 + 1]) = After(h264_fifo[1])
    BY <2>1 DEF Consecutive
  <2>3. QED
    BY <1>4, <2>2
<1>6. ASSUME NEW i \in 1..(n - 1)
      PROVE  (IF i = n - 1 THEN Made' ELSE h264_fifo'[i + 1]) = After(h264_fifo'[i])
  <2>1. i + 1 \in 1..n /\ (i + 1 = n <=> i = n - 1)
    BY <1>1
  <2>2. (IF i + 1 = n THEN Made ELSE h264_fifo[(i + 1) + 1]) = After(h264_fifo[i + 1])
    BY <2>1 DEF Consecutive
  <2>3. h264_fifo'[i] = h264_fifo[i + 1]
    BY <1>3
  <2>4. i # n - 1 => h264_fifo'[i + 1] = h264_fifo[(i + 1) + 1]
    <3>1. i # n - 1 => i + 1 \in 1..(n - 1)
      BY <1>1
    <3>2. QED
      BY <1>3, <3>1
  <2>5. CASE i = n - 1
    BY <1>2, <2>1, <2>2, <2>3, <2>5
  <2>6. CASE i # n - 1
    <3>1. h264_fifo'[i + 1] = After(h264_fifo[i + 1])
      BY <2>1, <2>2, <2>4, <2>6
    <3>2. QED
      BY <2>3, <2>6, <3>1
  <2>7. QED
    BY <2>5, <2>6
<1>7. QED
  BY <1>1, <1>3, <1>4, <1>5, <1>6 DEF Consecutive, After

(* Steps that leave the queue to the others.                                *)
LEMMA RowAlone ==
  ASSUME Consecutive, UNCHANGED <<h264_fifo, gop>>, h264_box'[Encoder] = h264_box[Encoder]
  PROVE  Consecutive' /\ Coming' = Coming
BY DEF Consecutive, Made, Coming, After

--------------------------------------------------------------------------------
(* What each step does to the tasks of its stream; those of the others stay *)
(* as they are.                                                             *)
LEMMA OthersKeepTheirs ==
  ASSUME NEW s \in Streams, src!TypeOK,
         \A q \in Streams \ {s} : /\ tasks'[q] = tasks[q] /\ awaiting'[q] = awaiting[q]
                                  /\ popping = q <=> popping' = q
  PROVE  /\ Stale[s]' = Stale[s] => Stale' = Stale
         /\ Stale' = [Stale EXCEPT ![s] = Stale[s]']
<1>1. \A q \in Streams \ {s} : Stale[q]' = Stale[q]
  BY DEF Stale, Answers
<1>2. /\ Stale = [q \in Streams |-> Stale[q]] /\ DOMAIN Stale = Streams
      /\ Stale' = [q \in Streams |-> Stale[q]'] /\ DOMAIN Stale' = Streams
  BY DEF Stale
<1>3. QED
  BY <1>1, <1>2

LEMMA NextReadHasTask == WInv /\ ReadHasTask /\ [Next]_vars => ReadHasTask'
<1> SUFFICES ASSUME WInv, ReadHasTask, [Next]_vars PROVE ReadHasTask'
  OBVIOUS
<1> USE ServerAssumption DEF ReadHasTask, Answers
<1>0. /\ source \in [Streams -> src!Lives] /\ awaiting \in [Streams -> BOOLEAN]
      /\ tasks \in [Streams -> 0..MaxTasks]
      /\ popping \in Streams \cup {NoStream} /\ (popping # NoStream => src!Alive(popping))
  BY DEF WInv, PopInv, src!TypeOK
<1>1. CASE EncoderReceives \/ EncoderStores \/ DescribeAtOnce \/ CheckForAuxSDPLine
  BY <1>1 DEF EncoderReceives, EncoderStores, DescribeAtOnce, CheckForAuxSDPLine, srcvars
<1>2. ASSUME NEW s \in Streams, src!DoGetNextFrame(s), popping' = popping PROVE ReadHasTask'
  BY <1>0, <1>2 DEF src!DoGetNextFrame, src!Alive
<1>3. ASSUME NEW s \in Streams, TaskPops(s) PROVE ReadHasTask'
  BY <1>0, <1>3 DEF TaskPops, SchedulingPoint, src!GetFrameDataPops, src!TaskStarts, src!Alive
<1>4. ASSUME NEW s \in Streams, TaskHandsOnPacket(s) PROVE ReadHasTask'
  <2>1. s = popping
    BY <1>4 DEF TaskHandsOnPacket, h264!Get, WInv, QueueInv
  <2>2. source' = source /\ awaiting' = [awaiting EXCEPT ![s] = FALSE]
    BY <1>4 DEF TaskHandsOnPacket, src!HandOn
  <2>3. QED
    BY <1>0, <1>4, <2>1, <2>2 DEF TaskHandsOnPacket
<1>5. ASSUME NEW s \in Streams, TaskHandsOnRest(s) PROVE ReadHasTask'
  <2>1. /\ source' = source /\ awaiting' = [awaiting EXCEPT ![s] = FALSE]
        /\ tasks' = [tasks EXCEPT ![s] = @ - 1] /\ src!Alive(s) /\ popping' = popping
    BY <1>5 DEF TaskHandsOnRest, src!GetFrameDataLeft, src!TaskStarts, src!HandOn
  <2>2. QED
    BY <1>0, <2>1 DEF src!Alive
<1>6. ASSUME NEW s \in Streams, DescribeBegins(s) \/ Setup(s) PROVE ReadHasTask'
  BY <1>0, <1>6 DEF DescribeBegins, Setup, src!NewPlaying, src!New
<1>7. ASSUME NEW s \in Streams, src!DoStopGettingFrames(s) \/ src!Close(s), popping' = popping
      PROVE  ReadHasTask'
  BY <1>0, <1>7 DEF src!DoStopGettingFrames, src!Close
<1>8. ASSUME NEW s \in Streams, Request(s) PROVE ReadHasTask'
  BY <1>2, <1>7, <1>8 DEF Request, Play
<1>9. CASE DescribeReturns
  <2>1. describing \in Streams
    BY <1>9 DEF DescribeReturns, sub!DescribeReturns, sub!Returning, WInv, sub!TypeOK
  <2>2. QED
    BY <1>7, <1>9, <2>1 DEF DescribeReturns
<1>10. CASE TaskOfDeletedSource \/ UNCHANGED vars
  BY <1>10 DEF TaskOfDeletedSource, vars, srcvars
<1>11. QED
  BY <1>1, <1>2, <1>3, <1>4, <1>5, <1>6, <1>8, <1>9, <1>10
     DEF Next, StreamRuns, TaskRuns, FramerReads

LEMMA NextConsecutive == WInv /\ CallsInv /\ Consecutive /\ [Next]_vars => Consecutive'
<1> SUFFICES ASSUME WInv, CallsInv, Consecutive, [Next]_vars PROVE Consecutive'
  OBVIOUS
<1>1. CASE EncoderReceives \/ EncoderStores
  BY <1>1, ReceivingKeepsRow, StoringKeepsRow
<1>2. ASSUME NEW s \in Streams, TaskHandsOnPacket(s) PROVE Consecutive'
  BY <1>2, TakingMovesRow DEF TaskHandsOnPacket
<1>3. ASSUME NEW s \in Streams, TaskPops(s) \/ DescribeBegins(s) \/ Setup(s) PROVE Consecutive'
  BY <1>3, QueueTyped, RowAlone, ServerAssumption DEF TaskPops, h264!Invoke, DescribeBegins, Setup
<1>4. CASE UNCHANGED <<h264vars, gop>>
  BY <1>4, RowAlone DEF h264vars
<1>5. QED
  BY <1>1, <1>2, <1>3, <1>4
     DEF Next, StreamRuns, TaskRuns, FramerReads, TaskHandsOnRest, Request, DescribeAtOnce,
         CheckForAuxSDPLine, DescribeReturns, TaskOfDeletedSource, vars

--------------------------------------------------------------------------------
(* The steps the streams do not see.                                        *)
LEMMA UnseenStep ==
  ASSUME UNCHANGED <<source, awaiting, m_left>>, Coming' = Coming, Stale' = Stale
  PROVE  UNCHANGED Dealt!vars
BY DEF Dealt!vars

(* A read: the task that is scheduled is its own.                           *)
LEMMA ReadOfDealt ==
  ASSUME DInv, NEW s \in Streams, src!DoGetNextFrame(s), popping' = popping,
         UNCHANGED <<h264vars, gop>>
  PROVE  Dealt!Read(s)
<1>1. Coming' = Coming
  BY RowAlone DEF DInv, h264vars
<1>2. /\ src!TypeOK /\ ~awaiting[s] /\ src!Alive(s)
      /\ awaiting' = [awaiting EXCEPT ![s] = TRUE] /\ tasks' = [tasks EXCEPT ![s] = @ + 1]
      /\ source' = [source EXCEPT ![s] = "playing"] /\ m_left' = m_left
  BY DEF DInv, WInv, src!DoGetNextFrame
<1>3. Stale[s]' = Stale[s]
  BY <1>2 DEF Stale, Answers, src!TypeOK
<1>4. Stale' = Stale
  BY <1>2, <1>3, OthersKeepTheirs DEF src!TypeOK
<1>5. QED
  BY <1>1, <1>2, <1>4 DEF Dealt!Read, Dealt!Alive, src!Alive

(* A piece: one task less, and it was that of a read given up or there is   *)
(* no read waiting any more.                                                *)
LEMMA PieceOfDealt ==
  ASSUME DInv, NEW s \in Streams, NEW left \in Nat, NEW max \in MaxSizes, NEW packet,
         src!Alive(s), src!HandOn(s, left, max, packet),
         popping \in {s, NoStream}, popping' = NoStream,
         Answers(s) \in Nat \ {0}, Answers(s)' = Answers(s) - 1,
         \A q \in Streams \ {s} : tasks'[q] = tasks[q]
  PROVE  /\ Dealt!PieceIsDue(s)
         /\ \E n \in 0..left : m_left' = [m_left EXCEPT ![s] = n]
<1> DEFINE rest == IF max <= left THEN left - max ELSE 0
<1>1. /\ m_left' = [m_left EXCEPT ![s] = rest] /\ source' = source
      /\ awaiting' = [awaiting EXCEPT ![s] = FALSE] /\ awaiting \in [Streams -> BOOLEAN]
  BY DEF DInv, WInv, src!TypeOK, src!HandOn
<1>2. rest \in 0..left
  BY ServerAssumption
<1>3. /\ Stale[s] = IF awaiting[s] THEN Answers(s) - 1 ELSE Answers(s)
      /\ Stale[s]' = Answers(s) - 1
  BY <1>1 DEF Stale
<1>4. Stale' = [Stale EXCEPT ![s] = Stale[s]'] /\ (Stale[s]' = Stale[s] => Stale' = Stale)
  <2>1. \A q \in Streams \ {s} : popping = q <=> popping' = q
    BY ServerAssumption
  <2>2. QED
    BY <1>1, <2>1, OthersKeepTheirs DEF DInv, WInv
<1>5. awaiting[s] \/ Stale[s] > 0
  BY <1>3
<1>6. Stale' = IF awaiting[s] THEN Stale ELSE [Stale EXCEPT ![s] = @ - 1]
  <2>1. CASE awaiting[s]
    BY <1>3, <1>4, <2>1
  <2>2. CASE ~awaiting[s]
    BY <1>3, <1>4, <2>2
  <2>3. QED
    BY <2>1, <2>2
<1>7. Dealt!PieceIsDue(s)
  BY <1>1, <1>5, <1>6 DEF Dealt!PieceIsDue, Dealt!Alive, src!Alive
<1>8. QED
  BY <1>1, <1>2, <1>7

(* A stop gives up the read that waits, and its task stays.                 *)
LEMMA StopOfDealt ==
  ASSUME DInv, NEW s \in Streams, src!DoStopGettingFrames(s), popping' = popping,
         UNCHANGED <<h264vars, gop>>
  PROVE  Dealt!Stop(s)
<1>1. Coming' = Coming
  BY RowAlone DEF DInv, h264vars
<1>2. /\ src!TypeOK /\ source[s] = "playing" /\ tasks' = tasks
      /\ awaiting' = [awaiting EXCEPT ![s] = FALSE]
      /\ source' = [source EXCEPT ![s] = "open"] /\ m_left' = [m_left EXCEPT ![s] = 0]
  BY DEF DInv, WInv, src!DoStopGettingFrames
<1>3. Stale[s]' = Dealt!GivenUp(s)
  BY <1>2 DEF Stale, Answers, src!TypeOK, Dealt!GivenUp
<1>4. Stale' = [Stale EXCEPT ![s] = Stale[s]']
  BY <1>2, OthersKeepTheirs DEF src!TypeOK
<1>5. QED
  BY <1>1, <1>2, <1>3, <1>4 DEF Dealt!Stop

LEMMA CloseOfDealt ==
  ASSUME DInv, NEW s \in Streams, src!Close(s), popping = NoStream, popping' = NoStream,
         UNCHANGED <<h264vars, gop>>
  PROVE  Dealt!Close(s)
<1>1. Coming' = Coming
  BY RowAlone DEF DInv, h264vars
<1>2. /\ src!TypeOK /\ src!Alive(s) /\ tasks' = tasks
      /\ awaiting' = [awaiting EXCEPT ![s] = FALSE]
      /\ source' = [source EXCEPT ![s] = IF tasks[s] = 0 THEN "none" ELSE "freed"]
      /\ m_left' = [m_left EXCEPT ![s] = 0]
  BY DEF DInv, WInv, src!Close
<1>3. Stale[s]' = Dealt!GivenUp(s) /\ Dealt!GivenUp(s) = tasks[s]
  BY <1>2, ServerAssumption DEF Stale, Answers, src!TypeOK, Dealt!GivenUp
<1>4. Stale' = [Stale EXCEPT ![s] = Stale[s]']
  BY <1>2, OthersKeepTheirs DEF src!TypeOK
<1>5. QED
  BY <1>1, <1>2, <1>3, <1>4 DEF Dealt!Close, Dealt!Alive, src!Alive

(* A new source has no tasks; that of a DESCRIBE reads at once.             *)
LEMMA OpenOfDealt ==
  ASSUME DInv, NEW s \in Streams, DescribeBegins(s) \/ Setup(s)
  PROVE  Dealt!Open(s)
<1>1. /\ src!TypeOK /\ popping = NoStream /\ popping' = NoStream /\ source[s] = "none"
      /\ tasks[s] = 0 /\ ~awaiting[s] /\ m_left' = m_left
  BY DEF DInv, WInv, ReadHasTask, DescribeBegins, Setup, SchedulingPoint, src!NewPlaying, src!New
<1>2. Coming' = Coming
  BY QueueTyped, RowAlone, ServerAssumption DEF DInv, DescribeBegins, Setup
<1>3. \/ /\ source' = [source EXCEPT ![s] = "open"]
         /\ UNCHANGED <<awaiting, tasks>>
      \/ /\ source' = [source EXCEPT ![s] = "playing"]
         /\ awaiting' = [awaiting EXCEPT ![s] = TRUE]
         /\ tasks' = [tasks EXCEPT ![s] = 1]
  BY DEF DescribeBegins, Setup, src!NewPlaying, src!New
<1>4. Stale[s]' = Stale[s]
  BY <1>1, <1>3, ServerAssumption DEF Stale, Answers, src!TypeOK
<1>5. Stale' = Stale
  <2>1. \A q \in Streams \ {s} : tasks'[q] = tasks[q] /\ awaiting'[q] = awaiting[q]
    BY <1>1, <1>3 DEF src!TypeOK
  <2>2. QED
    BY <1>1, <1>4, <2>1, OthersKeepTheirs
<1>6. QED
  BY <1>1, <1>2, <1>3, <1>5 DEF Dealt!Open

LEMMA PacketOfDealt ==
  ASSUME DInv, NEW s \in Streams, TaskHandsOnPacket(s)
  PROVE  Dealt!BeginPacket(s)
<1>1. PICK max \in MaxSizes : src!HandOn(s, PacketSize[h264_box'[s]], max, h264_box'[s])
  BY DEF TaskHandsOnPacket
<1>2. s = popping /\ popping' = NoStream /\ tasks' = tasks
  BY ServerAssumption DEF TaskHandsOnPacket, h264!Get, DInv, WInv, QueueInv
<1>3. src!TypeOK /\ src!Alive(s) /\ m_left[s] = 0
  BY <1>2, ServerAssumption DEF DInv, WInv, PopInv
<1>4. Coming = h264_box'[s] /\ Coming' = After(Coming)
  BY TakingMovesRow DEF DInv, TaskHandsOnPacket
<1>5. Coming \in Packets /\ PacketSize[Coming] \in Nat
  <2>1. Head(h264_fifo) \in Packets /\ h264_box'[s] = Head(h264_fifo)
    BY QueueTyped DEF DInv, TaskHandsOnPacket, h264!Get
  <2>2. QED
    BY <1>4, <2>1 DEF PacketSize
<1>6. Answers(s) \in Nat \ {0} /\ Answers(s)' = Answers(s) - 1
  BY <1>2, <1>3, ServerAssumption DEF Answers, src!TypeOK
<1>7. /\ Dealt!PieceIsDue(s)
      /\ \E n \in 0..PacketSize[Coming] : m_left' = [m_left EXCEPT ![s] = n]
  BY <1>1, <1>2, <1>3, <1>4, <1>5, <1>6, PieceOfDealt
<1>8. QED
  BY <1>3, <1>4, <1>7 DEF Dealt!BeginPacket, After

LEMMA RestOfDealt ==
  ASSUME DInv, NEW s \in Streams, TaskHandsOnRest(s)
  PROVE  Dealt!GoOnWithPacket(s)
<1>1. PICK max \in MaxSizes : src!GetFrameDataLeft(s, max, h264_box[s])
  BY DEF TaskHandsOnRest
<1>2. /\ src!Alive(s) /\ m_left[s] > 0 /\ tasks' = [tasks EXCEPT ![s] = @ - 1] /\ tasks[s] > 0
      /\ src!HandOn(s, m_left[s], max, h264_box[s])
  BY <1>1 DEF src!GetFrameDataLeft, src!TaskStarts
<1>3. popping = NoStream /\ popping' = NoStream /\ UNCHANGED <<h264vars, gop>>
  BY DEF TaskHandsOnRest, SchedulingPoint
<1>4. Coming' = Coming
  BY <1>3, RowAlone DEF DInv, h264vars
<1>5. m_left[s] \in Nat /\ tasks \in [Streams -> 0..MaxTasks]
  BY LengthFacts DEF DInv, WInv, src!TypeOK, Lengths
<1>6. Answers(s) \in Nat \ {0} /\ Answers(s)' = Answers(s) - 1
  BY <1>2, <1>3, <1>5, ServerAssumption DEF Answers
<1>7. /\ Dealt!PieceIsDue(s)
      /\ \E n \in 0..m_left[s] : m_left' = [m_left EXCEPT ![s] = n]
  BY <1>2, <1>3, <1>5, <1>6, PieceOfDealt
<1>8. QED
  BY <1>2, <1>4, <1>7 DEF Dealt!GoOnWithPacket

LEMMA PopOfDealt ==
  ASSUME DInv, NEW s \in Streams, TaskPops(s)
  PROVE  UNCHANGED Dealt!vars
<1>1. /\ src!TypeOK /\ popping = NoStream /\ popping' = s
      /\ tasks[s] > 0 /\ tasks' = [tasks EXCEPT ![s] = @ - 1]
      /\ UNCHANGED <<source, awaiting, m_left>>
  BY DEF DInv, WInv, TaskPops, SchedulingPoint, src!GetFrameDataPops, src!TaskStarts
<1>2. Coming' = Coming
  BY QueueTyped, RowAlone, ServerAssumption DEF DInv, TaskPops, h264!Invoke
<1>3. Stale[s]' = Stale[s]
  BY <1>1, ServerAssumption DEF Stale, Answers, src!TypeOK
<1>4. Stale' = Stale
  <2>1. \A q \in Streams \ {s} : popping = q <=> popping' = q
    BY <1>1, ServerAssumption
  <2>2. \A q \in Streams \ {s} : tasks'[q] = tasks[q]
    BY <1>1 DEF src!TypeOK
  <2>3. QED
    BY <1>1, <1>3, <2>1, <2>2, OthersKeepTheirs
<1>5. QED
  BY <1>1, <1>2, <1>4, UnseenStep

LEMMA NextDealt == DInv /\ [Next]_vars => [Dealt!Next]_(Dealt!vars)
<1> SUFFICES ASSUME DInv, [Next]_vars PROVE Dealt!Next \/ UNCHANGED Dealt!vars
  OBVIOUS
<1>1. CASE EncoderReceives \/ EncoderStores
  <2>1. Coming' = Coming
    BY <1>1, ReceivingKeepsRow, StoringKeepsRow DEF DInv
  <2>2. UNCHANGED <<srcvars, popping>>
    BY <1>1 DEF EncoderReceives, EncoderStores
  <2>3. QED
    BY <2>1, <2>2, UnseenStep DEF srcvars, Stale, Answers
<1>2. ASSUME NEW s \in Streams, FramerReads(s) \/ Request(s) PROVE Dealt!Next
  <2>1. popping = NoStream /\ popping' = NoStream /\ UNCHANGED <<h264vars, gop>>
    BY <1>2 DEF FramerReads, Request, SchedulingPoint
  <2>2. src!DoGetNextFrame(s) \/ src!DoStopGettingFrames(s) \/ src!Close(s)
    BY <1>2 DEF FramerReads, Request, Play
  <2>3. QED
    BY <2>1, <2>2, ReadOfDealt, StopOfDealt, CloseOfDealt DEF Dealt!Next
<1>3. ASSUME NEW s \in Streams, TaskPops(s) PROVE UNCHANGED Dealt!vars
  BY <1>3, PopOfDealt
<1>4. ASSUME NEW s \in Streams, TaskHandsOnPacket(s) \/ TaskHandsOnRest(s) PROVE Dealt!Next
  BY <1>4, PacketOfDealt, RestOfDealt DEF Dealt!Next
<1>5. ASSUME NEW s \in Streams, DescribeBegins(s) \/ Setup(s) PROVE Dealt!Next
  BY <1>5, OpenOfDealt DEF Dealt!Next
<1>6. CASE DescribeReturns
  <2>1. /\ describing \in Streams /\ popping = NoStream /\ popping' = NoStream
        /\ UNCHANGED <<h264vars, gop>> /\ src!Close(describing)
    BY <1>6 DEF DescribeReturns, sub!DescribeReturns, sub!Returning, DInv, WInv, sub!TypeOK, PopInv
  <2>2. QED
    BY <2>1, CloseOfDealt DEF Dealt!Next
<1>7. CASE DescribeAtOnce \/ CheckForAuxSDPLine \/ TaskOfDeletedSource \/ UNCHANGED vars
  <2>1. UNCHANGED <<srcvars, h264vars, gop, popping>>
    BY <1>7 DEF DescribeAtOnce, CheckForAuxSDPLine, TaskOfDeletedSource, vars
  <2>2. Coming' = Coming
    BY <2>1, RowAlone DEF DInv, h264vars
  <2>3. QED
    BY <2>1, <2>2, UnseenStep DEF srcvars, Stale, Answers
<1>8. QED
  BY <1>1, <1>2, <1>3, <1>4, <1>5, <1>6, <1>7 DEF Next, StreamRuns, TaskRuns

LEMMA InitDealt == Init => DInv /\ Dealt!Init
<1> SUFFICES ASSUME Init PROVE DInv /\ Dealt!Init
  OBVIOUS
<1> USE ServerAssumption DEF Init, src!Init
<1>1. CallsInv /\ Consecutive
  BY DEF CallsInv, Consecutive
<1>2. ReadHasTask
  BY DEF ReadHasTask
<1>3. Coming = 0
  BY DEF Coming, Made
<1>4. Stale = [s \in Streams |-> 0]
  BY DEF Stale, Answers
<1>5. QED
  BY <1>1, <1>2, <1>3, <1>4, InitWInv DEF DInv, Dealt!Init

(* The streams deal the packets out in the order of the encoder, each gets  *)
(* all of a packet before it begins another, unless it stops, and a piece   *)
(* nobody gets was taken for a read that was given up, one each, whatever   *)
(* their number and the size of the queue                                   *)
(* (H264LiveVideoSource.cpp:32-38, 45-68, 99).                              *)
THEOREM StreamsAreDealt == Spec => ImplementsLiveStreams
<1>1. DInv /\ [Next]_vars => DInv'
  BY NextWInv, NextCallsInv, NextConsecutive, NextReadHasTask DEF DInv
<1>2. QED
  BY <1>1, InitDealt, NextDealt, PTL DEF Spec, ImplementsLiveStreams, Dealt!Spec
================================================================================

------------------- MODULE H264VideoLiveServerMediaSubsession -------------------
(***************************************************************************)
(* The subsession of src/Rtsp/Live555: how a DESCRIBE is answered.  The     *)
(* first one plays a dummy stream inside the handler, in a nested event     *)
(* loop, until the stream's parameter sets are known; requests that arrive  *)
(* meanwhile are handled inside it.                                         *)
(***************************************************************************)
CONSTANTS
  Streams,
  NoStream

VARIABLES
  m_sdp_line,        (* whether it is set                                   *)
  m_done,            (* not initialised: any value at first                 *)
  m_dummy_rtp_sink,  (* the stream whose sink it is, or NoStream            *)
  nextTask,          (* whether checkForAuxSDPLine is scheduled             *)
  fSDPLines,         (* live555's description: see Descriptions             *)
  describing         (* the stream of the handler in its nested event loop  *)

vars == <<m_sdp_line, m_done, m_dummy_rtp_sink, nextTask, fSDPLines, describing>>

(* "bare": a description without parameter sets. *)
Descriptions == {"none", "bare", "full"}

TypeOK ==
  /\ m_sdp_line \in BOOLEAN
  /\ m_done \in BOOLEAN
  /\ m_dummy_rtp_sink \in Streams \cup {NoStream}
  /\ nextTask \in BOOLEAN
  /\ fSDPLines \in Descriptions
  /\ describing \in Streams \cup {NoStream}

Init ==
  /\ m_sdp_line = FALSE
  /\ m_done \in BOOLEAN
  /\ m_dummy_rtp_sink = NoStream
  /\ nextTask = FALSE
  /\ fSDPLines = "none"
  /\ describing = NoStream

--------------------------------------------------------------------------------
(* Mutated forms of the definitions below: bugs the properties must catch. *)

(* checkForAuxSDPLine1() that does not look at the sink's line: done at     *)
(* its first run.                                                           *)
CheckForAuxSDPLineBlind(aux_line) ==
  /\ nextTask
  /\ nextTask' = FALSE /\ m_done' = TRUE /\ m_dummy_rtp_sink' = NoStream
  /\ UNCHANGED <<m_sdp_line, fSDPLines, describing>>

(* ... that schedules itself again when it has the line, too. *)
CheckForAuxSDPLineAgain(aux_line) ==
  /\ nextTask /\ aux_line
  /\ m_sdp_line' = TRUE /\ m_done' = TRUE /\ m_dummy_rtp_sink' = NoStream
  /\ UNCHANGED <<nextTask, fSDPLines, describing>>

(* ... that gives up after one try. *)
CheckForAuxSDPLineOnce(aux_line) ==
  /\ nextTask
  /\ nextTask' = FALSE
  /\ m_sdp_line' = aux_line /\ m_done' = (m_done \/ aux_line)
  /\ UNCHANGED <<m_dummy_rtp_sink, fSDPLines, describing>>

--------------------------------------------------------------------------------
(* getAuxSDPLine() for the first DESCRIBE, up to doEventLoop(): the check   *)
(* made at once finds nothing, nothing having been read, and is scheduled   *)
(* again unless m_done happens to be set.                                   *)
DescribeBegins(s) ==
  /\ fSDPLines = "none" /\ ~m_sdp_line
  /\ m_dummy_rtp_sink = NoStream
  /\ m_dummy_rtp_sink' = s
  /\ describing' = s
  /\ nextTask' = ~m_done
  /\ UNCHANGED <<m_sdp_line, m_done, fSDPLines>>

(* ... and for one that comes while m_dummy_rtp_sink is set. *)
DescribeAtOnce ==
  /\ fSDPLines = "none"
  /\ m_dummy_rtp_sink # NoStream
  /\ fSDPLines' = "bare"
  /\ UNCHANGED <<m_sdp_line, m_done, m_dummy_rtp_sink, nextTask, describing>>

(* The task finds the line; while it does not, it is scheduled again. *)
CheckForAuxSDPLine(aux_line) ==
  /\ nextTask
  /\ aux_line
  /\ nextTask' = FALSE
  /\ m_sdp_line' = TRUE
  /\ m_dummy_rtp_sink' = NoStream
  /\ m_done' = TRUE
  /\ UNCHANGED <<fSDPLines, describing>>

(* doEventLoop() tests m_done before each of its steps: once it is set      *)
(* nothing else happens before it returns.                                  *)
Returning == describing # NoStream /\ m_done

(* It returns the line, and live555 replaces the description. *)
DescribeReturns ==
  /\ Returning
  /\ describing' = NoStream
  /\ fSDPLines' = IF m_sdp_line THEN "full" ELSE "bare"
  /\ UNCHANGED <<m_sdp_line, m_done, m_dummy_rtp_sink, nextTask>>

--------------------------------------------------------------------------------
(* m_done was set when the object was made: the handler gave up at once and *)
(* left the pointer to its sink behind, so nobody looks for the line again. *)
GivenUp == m_done /\ ~m_sdp_line /\ m_dummy_rtp_sink # NoStream

(* Clients get a description without parameter sets only while the first    *)
(* DESCRIBE is still looking for them - or for ever, if m_done was set by   *)
(* accident (H264VideoLiveServerMediaSubsession.cpp:54-68, 71-90, .hh:52).  *)
BareOnlyMeanwhile == fSDPLines = "bare" => describing # NoStream \/ GivenUp

(* The sink that checkForAuxSDPLine1() asks for its line is that of the     *)
(* handler still on the stack, which has not closed it                      *)
(* (H264VideoLiveServerMediaSubsession.cpp:48, 55-58, 78-87).               *)
CheckedSinkIsOpen == nextTask => describing # NoStream /\ m_dummy_rtp_sink = describing
================================================================================

------------------------------ MODULE LiveStreams ------------------------------
(***************************************************************************)
(* What the RTSP server promises its streams, with no queue, no encoder, no *)
(* event loop and no tasks: the packets of the encoder are dealt out in     *)
(* their order and none is left out, each to one stream; a stream gets all  *)
(* of a packet before it begins another, unless it stops; and a read gets   *)
(* one piece.  A piece is wasted only on a read that was given up, one for  *)
(* each.  LiveServer.tla is shown to implement it.                          *)
(***************************************************************************)
EXTENDS Naturals

CONSTANTS Streams, GopSize, PacketSize

VARIABLES
  coming,     (* the place in its group of the packet dealt out next        *)
  life,       (* "none", "open", "playing", or "freed" too early            *)
  reading,    (* whether the stream has a read that is not answered         *)
  rest,       (* what it is still to get of its packet                      *)
  stale       (* how many of its reads were given up and will be answered   *)

vars == <<coming, life, reading, rest, stale>>

Init ==
  /\ coming = 0
  /\ life = [s \in Streams |-> "none"]
  /\ reading = [s \in Streams |-> FALSE]
  /\ rest = [s \in Streams |-> 0]
  /\ stale = [s \in Streams |-> 0]

Alive(s) == life[s] \in {"open", "playing"}

(* A new stream may begin by reading. *)
Open(s) ==
  /\ life[s] = "none"
  /\ \/ life' = [life EXCEPT ![s] = "open"] /\ reading' = reading
     \/ life' = [life EXCEPT ![s] = "playing"] /\ reading' = [reading EXCEPT ![s] = TRUE]
  /\ UNCHANGED <<coming, rest, stale>>

Read(s) ==
  /\ Alive(s) /\ ~reading[s]
  /\ life' = [life EXCEPT ![s] = "playing"]
  /\ reading' = [reading EXCEPT ![s] = TRUE]
  /\ UNCHANGED <<coming, rest, stale>>

(* A piece is due: to a read that waits, whichever it was made for, or to   *)
(* one that was given up.                                                   *)
PieceIsDue(s) ==
  /\ Alive(s)
  /\ reading[s] \/ stale[s] > 0
  /\ reading' = [reading EXCEPT ![s] = FALSE]
  /\ stale' = IF reading[s] THEN stale ELSE [stale EXCEPT ![s] = @ - 1]
  /\ life' = life

BeginPacket(s) ==
  /\ PieceIsDue(s)
  /\ rest[s] = 0
  /\ \E n \in 0..PacketSize[coming] : rest' = [rest EXCEPT ![s] = n]
  /\ coming' = (coming + 1) % GopSize

GoOnWithPacket(s) ==
  /\ PieceIsDue(s)
  /\ rest[s] > 0
  /\ \E n \in 0..rest[s] : rest' = [rest EXCEPT ![s] = n]
  /\ UNCHANGED coming

GivenUp(s) == IF reading[s] THEN stale[s] + 1 ELSE stale[s]

Stop(s) ==
  /\ life[s] = "playing"
  /\ life' = [life EXCEPT ![s] = "open"]
  /\ reading' = [reading EXCEPT ![s] = FALSE]
  /\ rest' = [rest EXCEPT ![s] = 0]
  /\ stale' = [stale EXCEPT ![s] = GivenUp(s)]
  /\ UNCHANGED coming

(* A stream that owes answers when it is closed is freed too early. *)
Close(s) ==
  /\ Alive(s)
  /\ life' = [life EXCEPT ![s] = IF GivenUp(s) = 0 THEN "none" ELSE "freed"]
  /\ reading' = [reading EXCEPT ![s] = FALSE]
  /\ rest' = [rest EXCEPT ![s] = 0]
  /\ stale' = [stale EXCEPT ![s] = GivenUp(s)]
  /\ UNCHANGED coming

Next ==
  \E s \in Streams :
    \/ Open(s) \/ Read(s) \/ BeginPacket(s) \/ GoOnWithPacket(s) \/ Stop(s) \/ Close(s)

Spec == Init /\ [][Next]_vars
================================================================================

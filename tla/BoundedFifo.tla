------------------------------ MODULE BoundedFifo ------------------------------
(***************************************************************************)
(* What BufferQueue<T> promises the threads that share it, with no mutex,   *)
(* no condition variable and no waiting: calls take effect in one step,     *)
(* buffers leave in the order they came, none is lost, copied or made up    *)
(* inside, at most Size are held, and a call comes back empty-handed only   *)
(* while the queue is closed.  BufferQueue.tla is shown to implement it.    *)
(***************************************************************************)
EXTENDS Naturals, Sequences

CONSTANTS
  Producers,  (* threads that push                                          *)
  Consumers,  (* threads that pop                                           *)
  Buffers,    (* the contents a buffer can have                             *)
  Size,       (* how many buffers the queue may hold                        *)
  NoBuffer    (* an empty vector                                            *)

VARIABLES
  fifo,       (* the buffers accepted and not yet handed out, oldest first  *)
  open,       (* between Start() and Stop(): callers may be made to wait    *)
  inCall,     (* the threads that are inside a push or a pop                *)
  box         (* the vector each thread passes to its call                  *)

vars == <<fifo, open, inCall, box>>

Threads == Producers \cup Consumers

Init ==
  /\ fifo = <<>>
  /\ open = TRUE
  /\ inCall = {}
  /\ box = [t \in Threads |-> NoBuffer]

(* A producer calls with a buffer to hand over; a consumer with the vector *)
(* it used for its previous call or with an empty one.                     *)
Invoke(t, b) ==
  /\ t \notin inCall
  /\ inCall' = inCall \cup {t}
  /\ box' = [box EXCEPT ![t] = b]
  /\ UNCHANGED <<fifo, open>>

(* A mutated form, a bug of a queue that the pipeline must notice.          *)

(* A stack where the code has a queue. *)
GetNewest(c) ==
  /\ c \in inCall
  /\ fifo # <<>>
  /\ box' = [box EXCEPT ![c] = fifo[Len(fifo)]]
  /\ fifo' = SubSeq(fifo, 1, Len(fifo) - 1)
  /\ inCall' = inCall \ {c}
  /\ UNCHANGED open

(* The buffer changes hands: it is in the queue and no longer in the box. *)
Put(p) ==
  /\ p \in inCall
  /\ Len(fifo) < Size
  /\ fifo' = Append(fifo, box[p])
  /\ box' = [box EXCEPT ![p] = NoBuffer]
  /\ inCall' = inCall \ {p}
  /\ UNCHANGED open

Get(c) ==
  /\ c \in inCall
  /\ fifo # <<>>
  /\ box' = [box EXCEPT ![c] = Head(fifo)]
  /\ fifo' = Tail(fifo)
  /\ inCall' = inCall \ {c}
  /\ UNCHANGED open

(* Coming back without having moved a buffer is a closed queue's privilege. *)
Refuse(t) ==
  /\ t \in inCall
  /\ ~open
  /\ IF t \in Producers THEN Len(fifo) >= Size ELSE fifo = <<>>
  /\ inCall' = inCall \ {t}
  /\ UNCHANGED <<fifo, open, box>>

SetOpen(o) ==
  /\ open' = o
  /\ UNCHANGED <<fifo, inCall, box>>

Next ==
  \/ \E p \in Producers, b \in Buffers : Invoke(p, b)
  \/ \E c \in Consumers : \E b \in {box[c], NoBuffer} : Invoke(c, b)
  \/ \E p \in Producers : Put(p)
  \/ \E c \in Consumers : Get(c)
  \/ \E t \in Threads : Refuse(t)
  \/ \E o \in BOOLEAN : SetOpen(o)

Spec == Init /\ [][Next]_vars
================================================================================

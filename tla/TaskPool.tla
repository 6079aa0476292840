-------------------------------- MODULE TaskPool --------------------------------
(***************************************************************************)
(* What ThreadPool promises those who commit tasks to it, with no mutex, no *)
(* condition variable and no sleeping workers: tasks are begun in the order *)
(* they were committed, each by one worker, and the pool is closed when no  *)
(* task runs any more.  Once the destructor has begun nothing is offered,   *)
(* and each worker that was ready for a task begins one more at most.       *)
(* ThreadPool.tla is shown to implement it.                                 *)
(***************************************************************************)
EXTENDS Naturals, Sequences

CONSTANTS Workers, Clients, Tasks, NoTask

VARIABLES
  queue,    (* the tasks committed and not yet begun, oldest first          *)
  offers,   (* the task each thread is committing                           *)
  ready,    (* the workers that may begin a task                            *)
  runs,     (* the task each worker runs                                    *)
  open,     (* until the destructor begins                                  *)
  gone      (* the destructor has returned                                  *)

vars == <<queue, offers, ready, runs, open, gone>>

Threads == Workers \cup Clients

Init ==
  /\ queue = <<>>
  /\ offers = [t \in Threads |-> NoTask]
  /\ ready = Workers
  /\ runs = [w \in Workers |-> NoTask]
  /\ open = TRUE /\ gone = FALSE

(* A task is with a thread that offers it, in the queue, or with a worker. *)
InFlight ==
  {queue[i] : i \in DOMAIN queue} \cup {runs[w] : w \in Workers} \cup {offers[t] : t \in Threads}

(* A worker offers a task from within the one it runs.                     *)
Offer(t, k) ==
  /\ open
  /\ offers[t] = NoTask /\ k \notin InFlight
  /\ t \in Workers => runs[t] # NoTask
  /\ offers' = [offers EXCEPT ![t] = k]
  /\ UNCHANGED <<queue, ready, runs, open, gone>>

(* An offer that was made in time is taken, also after the end has begun.  *)
Accept(t) ==
  /\ offers[t] # NoTask
  /\ queue' = Append(queue, offers[t])
  /\ offers' = [offers EXCEPT ![t] = NoTask]
  /\ UNCHANGED <<ready, runs, open, gone>>

Begin(w) ==
  /\ w \in ready
  /\ queue # <<>>
  /\ queue' = Tail(queue)
  /\ runs' = [runs EXCEPT ![w] = Head(queue)]
  /\ ready' = ready \ {w}
  /\ UNCHANGED <<offers, open, gone>>

End(w) ==
  /\ runs[w] # NoTask /\ offers[w] = NoTask
  /\ runs' = [runs EXCEPT ![w] = NoTask]
  /\ ready' = IF open THEN ready \cup {w} ELSE ready
  /\ UNCHANGED <<queue, offers, open, gone>>

(* The end begins: some of the ready workers see it before they begin one  *)
(* task more, others have looked already.                                  *)
Shut ==
  /\ open
  /\ \A c \in Clients : offers[c] = NoTask
  /\ open' = FALSE
  /\ ready' \in SUBSET ready
  /\ UNCHANGED <<queue, offers, runs, gone>>

(* A ready worker that finds nothing to do on a closed pool leaves.        *)
Leave(w) ==
  /\ ~open /\ w \in ready
  /\ queue = <<>>
  /\ ready' = ready \ {w}
  /\ UNCHANGED <<queue, offers, runs, open, gone>>

Close ==
  /\ ~open /\ ~gone
  /\ ready = {} /\ \A w \in Workers : runs[w] = NoTask
  /\ gone' = TRUE
  /\ UNCHANGED <<queue, offers, ready, runs, open>>

Next ==
  \/ \E t \in Threads : (\E k \in Tasks : Offer(t, k)) \/ Accept(t)
  \/ \E w \in Workers : Begin(w) \/ End(w) \/ Leave(w)
  \/ Shut \/ Close

Spec == Init /\ [][Next]_vars
================================================================================

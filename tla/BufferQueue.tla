------------------------------ MODULE BufferQueue ------------------------------
(***************************************************************************)
(* BufferQueue<T> of src/Base/BufferQueue/BufferQueue.hpp: the bounded      *)
(* queue of byte vectors between two stages of the video pipeline.  One     *)
(* mutex guards the queue; producers wait on m_condition_push, consumers    *)
(* on m_condition_pop.  Start() and Stop() write m_running and Stop()       *)
(* notifies both conditions WITHOUT taking the mutex, so they interleave    *)
(* with the inside of a critical section.                                   *)
(*                                                                          *)
(* A thread holds the mutex from the moment it reads m_running until it     *)
(* leaves or falls asleep, and m_running is all that can change meanwhile.  *)
(* The reads of one critical section (the while test, the wait predicate    *)
(* and the while test again) can therefore be taken as one: what they see   *)
(* together, the last of them sees alone.  What cannot be merged is the     *)
(* decision to wait and the falling asleep: "waiting" lies between them.    *)
(***************************************************************************)
EXTENDS Naturals, Sequences, FiniteSets

CONSTANTS
  Producers,    (* threads that call WaitePushBuffer                        *)
  Consumers,    (* threads that call WaitePopBuffer                         *)
  Controllers,  (* threads that call Start and Stop                         *)
  Buffers,      (* the contents a pushed vector can have                    *)
  m_size,       (* the capacity given to the constructor                    *)
  NoBuffer,     (* an empty (or moved-from) vector                          *)
  NoThread      (* the owner of a free mutex                                *)

Threads == Producers \cup Consumers

ASSUME QueueAssumption ==
  /\ Producers \cap Consumers = {}
  /\ IsFiniteSet(Producers) /\ IsFiniteSet(Consumers)
  /\ m_size \in Nat
  /\ NoThread \notin Threads
  /\ NoBuffer \notin Buffers

VARIABLES
  m_buffer_queue,  (* std::queue<std::vector<T>>                            *)
  m_running,
  m_mutex,         (* its owner, or NoThread                                *)
  pc,              (* where each thread is in its call                      *)
  buffer,          (* the vector each thread passes by reference            *)
  stop_pc          (* where each controller is in Stop()                    *)

vars == <<m_buffer_queue, m_running, m_mutex, pc, buffer, stop_pc>>

(* "out": not in a call.  "called": wants the mutex to look for the first  *)
(* time.  "waiting": has decided to wait, still holds the mutex.           *)
(* "asleep": in the condition's wait set.  "woken": wants the mutex back.  *)
ThreadPC == {"out", "called", "waiting", "asleep", "woken"}

(* "idle": not in Stop().  "notify_push", "notify_pop": about to make     *)
(* that notify_all call.                                                   *)
StopPC == {"idle", "notify_push", "notify_pop"}

TypeOK ==
  /\ m_buffer_queue \in Seq(Buffers)
  /\ Len(m_buffer_queue) <= m_size
  /\ m_running \in BOOLEAN
  /\ m_mutex \in Threads \cup {NoThread}
  /\ pc \in [Threads -> ThreadPC]
  /\ buffer \in [Threads -> Buffers \cup {NoBuffer}]
  /\ \A p \in Producers : pc[p] # "out" => buffer[p] \in Buffers
  /\ stop_pc \in [Controllers -> StopPC]

Init ==
  /\ m_buffer_queue = <<>>
  /\ m_running = TRUE
  /\ m_mutex = NoThread
  /\ pc = [t \in Threads |-> "out"]
  /\ buffer = [t \in Threads |-> NoBuffer]
  /\ stop_pc = [k \in Controllers |-> "idle"]

--------------------------------------------------------------------------------
(* Mutated forms of the definitions below: bugs the properties must catch. *)

(* IsFull() comparing with > instead of >=. *)
IsFullOffByOne == Len(m_buffer_queue) > m_size

(* A queue that does not lock its mutex on entry. *)
TakesMutexUnlocked(t) == pc[t] \in {"called", "woken"}

(* The notify_one() call forgotten. *)
WakeNone(f, S) == {f}

(* The notify_all() calls of Stop() forgotten. *)
WakeNobody(f, S) == f

(* WaitePopBuffer testing with "if", not "while": a woken consumer does not *)
(* look again before it returns.                                            *)
PopGiveUpUnchecked(c) ==
  /\ pc[c] \in {"called", "woken"}
  /\ m_mutex = NoThread
  /\ m_buffer_queue = <<>>
  /\ pc[c] = "woken" \/ ~m_running
  /\ pc' = [pc EXCEPT ![c] = "out"]
  /\ UNCHANGED <<m_buffer_queue, m_running, m_mutex, buffer, stop_pc>>

--------------------------------------------------------------------------------
IsEmpty == m_buffer_queue = <<>>
IsFull == Len(m_buffer_queue) >= m_size

(* The functions pc can become when notify_one() wakes a thread of S. *)
WakeOne(f, S) ==
  LET asleep == {t \in S : f[t] = "asleep"}
  IN IF asleep = {} THEN {f} ELSE {[f EXCEPT ![t] = "woken"] : t \in asleep}

(* The function pc becomes when notify_all() wakes the threads of S. *)
WakeAll(f, S) ==
  [t \in Threads |-> IF t \in S /\ f[t] = "asleep" THEN "woken" ELSE f[t]]

(* Thread t takes the mutex, on entry or when wait() returns. *)
TakesMutex(t) ==
  /\ pc[t] \in {"called", "woken"}
  /\ m_mutex = NoThread

(* The thread found nothing to do and m_running true: it goes to wait. *)
DecideToWait(t) ==
  /\ m_running
  /\ m_mutex' = t
  /\ pc' = [pc EXCEPT ![t] = "waiting"]
  /\ UNCHANGED <<m_buffer_queue, m_running, buffer, stop_pc>>

(* wait() gives the mutex up and puts the thread to sleep in one step. *)
FallAsleep(t) ==
  /\ pc[t] = "waiting"
  /\ m_mutex' = NoThread
  /\ pc' = [pc EXCEPT ![t] = "asleep"]
  /\ UNCHANGED <<m_buffer_queue, m_running, buffer, stop_pc>>

(* A condition variable may wake a thread that nobody notified. *)
SpuriousWakeup(t) ==
  /\ pc[t] = "asleep"
  /\ pc' = [pc EXCEPT ![t] = "woken"]
  /\ UNCHANGED <<m_buffer_queue, m_running, m_mutex, buffer, stop_pc>>

(* A thread enters WaitePushBuffer or WaitePopBuffer with vector b. *)
Call(t, b) ==
  /\ pc[t] = "out"
  /\ pc' = [pc EXCEPT ![t] = "called"]
  /\ buffer' = [buffer EXCEPT ![t] = b]
  /\ UNCHANGED <<m_buffer_queue, m_running, m_mutex, stop_pc>>

--------------------------------------------------------------------------------
(* WaitePushBuffer(): wait while full and running, then push unless full.  *)

PushStore(p) ==
  /\ TakesMutex(p)
  /\ ~IsFull
  /\ m_buffer_queue' = Append(m_buffer_queue, buffer[p])
  /\ buffer' = [buffer EXCEPT ![p] = NoBuffer]
  /\ pc' \in WakeOne([pc EXCEPT ![p] = "out"], Consumers)
  /\ UNCHANGED <<m_running, m_mutex, stop_pc>>

PushWait(p) ==
  /\ TakesMutex(p)
  /\ IsFull
  /\ DecideToWait(p)

(* Full and stopped: the call returns and the buffer stays with the caller. *)
PushGiveUp(p) ==
  /\ TakesMutex(p)
  /\ IsFull
  /\ ~m_running
  /\ pc' = [pc EXCEPT ![p] = "out"]
  /\ UNCHANGED <<m_buffer_queue, m_running, m_mutex, buffer, stop_pc>>

(* WaitePopBuffer(): wait while empty and running, then pop unless empty.  *)

PopTake(c) ==
  /\ TakesMutex(c)
  /\ ~IsEmpty
  /\ buffer' = [buffer EXCEPT ![c] = Head(m_buffer_queue)]
  /\ m_buffer_queue' = Tail(m_buffer_queue)
  /\ pc' \in WakeOne([pc EXCEPT ![c] = "out"], Producers)
  /\ UNCHANGED <<m_running, m_mutex, stop_pc>>

PopWait(c) ==
  /\ TakesMutex(c)
  /\ IsEmpty
  /\ DecideToWait(c)

(* Empty and stopped: the call returns with the caller's vector untouched. *)
PopGiveUp(c) ==
  /\ TakesMutex(c)
  /\ IsEmpty
  /\ ~m_running
  /\ pc' = [pc EXCEPT ![c] = "out"]
  /\ UNCHANGED <<m_buffer_queue, m_running, m_mutex, buffer, stop_pc>>

(* What a thread inside its call may do without the help of another. *)
PushStep(p) == PushStore(p) \/ PushWait(p) \/ PushGiveUp(p) \/ FallAsleep(p)
PopStep(c) == PopTake(c) \/ PopWait(c) \/ PopGiveUp(c) \/ FallAsleep(c)

--------------------------------------------------------------------------------
Start(k) ==
  /\ stop_pc[k] = "idle"
  /\ m_running' = TRUE
  /\ UNCHANGED <<m_buffer_queue, m_mutex, pc, buffer, stop_pc>>

(* Stop() (and the destructor): three steps, none under the mutex. *)
StopFlag(k) ==
  /\ stop_pc[k] = "idle"
  /\ m_running' = FALSE
  /\ stop_pc' = [stop_pc EXCEPT ![k] = "notify_push"]
  /\ UNCHANGED <<m_buffer_queue, m_mutex, pc, buffer>>

StopNotifyPush(k) ==
  /\ stop_pc[k] = "notify_push"
  /\ pc' = WakeAll(pc, Producers)
  /\ stop_pc' = [stop_pc EXCEPT ![k] = "notify_pop"]
  /\ UNCHANGED <<m_buffer_queue, m_running, m_mutex, buffer>>

StopNotifyPop(k) ==
  /\ stop_pc[k] = "notify_pop"
  /\ pc' = WakeAll(pc, Consumers)
  /\ stop_pc' = [stop_pc EXCEPT ![k] = "idle"]
  /\ UNCHANGED <<m_buffer_queue, m_running, m_mutex, buffer>>

StopNotifies(k) == StopNotifyPush(k) \/ StopNotifyPop(k)

--------------------------------------------------------------------------------
(* A queue used by its threads in every order. *)
Next ==
  \/ \E p \in Producers, b \in Buffers : Call(p, b)
  \/ \E c \in Consumers : \E b \in {buffer[c], NoBuffer} : Call(c, b)
  \/ \E p \in Producers : PushStep(p)
  \/ \E c \in Consumers : PopStep(c)
  \/ \E t \in Threads : SpuriousWakeup(t)
  \/ \E k \in Controllers : Start(k) \/ StopFlag(k) \/ StopNotifies(k)

Spec == Init /\ [][Next]_vars

--------------------------------------------------------------------------------
(* The mutex is held by the thread that is about to fall asleep, and what   *)
(* made that thread decide to wait is still so: the queue cannot have been  *)
(* filled or drained behind its back.                                       *)
WaitIsJustified ==
  /\ \A t \in Threads : pc[t] = "waiting" <=> m_mutex = t
  /\ \A c \in Consumers : pc[c] = "waiting" => IsEmpty
  /\ \A p \in Producers : pc[p] = "waiting" => IsFull

Woken(S) == {t \in S : pc[t] = "woken"}

(* notify_one() wakes enough threads (BufferQueue.hpp:36 and 47): whenever  *)
(* a consumer sleeps, there are at least as many consumers on their way to  *)
(* the mutex as there are buffers in the queue, and whenever a producer     *)
(* sleeps, at least as many producers as there are free places.  So no one  *)
(* sleeps through work, whatever Start() and Stop() do meanwhile.           *)
NoLostWakeup ==
  /\ (\E c \in Consumers : pc[c] = "asleep")
       => Len(m_buffer_queue) <= Cardinality(Woken(Consumers))
  /\ (\E p \in Producers : pc[p] = "asleep")
       => m_size <= Len(m_buffer_queue) + Cardinality(Woken(Producers))

(* A notify_all() that thread t needs is still to come. *)
WakeupOwed(t) ==
  \E k \in Controllers :
    stop_pc[k] \in IF t \in Producers THEN {"notify_push"}
                                      ELSE {"notify_push", "notify_pop"}

MissesStop(t) ==
  \/ pc[t] = "waiting"
  \/ pc[t] = "asleep" /\ ~WakeupOwed(t)

(* Stop() writes m_running and notifies without the mutex (BufferQueue.hpp: *)
(* 52-56), so a thread that had just decided to wait sleeps through it.  At *)
(* most one thread can: on a stopped queue two threads never both miss the  *)
(* wakeup, so the other end of the queue, if alive, still gets through.     *)
AtMostOneMissesStop ==
  ~m_running => \A t, u \in Threads : MissesStop(t) /\ MissesStop(u) => t = u

(* Every call keeps the promises of a bounded FIFO (BoundedFifo.tla).       *)
Fifo == INSTANCE BoundedFifo WITH
          fifo <- m_buffer_queue, open <- m_running,
          inCall <- {t \in Threads : pc[t] # "out"}, box <- buffer,
          Size <- m_size

ImplementsFifo == Fifo!Spec
================================================================================

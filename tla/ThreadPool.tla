------------------------------- MODULE ThreadPool -------------------------------
(***************************************************************************)
(* ThreadPool of src/Base/TaskScheduler/ThreadPool.hpp: workers that take   *)
(* tasks from a queue, CommitTask() that adds one, and the destructor that  *)
(* ends the workers.  The destructor writes m_running and notifies WITHOUT  *)
(* taking the mutex; CommitTask() reads m_running before it takes it and    *)
(* notifies after it has given it up.                                       *)
(*                                                                          *)
(* Tasks are committed by the Clients and by tasks that run (a worker that  *)
(* commits).  The clients share the pool, so it is destroyed when none is   *)
(* inside a call, and by a thread that is no worker.  A task of the model   *)
(* may be committed again once it has run: Tasks bounds the tasks in flight.*)
(*                                                                          *)
(* As in BufferQueue, the reads of one critical section are taken as one:   *)
(* only m_running can change meanwhile, from true to false, and the return  *)
(* of line 37 and the taking of a task differ by m_tasks alone.             *)
(***************************************************************************)
EXTENDS Naturals, Sequences, FiniteSets

CONSTANTS
  Workers,   (* the threads of m_wokers                                     *)
  Clients,   (* other threads that commit tasks                             *)
  Tasks,
  NoTask, NoThread

Threads == Workers \cup Clients

ASSUME PoolAssumption ==
  /\ IsFiniteSet(Workers) /\ IsFiniteSet(Clients)
  /\ Workers \cap Clients = {}
  /\ NoThread \notin Threads
  /\ NoTask \notin Tasks

VARIABLES
  m_tasks,    (* std::queue<std::function<void()>>                          *)
  m_running,
  m_mutex,    (* its owner, or NoThread                                     *)
  pc,         (* where each thread is                                       *)
  task,       (* the task a worker runs                                     *)
  arg,        (* the task a thread is committing                            *)
  dtor        (* where the destructor is                                    *)

vars == <<m_tasks, m_running, m_mutex, pc, task, arg, dtor>>

(* A worker: "test" at the while of line 29, "lock" wants the mutex for the *)
(* first time, "waiting" has decided to wait and holds it, "asleep",        *)
(* "woken" wants it back, "running" a task, "exited".  A client is "idle".  *)
(* Both, in CommitTask(): "commit" past line 50, "notify" about to notify.  *)
ThreadPC == {"test", "lock", "waiting", "asleep", "woken", "running", "exited",
             "idle", "commit", "notify"}

(* The destructor: not begun, about to notify, joining, returned. *)
DtorPC == {"alive", "notify", "join", "gone"}

Queued == {m_tasks[i] : i \in DOMAIN m_tasks}

(* Besides the types: the workers do not outlive the pool.                  *)
TypeOK ==
  /\ m_tasks \in Seq(Tasks)
  /\ m_running \in BOOLEAN
  /\ m_mutex \in Threads \cup {NoThread}
  /\ pc \in [Threads -> ThreadPC]
  /\ task \in [Workers -> Tasks \cup {NoTask}]
  /\ arg \in [Threads -> Tasks \cup {NoTask}]
  /\ dtor \in DtorPC
  /\ \A t \in Threads : pc[t] = "commit" => arg[t] \in Tasks
  /\ m_running = (dtor = "alive")
  /\ dtor = "gone" => \A w \in Workers : pc[w] = "exited"

Init ==
  /\ m_tasks = <<>>
  /\ m_running = TRUE
  /\ m_mutex = NoThread
  /\ pc = [t \in Threads |-> IF t \in Workers THEN "test" ELSE "idle"]
  /\ task = [w \in Workers |-> NoTask]
  /\ arg = [t \in Threads |-> NoTask]
  /\ dtor = "alive"

--------------------------------------------------------------------------------
(* Mutated forms of the definitions below: bugs the properties must catch. *)

(* The lock of the worker's critical section forgotten. *)
TakesMutexUnlocked(w) == pc[w] \in {"lock", "woken"}

(* notify_one() forgotten. *)
WakeNone(f) == {f}

(* The destructor with notify_one() where the code has notify_all(). *)
WakeOnlyOne(f) ==
  LET asleep == {w \in Workers : f[w] = "asleep"}
  IN IF asleep = {} THEN f ELSE [f EXCEPT ![CHOOSE w \in asleep : TRUE] = "woken"]

(* detach() where the code has join(). *)
JoinForgotten ==
  /\ dtor = "join"
  /\ dtor' = "gone"
  /\ UNCHANGED <<m_tasks, m_running, m_mutex, pc, task, arg>>

(* front() without pop(). *)
TakeTaskKeeps(w) ==
  /\ pc[w] \in {"lock", "woken"}
  /\ m_mutex = NoThread
  /\ m_tasks # <<>>
  /\ task' = [task EXCEPT ![w] = Head(m_tasks)]
  /\ pc' = [pc EXCEPT ![w] = "running"]
  /\ UNCHANGED <<m_tasks, m_running, m_mutex, arg, dtor>>

(* A stack where the code has a queue. *)
TakeNewest(w) ==
  /\ pc[w] \in {"lock", "woken"}
  /\ m_mutex = NoThread
  /\ m_tasks # <<>>
  /\ task' = [task EXCEPT ![w] = m_tasks[Len(m_tasks)]]
  /\ m_tasks' = SubSeq(m_tasks, 1, Len(m_tasks) - 1)
  /\ pc' = [pc EXCEPT ![w] = "running"]
  /\ UNCHANGED <<m_running, m_mutex, arg, dtor>>

--------------------------------------------------------------------------------
(* The functions pc can become when notify_one() wakes a worker. *)
WakeOne(f) ==
  LET asleep == {w \in Workers : f[w] = "asleep"}
  IN IF asleep = {} THEN {f} ELSE {[f EXCEPT ![w] = "woken"] : w \in asleep}

(* The function pc becomes when notify_all() wakes the workers. *)
WakeAll(f) ==
  [t \in Threads |-> IF t \in Workers /\ f[t] = "asleep" THEN "woken" ELSE f[t]]

--------------------------------------------------------------------------------
(* A worker. *)

WorkerTests(w) ==
  /\ pc[w] = "test"
  /\ pc' = [pc EXCEPT ![w] = IF m_running THEN "lock" ELSE "exited"]
  /\ UNCHANGED <<m_tasks, m_running, m_mutex, task, arg, dtor>>

TakesMutex(w) ==
  /\ pc[w] \in {"lock", "woken"}
  /\ m_mutex = NoThread

TakeTask(w) ==
  /\ TakesMutex(w)
  /\ m_tasks # <<>>
  /\ task' = [task EXCEPT ![w] = Head(m_tasks)]
  /\ m_tasks' = Tail(m_tasks)
  /\ pc' = [pc EXCEPT ![w] = "running"]
  /\ UNCHANGED <<m_running, m_mutex, arg, dtor>>

DecideToWait(w) ==
  /\ TakesMutex(w)
  /\ m_tasks = <<>> /\ m_running
  /\ m_mutex' = w
  /\ pc' = [pc EXCEPT ![w] = "waiting"]
  /\ UNCHANGED <<m_tasks, m_running, task, arg, dtor>>

FallAsleep(w) ==
  /\ pc[w] = "waiting"
  /\ m_mutex' = NoThread
  /\ pc' = [pc EXCEPT ![w] = "asleep"]
  /\ UNCHANGED <<m_tasks, m_running, task, arg, dtor>>

SpuriousWakeup(w) ==
  /\ pc[w] = "asleep"
  /\ pc' = [pc EXCEPT ![w] = "woken"]
  /\ UNCHANGED <<m_tasks, m_running, m_mutex, task, arg, dtor>>

WorkerReturns(w) ==
  /\ TakesMutex(w)
  /\ m_tasks = <<>> /\ ~m_running
  /\ pc' = [pc EXCEPT ![w] = "exited"]
  /\ UNCHANGED <<m_tasks, m_running, m_mutex, task, arg, dtor>>

(* By returning or by an exception, which packaged_task keeps: that of      *)
(* line 51 too, when a task commits to a pool that is being destroyed.      *)
TaskEnds(w) ==
  /\ pc[w] = "running"
  /\ task' = [task EXCEPT ![w] = NoTask]
  /\ pc' = [pc EXCEPT ![w] = "test"]
  /\ UNCHANGED <<m_tasks, m_running, m_mutex, arg, dtor>>

WorkerStep(w) ==
  \/ WorkerTests(w) \/ TakeTask(w) \/ DecideToWait(w) \/ FallAsleep(w)
  \/ WorkerReturns(w) \/ TaskEnds(w)

--------------------------------------------------------------------------------
(* CommitTask(), of a client or of the task a worker runs. *)

Home(t) == IF t \in Workers THEN "running" ELSE "idle"

InFlight == Queued \cup {task[w] : w \in Workers} \cup {arg[t] : t \in Threads}

CommitTest(t, k) ==
  /\ pc[t] = Home(t)
  /\ t \in Clients => dtor = "alive"
  /\ m_running
  /\ k \notin InFlight
  /\ arg' = [arg EXCEPT ![t] = k]
  /\ pc' = [pc EXCEPT ![t] = "commit"]
  /\ UNCHANGED <<m_tasks, m_running, m_mutex, task, dtor>>

CommitPush(t) ==
  /\ pc[t] = "commit"
  /\ m_mutex = NoThread
  /\ m_tasks' = Append(m_tasks, arg[t])
  /\ arg' = [arg EXCEPT ![t] = NoTask]
  /\ pc' = [pc EXCEPT ![t] = "notify"]
  /\ UNCHANGED <<m_running, m_mutex, task, dtor>>

CommitNotify(t) ==
  /\ pc[t] = "notify"
  /\ pc' \in WakeOne([pc EXCEPT ![t] = Home(t)])
  /\ UNCHANGED <<m_tasks, m_running, m_mutex, task, arg, dtor>>

--------------------------------------------------------------------------------
(* ~ThreadPool(). *)

DestroyPool ==
  /\ dtor = "alive"
  /\ \A c \in Clients : pc[c] = "idle"
  /\ m_running' = FALSE
  /\ dtor' = "notify"
  /\ UNCHANGED <<m_tasks, m_mutex, pc, task, arg>>

NotifyWorkers ==
  /\ dtor = "notify"
  /\ pc' = WakeAll(pc)
  /\ dtor' = "join"
  /\ UNCHANGED <<m_tasks, m_running, m_mutex, task, arg>>

JoinWorkers ==
  /\ dtor = "join"
  /\ \A w \in Workers : pc[w] = "exited"
  /\ dtor' = "gone"
  /\ UNCHANGED <<m_tasks, m_running, m_mutex, pc, task, arg>>

--------------------------------------------------------------------------------
Next ==
  \/ \E w \in Workers : WorkerStep(w) \/ SpuriousWakeup(w)
  \/ \E t \in Threads : (\E k \in Tasks : CommitTest(t, k)) \/ CommitPush(t) \/ CommitNotify(t)
  \/ DestroyPool \/ NotifyWorkers \/ JoinWorkers

Spec == Init /\ [][Next]_vars

(* Workers run, tasks end, and a thread that finds the mutex free time      *)
(* after time is in the end let in.  Nobody has to commit or to destroy.    *)
Fairness ==
  /\ \A w \in Workers : SF_vars(WorkerStep(w))
  /\ \A t \in Threads : SF_vars(CommitPush(t)) /\ WF_vars(CommitNotify(t))
  /\ WF_vars(NotifyWorkers) /\ WF_vars(JoinWorkers)

FairSpec == Spec /\ Fairness

--------------------------------------------------------------------------------
(* A task is taken once: while it is queued, nobody runs it or commits it   *)
(* again, and no two workers run the same one (ThreadPool.hpp:39-40).       *)
EachTaskOnce ==
  /\ \A i, j \in DOMAIN m_tasks : m_tasks[i] = m_tasks[j] => i = j
  /\ \A w \in Workers : task[w] \notin Queued
  /\ \A t \in Threads : arg[t] \notin Queued
  /\ \A v, w \in Workers : task[v] = task[w] => v = w \/ task[v] = NoTask
  /\ \A t, u \in Threads : arg[t] = arg[u] => t = u \/ arg[t] = NoTask
  /\ \A w \in Workers, t \in Threads : task[w] = arg[t] => arg[t] = NoTask

(* A worker about to fall asleep has the mutex to itself and the queue it   *)
(* found empty is still empty (ThreadPool.hpp:32-35, 61).                   *)
WaitIsJustified ==
  /\ \A t \in Threads : pc[t] = "waiting" <=> m_mutex = t
  /\ \A w \in Workers : pc[w] = "waiting" => m_tasks = <<>>

(* The threads that will look at the queue, or wake one that will, before   *)
(* they wait for anything but the mutex.                                    *)
OnTheWay == {t \in Threads : pc[t] \in {"test", "lock", "woken", "notify"}}

(* No worker sleeps while a task has nobody to take it, although            *)
(* notify_one() comes after the unlock (ThreadPool.hpp:61-65) and may wake  *)
(* a worker whose task another has taken: as long as one sleeps, there are  *)
(* as many threads on their way as there are tasks.                         *)
NoLostWakeup ==
  m_running /\ (\E w \in Workers : pc[w] = "asleep")
    => Len(m_tasks) <= Cardinality(OnTheWay)

MissesShutdown(w) ==
  \/ pc[w] = "waiting"
  \/ pc[w] = "asleep" /\ dtor # "notify"

(* The destructor writes m_running and notifies without the mutex           *)
(* (ThreadPool.hpp:70-71): the worker that had just decided to wait sleeps  *)
(* through it, and no second one can.                                       *)
AtMostOneMissesShutdown ==
  ~m_running => \A v, w \in Workers : MissesShutdown(v) /\ MissesShutdown(w) => v = w

(* The only thing that can keep the destructor in join() is that one worker *)
(* (ThreadPool.hpp:70-75): every other one has ended.                       *)
DestructorReturns ==
  dtor # "alive" ~>
    \/ dtor = "gone"
    \/ dtor = "join" /\ \E w \in Workers : /\ pc[w] = "asleep"
                                           /\ \A v \in Workers \ {w} : pc[v] = "exited"

(* A committed task is run unless the pool is destroyed first: no stream of *)
(* later tasks, nor tasks that commit tasks, keep it from a worker          *)
(* (ThreadPool.hpp:39-40, 61-65).                                           *)
TasksRun == \A k \in Tasks : k \in Queued ~> k \notin Queued \/ ~m_running

(* The workers that will look for a task before they test m_running again.  *)
Ready ==
  {w \in Workers : \/ pc[w] \in {"lock", "waiting", "asleep", "woken"}
                   \/ pc[w] = "test" /\ m_running}

(* Tasks are begun in the order of their commits, each once; when the       *)
(* destructor has begun, each worker begins one task more at most, and when *)
(* it has returned nothing runs (ThreadPool.hpp:29-44, 50-65, 69-76).       *)
Pool == INSTANCE TaskPool WITH
  queue <- m_tasks, offers <- arg, ready <- Ready, runs <- task,
  open <- m_running, gone <- (dtor = "gone")

ImplementsPool == Pool!Spec
================================================================================

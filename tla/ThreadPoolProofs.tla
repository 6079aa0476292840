---------------------------- MODULE ThreadPoolProofs ----------------------------
(***************************************************************************)
(* Proofs about ThreadPool for any number of workers, clients and tasks.    *)
(***************************************************************************)
EXTENDS ThreadPool, FiniteSetTheorems, TLAPS

(* A wakeup takes workers from "asleep" to "woken" and does nothing else.   *)
Resumes(f, g) ==
  \A t \in Threads : g[t] = f[t] \/ (t \in Workers /\ f[t] = "asleep" /\ g[t] = "woken")

LEMMA WakeOneResumes ==
  ASSUME NEW f \in [Threads -> ThreadPC], NEW g \in WakeOne(f)
  PROVE  /\ g \in [Threads -> ThreadPC]
         /\ Resumes(f, g)
         /\ (\E w \in Workers : g[w] = "asleep") =>
              \E w \in Workers : f[w] = "asleep" /\ g[w] = "woken"
BY DEF WakeOne, Resumes, ThreadPC, Threads

LEMMA WakeAllResumes ==
  ASSUME NEW f \in [Threads -> ThreadPC]
  PROVE  /\ WakeAll(f) \in [Threads -> ThreadPC]
         /\ Resumes(f, WakeAll(f))
         /\ \A w \in Workers : WakeAll(f)[w] # "asleep"
BY DEF WakeAll, Resumes, ThreadPC, Threads

LEMMA InitType == Init => TypeOK
<1> SUFFICES ASSUME Init PROVE TypeOK
  OBVIOUS
<1> USE PoolAssumption DEF Init, Threads
<1>1. /\ pc \in [Threads -> ThreadPC]
      /\ \A t \in Threads : pc[t] # "commit"
  BY DEF ThreadPC
<1>2. m_running \in BOOLEAN /\ m_running = (dtor = "alive")
  OBVIOUS
<1>3. /\ m_tasks \in Seq(Tasks)
      /\ m_mutex \in Threads \cup {NoThread}
      /\ task \in [Workers -> Tasks \cup {NoTask}]
      /\ arg \in [Threads -> Tasks \cup {NoTask}]
      /\ dtor \in DtorPC /\ dtor # "gone"
  BY DEF DtorPC
<1>4. QED
  BY <1>1, <1>2, <1>3 DEF TypeOK

LEMMA NotifyType ==
  ASSUME TypeOK, NEW t \in Threads, CommitNotify(t)
  PROVE  /\ pc' \in [Threads -> ThreadPC]
         /\ [pc EXCEPT ![t] = Home(t)] \in [Threads -> ThreadPC]
         /\ Resumes([pc EXCEPT ![t] = Home(t)], pc')
         /\ (\E w \in Workers : pc'[w] = "asleep") =>
              \E w \in Workers : [pc EXCEPT ![t] = Home(t)][w] = "asleep" /\ pc'[w] = "woken"
<1>1. [pc EXCEPT ![t] = Home(t)] \in [Threads -> ThreadPC]
  BY DEF TypeOK, Home, ThreadPC
<1>2. pc' \in WakeOne([pc EXCEPT ![t] = Home(t)])
  BY DEF CommitNotify
<1>3. QED
  BY <1>1, <1>2, WakeOneResumes

LEMMA NextType == TypeOK /\ [Next]_vars => TypeOK'
<1> SUFFICES ASSUME TypeOK, [Next]_vars PROVE TypeOK'
  OBVIOUS
<1> USE PoolAssumption DEF Threads
<1>1. ASSUME NEW w \in Workers, WorkerStep(w) \/ SpuriousWakeup(w) PROVE TypeOK'
  <2>1. CASE TakeTask(w)
    <3>1. Head(m_tasks) \in Tasks /\ Tail(m_tasks) \in Seq(Tasks)
      BY <2>1 DEF TakeTask, TypeOK
    <3>2. QED
      BY <2>1, <3>1 DEF TakeTask, TakesMutex, TypeOK, ThreadPC
  <2>2. CASE WorkerTests(w) \/ DecideToWait(w) \/ FallAsleep(w)
    BY <2>2 DEF WorkerTests, DecideToWait, FallAsleep, TakesMutex, TypeOK, ThreadPC
  <2>3. CASE WorkerReturns(w) \/ TaskEnds(w) \/ SpuriousWakeup(w)
    BY <2>3 DEF WorkerReturns, TaskEnds, SpuriousWakeup, TakesMutex, TypeOK, ThreadPC
  <2>4. QED
    BY <1>1, <2>1, <2>2, <2>3 DEF WorkerStep
<1>2. ASSUME NEW t \in Threads, NEW k \in Tasks, CommitTest(t, k) PROVE TypeOK'
  BY <1>2 DEF CommitTest, Home, TypeOK, ThreadPC
<1>3. ASSUME NEW t \in Threads, CommitPush(t) PROVE TypeOK'
  <2>1. Append(m_tasks, arg[t]) \in Seq(Tasks)
    BY <1>3 DEF CommitPush, TypeOK
  <2>2. QED
    BY <1>3, <2>1 DEF CommitPush, TypeOK, ThreadPC
<1>4. ASSUME NEW t \in Threads, CommitNotify(t) PROVE TypeOK'
  <2>1. /\ pc' \in [Threads -> ThreadPC]
        /\ Resumes([pc EXCEPT ![t] = Home(t)], pc')
    BY <1>4, NotifyType
  <2>2. \A u \in Threads : /\ pc'[u] = "commit" => pc[u] = "commit"
                           /\ pc[u] = "exited" => pc'[u] = "exited"
    BY <1>4, <2>1 DEF CommitNotify, Resumes, Home, TypeOK
  <2>3. QED
    BY <1>4, <2>1, <2>2 DEF CommitNotify, TypeOK
<1>5. CASE DestroyPool \/ JoinWorkers
  BY <1>5 DEF DestroyPool, JoinWorkers, TypeOK, DtorPC
<1>6. CASE NotifyWorkers
  <2>1. /\ pc' \in [Threads -> ThreadPC]
        /\ Resumes(pc, pc')
    BY <1>6, WakeAllResumes DEF NotifyWorkers, TypeOK
  <2>2. QED
    BY <1>6, <2>1 DEF NotifyWorkers, Resumes, TypeOK, DtorPC
<1>7. CASE UNCHANGED vars
  BY <1>7 DEF vars, TypeOK
<1>8. QED
  BY <1>1, <1>2, <1>3, <1>4, <1>5, <1>6, <1>7 DEF Next

(* The state stays well-typed and no worker outlives the pool               *)
(* (ThreadPool.hpp:69-76).                                                  *)
THEOREM TypeCorrect == Spec => []TypeOK
BY InitType, NextType, PTL DEF Spec

--------------------------------------------------------------------------------
LEMMA NextJustified == TypeOK /\ WaitIsJustified /\ [Next]_vars => WaitIsJustified'
<1> SUFFICES ASSUME TypeOK, WaitIsJustified, [Next]_vars PROVE WaitIsJustified'
  OBVIOUS
<1> USE PoolAssumption DEF Threads, TypeOK, WaitIsJustified
<1>1. ASSUME NEW w \in Workers, WorkerStep(w) \/ SpuriousWakeup(w) PROVE WaitIsJustified'
  <2>1. CASE TakeTask(w)
    <3>1. m_mutex' = NoThread /\ \A t \in Threads : pc[t] # "waiting"
      BY <2>1 DEF TakeTask, TakesMutex
    <3>2. \A t \in Threads : pc'[t] # "waiting"
      BY <2>1, <3>1 DEF TakeTask
    <3>3. QED
      BY <3>1, <3>2
  <2>2. CASE WorkerTests(w) \/ DecideToWait(w) \/ FallAsleep(w)
    BY <2>2 DEF WorkerTests, DecideToWait, FallAsleep, TakesMutex
  <2>3. CASE WorkerReturns(w) \/ TaskEnds(w) \/ SpuriousWakeup(w)
    BY <2>3 DEF WorkerReturns, TaskEnds, SpuriousWakeup, TakesMutex
  <2>4. QED
    BY <1>1, <2>1, <2>2, <2>3 DEF WorkerStep
<1>2. ASSUME NEW t \in Threads, NEW k \in Tasks, CommitTest(t, k) PROVE WaitIsJustified'
  BY <1>2 DEF CommitTest, Home
<1>3. ASSUME NEW t \in Threads, CommitPush(t) PROVE WaitIsJustified'
  <2>1. m_mutex' = NoThread /\ \A u \in Threads : pc[u] # "waiting"
    BY <1>3 DEF CommitPush
  <2>2. \A u \in Threads : pc'[u] # "waiting"
    BY <1>3, <2>1 DEF CommitPush
  <2>3. QED
    BY <2>1, <2>2
<1>4. ASSUME NEW t \in Threads, CommitNotify(t) PROVE WaitIsJustified'
  <2>1. \A u \in Threads : pc'[u] = "waiting" <=> pc[u] = "waiting"
    BY <1>4, NotifyType DEF Resumes, CommitNotify, Home
  <2>2. QED
    BY <1>4, <2>1 DEF CommitNotify
<1>5. CASE DestroyPool \/ JoinWorkers
  BY <1>5 DEF DestroyPool, JoinWorkers
<1>6. CASE NotifyWorkers
  BY <1>6, WakeAllResumes DEF NotifyWorkers, Resumes
<1>7. CASE UNCHANGED vars
  BY <1>7 DEF vars
<1>8. QED
  BY <1>1, <1>2, <1>3, <1>4, <1>5, <1>6, <1>7 DEF Next

(* A worker about to fall asleep has the mutex to itself and the queue is   *)
(* still empty (ThreadPool.hpp:32-35, 61).                                  *)
THEOREM WaitingIsJustified == Spec => []WaitIsJustified
<1>1. Init => WaitIsJustified
  BY PoolAssumption DEF Init, WaitIsJustified, Threads
<1>2. QED
  BY <1>1, InitType, NextType, NextJustified, PTL DEF Spec

--------------------------------------------------------------------------------
LEMMA NextMissesShutdown ==
  TypeOK /\ WaitIsJustified /\ AtMostOneMissesShutdown /\ [Next]_vars
    => AtMostOneMissesShutdown'
<1> SUFFICES ASSUME TypeOK, WaitIsJustified, AtMostOneMissesShutdown, [Next]_vars
             PROVE  AtMostOneMissesShutdown'
  OBVIOUS
<1> USE PoolAssumption DEF Threads, TypeOK
(* The mutex admits one thread at a time between its test and its sleep.    *)
<1>1. \A v, w \in Workers : pc[v] = "waiting" /\ pc[w] = "waiting" => v = w
  BY DEF WaitIsJustified
<1>2. ASSUME m_running' = m_running,
             \A w \in Workers : MissesShutdown(w)' => MissesShutdown(w)
      PROVE  AtMostOneMissesShutdown'
  BY <1>2 DEF AtMostOneMissesShutdown
<1>3. ASSUME NEW w \in Workers, WorkerStep(w) \/ SpuriousWakeup(w)
      PROVE  AtMostOneMissesShutdown'
  <2>1. CASE DecideToWait(w)
    BY <2>1 DEF DecideToWait, AtMostOneMissesShutdown
  <2>2. CASE FallAsleep(w)
    <3>1. \A v \in Workers : MissesShutdown(v)' => MissesShutdown(v)
      BY <2>2 DEF FallAsleep, MissesShutdown
    <3>2. QED
      BY <1>2, <2>2, <3>1 DEF FallAsleep
  <2>3. CASE TakeTask(w) \/ WorkerTests(w) \/ WorkerReturns(w) \/ TaskEnds(w) \/ SpuriousWakeup(w)
    <3>1. m_running' = m_running /\ dtor' = dtor
      BY <2>3 DEF TakeTask, WorkerTests, WorkerReturns, TaskEnds, SpuriousWakeup
    <3>2. \A v \in Workers : pc'[v] = pc[v] \/ pc'[v] \notin {"waiting", "asleep"}
      BY <2>3 DEF TakeTask, WorkerTests, WorkerReturns, TaskEnds, SpuriousWakeup
    <3>3. \A v \in Workers : MissesShutdown(v)' => MissesShutdown(v)
      BY <3>1, <3>2 DEF MissesShutdown
    <3>4. QED
      BY <1>2, <3>1, <3>3
  <2>4. QED
    BY <1>3, <2>1, <2>2, <2>3 DEF WorkerStep
<1>4. ASSUME NEW t \in Threads, (\E k \in Tasks : CommitTest(t, k)) \/ CommitPush(t)
      PROVE  AtMostOneMissesShutdown'
  <2>1. \A v \in Workers : MissesShutdown(v)' => MissesShutdown(v)
    BY <1>4 DEF CommitTest, CommitPush, MissesShutdown
  <2>2. QED
    BY <1>2, <1>4, <2>1 DEF CommitTest, CommitPush
<1>5. ASSUME NEW t \in Threads, CommitNotify(t) PROVE AtMostOneMissesShutdown'
  <2>1. \A v \in Workers : pc'[v] \in {"waiting", "asleep"} => pc'[v] = pc[v]
    BY <1>5, NotifyType DEF Resumes, Home
  <2>2. \A v \in Workers : MissesShutdown(v)' => MissesShutdown(v)
    BY <1>5, <2>1 DEF CommitNotify, MissesShutdown
  <2>3. QED
    BY <1>2, <1>5, <2>2 DEF CommitNotify
(* The notification is still to come for those asleep.                      *)
<1>6. CASE DestroyPool
  BY <1>1, <1>6 DEF DestroyPool, AtMostOneMissesShutdown, MissesShutdown
(* It has just come: only who holds the mutex has missed it.                *)
<1>7. CASE NotifyWorkers
  <2>1. /\ Resumes(pc, pc')
        /\ \A w \in Workers : pc'[w] # "asleep"
    BY <1>7, WakeAllResumes DEF NotifyWorkers
  <2>2. \A w \in Workers : MissesShutdown(w)' => pc[w] = "waiting"
    BY <2>1 DEF Resumes, MissesShutdown
  <2>3. QED
    BY <1>1, <2>2 DEF AtMostOneMissesShutdown
<1>8. CASE JoinWorkers
  <2>1. \A w \in Workers : MissesShutdown(w)' => MissesShutdown(w)
    BY <1>8 DEF JoinWorkers, MissesShutdown
  <2>2. m_running' = m_running
    BY <1>8 DEF JoinWorkers
  <2>3. QED
    BY <1>2, <2>1, <2>2
<1>9. CASE UNCHANGED vars
  BY <1>2, <1>9 DEF vars, MissesShutdown
<1>10. QED
  BY <1>3, <1>4, <1>5, <1>6, <1>7, <1>8, <1>9 DEF Next

(* At most one worker sleeps through the destructor's m_running = false and *)
(* notify_all(), which take no lock (ThreadPool.hpp:70-71).                 *)
THEOREM OneWorkerMissesShutdown == Spec => []AtMostOneMissesShutdown
<1>1. Init => AtMostOneMissesShutdown
  BY DEF Init, AtMostOneMissesShutdown
<1>2. Init => WaitIsJustified
  BY PoolAssumption DEF Init, WaitIsJustified, Threads
<1>3. QED
  BY <1>1, <1>2, InitType, NextType, NextJustified, NextMissesShutdown, PTL DEF Spec

--------------------------------------------------------------------------------
LEMMA CardLoseOne ==
  ASSUME NEW A, NEW B, NEW x, IsFiniteSet(B), A \subseteq B \cup {x}
  PROVE  IsFiniteSet(A) /\ Cardinality(A) <= Cardinality(B) + 1
<1>1. /\ IsFiniteSet(B \cup {x})
      /\ Cardinality(B \cup {x}) <= Cardinality(B) + 1
  <2>1. Cardinality(B) \in Nat
    BY FS_CardinalityType
  <2>2. /\ IsFiniteSet(B \cup {x})
        /\ x \in B => Cardinality(B \cup {x}) = Cardinality(B)
        /\ x \notin B => Cardinality(B \cup {x}) = Cardinality(B) + 1
    BY FS_AddElement
  <2>3. QED
    BY <2>1, <2>2
<1>2. IsFiniteSet(A) /\ Cardinality(A) <= Cardinality(B \cup {x})
  BY <1>1, FS_Subset
<1>3. QED
  BY <1>1, <1>2, FS_CardinalityType

LEMMA CardGainOne ==
  ASSUME NEW A, NEW B, NEW x \in B, IsFiniteSet(B), A \subseteq B \ {x}
  PROVE  IsFiniteSet(A) /\ Cardinality(A) + 1 <= Cardinality(B)
<1>1. /\ IsFiniteSet(B \ {x})
      /\ Cardinality(B \ {x}) = Cardinality(B) - 1
  BY FS_RemoveElement
<1>2. IsFiniteSet(A) /\ Cardinality(A) <= Cardinality(B \ {x})
  BY <1>1, FS_Subset
<1>3. QED
  BY <1>1, <1>2, FS_CardinalityType

(* OnTheWay of any pc. *)
Lookers(f) == {t \in Threads : f[t] \in {"test", "lock", "woken", "notify"}}

LEMMA LookersFinite ==
  ASSUME NEW f
  PROVE  IsFiniteSet(Lookers(f)) /\ Cardinality(Lookers(f)) \in Nat
<1>1. IsFiniteSet(Threads)
  BY PoolAssumption, FS_Union DEF Threads
<1>2. Lookers(f) \in SUBSET Threads
  BY DEF Lookers
<1>3. QED
  BY <1>1, <1>2, FS_Subset, FS_CardinalityType

LEMMA NextNoLostWakeup ==
  TypeOK /\ WaitIsJustified /\ NoLostWakeup /\ [Next]_vars => NoLostWakeup'
<1> SUFFICES ASSUME TypeOK, WaitIsJustified, NoLostWakeup, [Next]_vars,
                    m_running', NEW s \in Workers, pc'[s] = "asleep"
             PROVE  Len(m_tasks') <= Cardinality(Lookers(pc'))
  BY DEF NoLostWakeup, OnTheWay, Lookers
<1> USE PoolAssumption DEF Threads, TypeOK
<1>1. /\ IsFiniteSet(Lookers(pc)) /\ Cardinality(Lookers(pc)) \in Nat
      /\ IsFiniteSet(Lookers(pc')) /\ Cardinality(Lookers(pc')) \in Nat
  BY LookersFinite
<1>2. ASSUME m_running, NEW w \in Workers, pc[w] = "asleep"
      PROVE  Len(m_tasks) <= Cardinality(Lookers(pc))
  BY <1>2 DEF NoLostWakeup, OnTheWay, Lookers
<1>3. Len(m_tasks) \in Nat
  OBVIOUS
(* A step that loses nobody and leaves the queue alone.                     *)
<1>4. ASSUME m_running, m_tasks' = m_tasks, pc[s] = "asleep", Lookers(pc) \subseteq Lookers(pc')
      PROVE  Len(m_tasks') <= Cardinality(Lookers(pc'))
  <2>1. Cardinality(Lookers(pc)) <= Cardinality(Lookers(pc'))
    BY <1>1, <1>4, FS_Subset
  <2>2. QED
    BY <1>1, <1>2, <1>3, <1>4, <2>1
<1>5. ASSUME NEW w \in Workers, WorkerStep(w) \/ SpuriousWakeup(w)
      PROVE  Len(m_tasks') <= Cardinality(Lookers(pc'))
  <2>1. CASE TakeTask(w)
    <3>1. m_running /\ pc[s] = "asleep"
      BY <2>1 DEF TakeTask
    <3>2. Lookers(pc) \subseteq Lookers(pc') \cup {w}
      BY <2>1 DEF TakeTask, Lookers
    <3>3. Cardinality(Lookers(pc)) <= Cardinality(Lookers(pc')) + 1
      BY <1>1, <3>2, CardLoseOne
    <3>4. Len(m_tasks') = Len(m_tasks) - 1
      BY <2>1 DEF TakeTask
    <3>5. QED
      BY <1>1, <1>2, <1>3, <3>1, <3>3, <3>4
  <2>2. CASE DecideToWait(w) \/ FallAsleep(w)
    <3>1. m_tasks' = <<>>
      BY <2>2 DEF DecideToWait, FallAsleep, WaitIsJustified
    <3>2. QED
      BY <1>1, <3>1
  <2>3. CASE WorkerTests(w) \/ TaskEnds(w) \/ SpuriousWakeup(w)
    <3>1. m_running /\ m_tasks' = m_tasks
      BY <2>3 DEF WorkerTests, TaskEnds, SpuriousWakeup
    <3>2. pc[s] = "asleep" /\ Lookers(pc) \subseteq Lookers(pc')
      BY <2>3, <3>1 DEF WorkerTests, TaskEnds, SpuriousWakeup, Lookers
    <3>3. QED
      BY <1>4, <3>1, <3>2
  <2>4. CASE WorkerReturns(w)
    BY <2>4 DEF WorkerReturns
  <2>5. QED
    BY <1>5, <2>1, <2>2, <2>3, <2>4 DEF WorkerStep
<1>6. ASSUME NEW t \in Threads, NEW k \in Tasks, CommitTest(t, k)
      PROVE  Len(m_tasks') <= Cardinality(Lookers(pc'))
  <2>1. pc[s] = "asleep" /\ Lookers(pc) \subseteq Lookers(pc')
    BY <1>6 DEF CommitTest, Home, Lookers
  <2>2. QED
    BY <1>4, <1>6, <2>1 DEF CommitTest
<1>7. ASSUME NEW t \in Threads, CommitPush(t)
      PROVE  Len(m_tasks') <= Cardinality(Lookers(pc'))
  <2>1. m_running /\ pc[s] = "asleep"
    BY <1>7 DEF CommitPush
  <2>2. t \in Lookers(pc') /\ Lookers(pc) \subseteq Lookers(pc') \ {t}
    BY <1>7 DEF CommitPush, Lookers
  <2>3. Cardinality(Lookers(pc)) + 1 <= Cardinality(Lookers(pc'))
    BY <1>1, <2>2, CardGainOne
  <2>4. Len(m_tasks') = Len(m_tasks) + 1
    BY <1>7 DEF CommitPush
  <2>5. QED
    BY <1>1, <1>2, <1>3, <2>1, <2>3, <2>4
(* The thread that notifies is replaced by the one it wakes.                *)
<1>8. ASSUME NEW t \in Threads, CommitNotify(t)
      PROVE  Len(m_tasks') <= Cardinality(Lookers(pc'))
  <2> DEFINE f == [pc EXCEPT ![t] = Home(t)]
  <2>1. /\ f \in [Threads -> ThreadPC]
        /\ Resumes(f, pc')
        /\ \E w \in Workers : f[w] = "asleep" /\ pc'[w] = "woken"
    BY <1>8, NotifyType
  <2>2. PICK w \in Workers : f[w] = "asleep" /\ pc'[w] = "woken"
    BY <2>1
  <2>3. pc[t] = "notify" /\ pc[w] = "asleep" /\ \A u \in Threads \ {t} : f[u] = pc[u]
    BY <1>8, <2>2 DEF CommitNotify, Home
  <2> HIDE DEF f
  <2>4. w \in Lookers(pc') /\ Lookers(pc) \subseteq (Lookers(pc') \ {w}) \cup {t}
    BY <2>1, <2>2, <2>3 DEF Lookers, Resumes
  <2>5. /\ IsFiniteSet(Lookers(pc') \ {w})
        /\ Cardinality(Lookers(pc') \ {w}) = Cardinality(Lookers(pc')) - 1
    BY <1>1, <2>4, FS_RemoveElement
  <2>6. Cardinality(Lookers(pc)) <= Cardinality(Lookers(pc') \ {w}) + 1
    BY <2>4, <2>5, CardLoseOne
  <2>7. m_running /\ m_tasks' = m_tasks
    BY <1>8 DEF CommitNotify
  <2>8. QED
    BY <1>1, <1>2, <1>3, <2>3, <2>5, <2>6, <2>7
<1>9. CASE DestroyPool \/ NotifyWorkers \/ JoinWorkers
  BY <1>9 DEF DestroyPool, NotifyWorkers, JoinWorkers
<1>10. CASE UNCHANGED vars
  BY <1>4, <1>10 DEF vars
<1>11. QED
  BY <1>5, <1>6, <1>7, <1>8, <1>9, <1>10 DEF Next

(* However many workers and clients there are, as long as a worker sleeps   *)
(* every queued task has somebody on the way to it (ThreadPool.hpp:61-65).  *)
THEOREM NoWakeupIsLost == Spec => []NoLostWakeup
<1>1. Init => NoLostWakeup
  BY PoolAssumption DEF Init, NoLostWakeup, Threads
<1>2. Init => WaitIsJustified
  BY PoolAssumption DEF Init, WaitIsJustified, Threads
<1>3. QED
  BY <1>1, <1>2, InitType, NextType, NextJustified, NextNoLostWakeup, PTL DEF Spec

--------------------------------------------------------------------------------
LEMMA NextEachTaskOnce == TypeOK /\ EachTaskOnce /\ [Next]_vars => EachTaskOnce'
<1> SUFFICES ASSUME TypeOK, EachTaskOnce, [Next]_vars PROVE EachTaskOnce'
  OBVIOUS
<1> USE PoolAssumption DEF Threads, TypeOK
<1>1. Queued \subseteq Tasks /\ NoTask \notin Queued
  BY DEF Queued
<1>2. ASSUME UNCHANGED <<m_tasks, task, arg>> PROVE EachTaskOnce'
  BY <1>2 DEF EachTaskOnce, Queued
<1>3. ASSUME NEW w \in Workers, TakeTask(w) PROVE EachTaskOnce'
  <2>1. /\ m_tasks # <<>> /\ m_tasks' = Tail(m_tasks) /\ arg' = arg
        /\ task' = [task EXCEPT ![w] = m_tasks[1]]
    BY <1>3 DEF TakeTask
  <2>2. /\ DOMAIN m_tasks = 1..Len(m_tasks) /\ 1 \in DOMAIN m_tasks
        /\ DOMAIN m_tasks' = 1..(Len(m_tasks) - 1)
        /\ \A i \in DOMAIN m_tasks' : m_tasks'[i] = m_tasks[i + 1] /\ i + 1 \in DOMAIN m_tasks
    BY <2>1
  <2>3. Queued' \subseteq Queued /\ m_tasks[1] \notin Queued' /\ m_tasks[1] \in Queued
    BY <2>2 DEF Queued, EachTaskOnce
  <2>4. \A i, j \in DOMAIN m_tasks' : m_tasks'[i] = m_tasks'[j] => i = j
    BY <2>2 DEF EachTaskOnce
  <2>5. \A v \in Workers : task'[v] = IF v = w THEN m_tasks[1] ELSE task[v]
    BY <2>1
  <2>6. /\ \A v \in Workers : task[v] # m_tasks[1]
        /\ \A t \in Threads : arg[t] # m_tasks[1]
    BY <2>3 DEF EachTaskOnce
  <2>7. QED
    BY <2>1, <2>3, <2>4, <2>5, <2>6 DEF EachTaskOnce
<1>4. ASSUME NEW w \in Workers, TaskEnds(w) PROVE EachTaskOnce'
  <2>1. Queued' = Queued /\ \A v \in Workers : task'[v] = IF v = w THEN NoTask ELSE task[v]
    BY <1>4 DEF TaskEnds, Queued
  <2>2. QED
    BY <1>1, <1>4, <2>1 DEF TaskEnds, EachTaskOnce
<1>5. ASSUME NEW t \in Threads, NEW k \in Tasks, CommitTest(t, k) PROVE EachTaskOnce'
  <2>1. Queued' = Queued /\ \A u \in Threads : arg'[u] = IF u = t THEN k ELSE arg[u]
    BY <1>5 DEF CommitTest, Queued
  <2>2. /\ k \notin Queued
        /\ \A w \in Workers : task[w] # k
        /\ \A u \in Threads : arg[u] # k
    BY <1>5 DEF CommitTest, InFlight
  <2>3. QED
    BY <1>5, <2>1, <2>2 DEF CommitTest, EachTaskOnce
<1>6. ASSUME NEW t \in Threads, CommitPush(t) PROVE EachTaskOnce'
  <2>1. /\ arg[t] \in Tasks /\ m_tasks' = Append(m_tasks, arg[t]) /\ task' = task
        /\ \A u \in Threads : arg'[u] = IF u = t THEN NoTask ELSE arg[u]
    BY <1>6 DEF CommitPush
  <2>2. /\ DOMAIN m_tasks = 1..Len(m_tasks)
        /\ DOMAIN m_tasks' = 1..(Len(m_tasks) + 1)
        /\ \A i \in DOMAIN m_tasks' :
              m_tasks'[i] = IF i = Len(m_tasks) + 1 THEN arg[t] ELSE m_tasks[i]
    BY <2>1
  <2>3. Queued' \subseteq Queued \cup {arg[t]}
    BY <2>2 DEF Queued
  <2>4. \A i \in DOMAIN m_tasks : m_tasks[i] # arg[t]
    BY DEF EachTaskOnce, Queued
  <2>5. \A i, j \in DOMAIN m_tasks' : m_tasks'[i] = m_tasks'[j] => i = j
    BY <2>2, <2>4 DEF EachTaskOnce
  <2>6. /\ \A w \in Workers : task[w] # arg[t]
        /\ \A u \in Threads : u # t => arg[u] # arg[t]
    BY <2>1 DEF EachTaskOnce
  <2>7. NoTask \notin Queued \cup {arg[t]}
    BY <1>1, <2>1
  <2>8. QED
    BY <2>1, <2>3, <2>5, <2>6, <2>7 DEF EachTaskOnce
<1>7. QED
  <2>1. \/ UNCHANGED <<m_tasks, task, arg>>
        \/ \E w \in Workers : TakeTask(w) \/ TaskEnds(w)
        \/ \E t \in Threads : CommitPush(t) \/ \E k \in Tasks : CommitTest(t, k)
    BY DEF Next, WorkerStep, WorkerTests, DecideToWait, FallAsleep, SpuriousWakeup,
           WorkerReturns, CommitNotify, DestroyPool, NotifyWorkers, JoinWorkers, vars
  <2>2. QED
    BY <1>2, <1>3, <1>4, <1>5, <1>6, <2>1

(* A committed task is taken by one worker, once (ThreadPool.hpp:39-40).    *)
THEOREM TasksRunOnce == Spec => []EachTaskOnce
<1>1. Init => EachTaskOnce
  BY PoolAssumption DEF Init, EachTaskOnce, Queued, Threads
<1>2. QED
  BY <1>1, InitType, NextType, NextEachTaskOnce, PTL DEF Spec

--------------------------------------------------------------------------------
(* What a thread holds tells where it is: a worker has a task from the      *)
(* moment it takes it until it ends, inside CommitTask() too, and a thread  *)
(* has the task it commits between the test and the push.                   *)
Held ==
  /\ \A w \in Workers : task[w] # NoTask <=> pc[w] \in {"running", "commit", "notify"}
  /\ \A t \in Threads : arg[t] # NoTask <=> pc[t] = "commit"

LEMMA InitHeld == Init => Held
BY PoolAssumption DEF Init, Held, Threads

LEMMA NextHeld == TypeOK /\ Held /\ [Next]_vars => Held'
<1> SUFFICES ASSUME TypeOK, Held, [Next]_vars PROVE Held'
  OBVIOUS
<1> USE PoolAssumption DEF Threads, TypeOK, Held
<1>1. ASSUME NEW w \in Workers, WorkerStep(w) \/ SpuriousWakeup(w) PROVE Held'
  <2>1. CASE TakeTask(w)
    <3>1. Head(m_tasks) \in Tasks
      BY <2>1 DEF TakeTask
    <3>2. QED
      BY <2>1, <3>1 DEF TakeTask, TakesMutex
  <2>2. CASE WorkerTests(w) \/ DecideToWait(w) \/ FallAsleep(w)
    BY <2>2 DEF WorkerTests, DecideToWait, FallAsleep, TakesMutex
  <2>3. CASE WorkerReturns(w) \/ TaskEnds(w) \/ SpuriousWakeup(w)
    BY <2>3 DEF WorkerReturns, TaskEnds, SpuriousWakeup, TakesMutex
  <2>4. QED
    BY <1>1, <2>1, <2>2, <2>3 DEF WorkerStep
<1>2. ASSUME NEW t \in Threads, NEW k \in Tasks, CommitTest(t, k) PROVE Held'
  BY <1>2 DEF CommitTest, Home
<1>3. ASSUME NEW t \in Threads, CommitPush(t) PROVE Held'
  BY <1>3 DEF CommitPush
<1>4. ASSUME NEW t \in Threads, CommitNotify(t) PROVE Held'
  <2>1. Resumes([pc EXCEPT ![t] = Home(t)], pc')
    BY <1>4, NotifyType
  <2>2. \A u \in Threads : pc'[u] = "commit" <=> pc[u] = "commit"
    BY <1>4, <2>1 DEF CommitNotify, Resumes, Home
  <2>3. \A w \in Workers : pc'[w] \in {"running", "commit", "notify"}
                            <=> pc[w] \in {"running", "commit", "notify"}
    BY <1>4, <2>1 DEF CommitNotify, Resumes, Home
  <2>4. QED
    BY <1>4, <2>2, <2>3 DEF CommitNotify
<1>5. CASE DestroyPool \/ JoinWorkers
  BY <1>5 DEF DestroyPool, JoinWorkers
<1>6. CASE NotifyWorkers
  <2>1. Resumes(pc, pc')
    BY <1>6, WakeAllResumes DEF NotifyWorkers
  <2>2. \A u \in Threads : pc'[u] \in {"asleep", "woken"} \/ pc'[u] = pc[u]
    BY <2>1 DEF Resumes
  <2>3. \A u \in Threads : pc'[u] # pc[u] => pc[u] = "asleep"
    BY <2>1 DEF Resumes
  <2>4. QED
    BY <1>6, <2>2, <2>3 DEF NotifyWorkers
<1>7. CASE UNCHANGED vars
  BY <1>7 DEF vars
<1>8. QED
  BY <1>1, <1>2, <1>3, <1>4, <1>5, <1>6, <1>7 DEF Next

LEMMA InitPool == Init => Pool!Init
BY PoolAssumption DEF Init, Pool!Init, Pool!Threads, Threads, Ready

(* The steps of the threads among themselves, which the abstract pool does  *)
(* not see.                                                                 *)
LEMMA HiddenStep ==
  ASSUME UNCHANGED <<m_tasks, task, arg, m_running>>, Ready' = Ready,
         (dtor = "gone") = (dtor' = "gone")
  PROVE  UNCHANGED Pool!vars
BY DEF Pool!vars

LEMMA WorkerStepOfPool ==
  ASSUME TypeOK, Held, NEW w \in Workers, WorkerStep(w) \/ SpuriousWakeup(w)
  PROVE  Pool!Begin(w) \/ Pool!End(w) \/ Pool!Leave(w) \/ UNCHANGED Pool!vars
<1> USE PoolAssumption DEF Threads, TypeOK, Held
<1>1. CASE TakeTask(w)
  <2>1. w \in Ready /\ Ready' = Ready \ {w}
    BY <1>1 DEF TakeTask, TakesMutex, Ready
  <2>2. Pool!Begin(w)
    BY <1>1, <2>1 DEF TakeTask, Pool!Begin
  <2>3. QED
    BY <2>2
<1>2. CASE TaskEnds(w)
  <2>1. Ready' = IF m_running THEN Ready \cup {w} ELSE Ready
    BY <1>2 DEF TaskEnds, Ready
  <2>2. Pool!End(w)
    BY <1>2, <2>1 DEF TaskEnds, Pool!End
  <2>3. QED
    BY <2>2
<1>3. CASE WorkerReturns(w)
  <2>1. w \in Ready /\ Ready' = Ready \ {w}
    BY <1>3 DEF WorkerReturns, TakesMutex, Ready
  <2>2. Pool!Leave(w)
    BY <1>3, <2>1 DEF WorkerReturns, Pool!Leave
  <2>3. QED
    BY <2>2
<1>4. CASE WorkerTests(w) \/ DecideToWait(w) \/ FallAsleep(w) \/ SpuriousWakeup(w)
  <2>1. Ready' = Ready
    BY <1>4 DEF WorkerTests, DecideToWait, FallAsleep, SpuriousWakeup, TakesMutex, Ready
  <2>2. QED
    BY <1>4, <2>1, HiddenStep DEF WorkerTests, DecideToWait, FallAsleep, SpuriousWakeup
<1>5. QED
  BY <1>1, <1>2, <1>3, <1>4 DEF WorkerStep

LEMMA CommitStepOfPool ==
  ASSUME TypeOK, Held, NEW t \in Threads,
         (\E k \in Tasks : CommitTest(t, k)) \/ CommitPush(t) \/ CommitNotify(t)
  PROVE  (\E k \in Tasks : Pool!Offer(t, k)) \/ Pool!Accept(t) \/ UNCHANGED Pool!vars
<1> USE PoolAssumption DEF Threads, TypeOK, Held
<1>1. ASSUME NEW k \in Tasks, CommitTest(t, k) PROVE Pool!Offer(t, k)
  <2>1. Ready' = Ready
    BY <1>1 DEF CommitTest, Home, Ready
  <2>2. k \notin Pool!InFlight
    BY <1>1 DEF CommitTest, InFlight, Queued, Pool!InFlight, Pool!Threads
  <2>3. arg[t] = NoTask /\ (t \in Workers => task[t] # NoTask)
    BY <1>1 DEF CommitTest, Home
  <2>4. QED
    BY <1>1, <2>1, <2>2, <2>3 DEF CommitTest, Pool!Offer
<1>2. ASSUME CommitPush(t) PROVE Pool!Accept(t)
  <2>1. Ready' = Ready
    BY <1>2 DEF CommitPush, Ready
  <2>2. QED
    BY <1>2, <2>1 DEF CommitPush, Pool!Accept
<1>3. ASSUME CommitNotify(t) PROVE UNCHANGED Pool!vars
  <2>1. Resumes([pc EXCEPT ![t] = Home(t)], pc')
    BY <1>3, NotifyType
  <2>2. \A w \in Workers :
          /\ pc'[w] = "test" <=> pc[w] = "test"
          /\ (pc'[w] \in {"lock", "waiting", "asleep", "woken"})
               <=> (pc[w] \in {"lock", "waiting", "asleep", "woken"})
    BY <1>3, <2>1 DEF CommitNotify, Resumes, Home
  <2>3. Ready' = Ready
    BY <1>3, <2>2 DEF CommitNotify, Ready
  <2>4. QED
    BY <1>3, <2>3, HiddenStep DEF CommitNotify
<1>4. QED
  BY <1>1, <1>2, <1>3

LEMMA DestructorStepOfPool ==
  ASSUME TypeOK, Held, DestroyPool \/ NotifyWorkers \/ JoinWorkers
  PROVE  Pool!Shut \/ Pool!Close \/ UNCHANGED Pool!vars
<1> USE PoolAssumption DEF Threads, TypeOK, Held
<1>1. ASSUME DestroyPool PROVE Pool!Shut
  <2>1. Ready' \in SUBSET Ready
    BY <1>1 DEF DestroyPool, Ready
  <2>2. QED
    BY <1>1, <2>1 DEF DestroyPool, Pool!Shut
<1>2. ASSUME NotifyWorkers PROVE UNCHANGED Pool!vars
  <2>1. Ready' = Ready
    BY <1>2, WakeAllResumes DEF NotifyWorkers, Resumes, Ready
  <2>2. QED
    BY <1>2, <2>1, HiddenStep DEF NotifyWorkers
<1>3. ASSUME JoinWorkers PROVE Pool!Close
  <2>1. Ready = {} /\ Ready' = {}
    BY <1>3 DEF JoinWorkers, Ready
  <2>2. QED
    BY <1>3, <2>1 DEF JoinWorkers, Pool!Close
<1>4. QED
  BY <1>1, <1>2, <1>3

LEMMA NextPool == TypeOK /\ Held /\ [Next]_vars => [Pool!Next]_(Pool!vars)
<1> SUFFICES ASSUME TypeOK, Held, [Next]_vars PROVE Pool!Next \/ UNCHANGED Pool!vars
  OBVIOUS
<1>1. CASE \E w \in Workers : WorkerStep(w) \/ SpuriousWakeup(w)
  BY <1>1, WorkerStepOfPool DEF Pool!Next
<1>2. CASE \E t \in Threads : \/ \E k \in Tasks : CommitTest(t, k)
                            \/ CommitPush(t) \/ CommitNotify(t)
  BY <1>2, CommitStepOfPool DEF Pool!Next, Pool!Threads, Threads
<1>3. CASE DestroyPool \/ NotifyWorkers \/ JoinWorkers
  BY <1>3, DestructorStepOfPool DEF Pool!Next
<1>4. CASE UNCHANGED vars
  BY <1>4, HiddenStep DEF vars, Ready
<1>5. QED
  BY <1>1, <1>2, <1>3, <1>4 DEF Next

(* With its mutex, its condition variable and a destructor that uses        *)
(* neither, the pool begins the tasks in the order of their commits, each   *)
(* once, lets each worker begin one more at most when the destructor has    *)
(* begun, and is gone when nothing runs (ThreadPool.hpp:29-44, 50-76).      *)
THEOREM PoolImplementsTaskPool == Spec => ImplementsPool
BY InitType, NextType, InitHeld, NextHeld, InitPool, NextPool, PTL
DEF Spec, ImplementsPool, Pool!Spec
================================================================================

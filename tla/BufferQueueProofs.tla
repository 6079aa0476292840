--------------------------- MODULE BufferQueueProofs ---------------------------
(***************************************************************************)
(* Proofs about BufferQueue for any number of producers, consumers and      *)
(* controllers and any capacity.                                            *)
(***************************************************************************)
EXTENDS BufferQueue, FiniteSetTheorems, TLAPS

LEMMA WakeOneType ==
  ASSUME NEW f \in [Threads -> ThreadPC], NEW S \in SUBSET Threads, NEW g \in WakeOne(f, S)
  PROVE  g \in [Threads -> ThreadPC]
BY DEF WakeOne, ThreadPC

LEMMA WakeAllType ==
  ASSUME NEW f \in [Threads -> ThreadPC], NEW S
  PROVE  WakeAll(f, S) \in [Threads -> ThreadPC]
BY DEF WakeAll, ThreadPC

(* Waking takes no thread out of its call and puts none into one. *)
LEMMA WakeOneOut ==
  ASSUME NEW f \in [Threads -> ThreadPC], NEW S \in SUBSET Threads, NEW g \in WakeOne(f, S),
         NEW t \in Threads
  PROVE  g[t] = "out" <=> f[t] = "out"
BY DEF WakeOne, ThreadPC

LEMMA WakeAllOut ==
  ASSUME NEW f \in [Threads -> ThreadPC], NEW S, NEW t \in Threads
  PROVE  WakeAll(f, S)[t] = "out" <=> f[t] = "out"
BY DEF WakeAll, ThreadPC

LEMMA InitType == Init => TypeOK
BY QueueAssumption DEF Init, TypeOK, Threads, ThreadPC, StopPC

LEMMA NextType == TypeOK /\ [Next]_vars => TypeOK'
<1> SUFFICES ASSUME TypeOK, [Next]_vars PROVE TypeOK'
  OBVIOUS
<1> USE QueueAssumption DEF TypeOK, Threads
<1>1. ASSUME NEW p \in Producers, NEW b \in Buffers, Call(p, b) PROVE TypeOK'
  BY <1>1 DEF Call, ThreadPC
<1>2. ASSUME NEW c \in Consumers, NEW b \in Buffers \cup {NoBuffer}, Call(c, b) PROVE TypeOK'
  BY <1>2 DEF Call, ThreadPC
<1>3. ASSUME NEW p \in Producers, PushStep(p) PROVE TypeOK'
  <2>1. CASE PushStore(p)
    <3>1. buffer[p] \in Buffers
      BY <2>1 DEF PushStore, TakesMutex
    <3>2. [pc EXCEPT ![p] = "out"] \in [Threads -> ThreadPC]
      BY DEF ThreadPC
    <3>3. pc' \in [Threads -> ThreadPC]
      BY <2>1, <3>2, WakeOneType DEF PushStore
    <3>4. \A t \in Threads : pc'[t] = "out" <=> [pc EXCEPT ![p] = "out"][t] = "out"
      BY <2>1, <3>2, WakeOneOut DEF PushStore
    <3>5. m_buffer_queue' \in Seq(Buffers) /\ Len(m_buffer_queue') <= m_size
      BY <2>1, <3>1 DEF PushStore, IsFull
    <3>6. QED
      BY <2>1, <3>3, <3>4, <3>5 DEF PushStore
  <2>2. CASE PushWait(p) \/ PushGiveUp(p) \/ FallAsleep(p)
    BY <2>2 DEF PushWait, PushGiveUp, FallAsleep, TakesMutex, DecideToWait, ThreadPC
  <2>3. QED
    BY <1>3, <2>1, <2>2 DEF PushStep
<1>4. ASSUME NEW c \in Consumers, PopStep(c) PROVE TypeOK'
  <2>1. CASE PopTake(c)
    <3>1. [pc EXCEPT ![c] = "out"] \in [Threads -> ThreadPC]
      BY DEF ThreadPC
    <3>2. pc' \in [Threads -> ThreadPC]
      BY <2>1, <3>1, WakeOneType DEF PopTake
    <3>3. \A t \in Threads : pc'[t] = "out" <=> [pc EXCEPT ![c] = "out"][t] = "out"
      BY <2>1, <3>1, WakeOneOut DEF PopTake
    <3>4. Head(m_buffer_queue) \in Buffers
      BY <2>1 DEF PopTake, IsEmpty
    <3>5. m_buffer_queue' \in Seq(Buffers) /\ Len(m_buffer_queue') <= m_size
      BY <2>1 DEF PopTake, IsEmpty
    <3>6. QED
      BY <2>1, <3>2, <3>3, <3>4, <3>5 DEF PopTake
  <2>2. CASE PopWait(c) \/ PopGiveUp(c) \/ FallAsleep(c)
    BY <2>2 DEF PopWait, PopGiveUp, FallAsleep, TakesMutex, DecideToWait, ThreadPC
  <2>3. QED
    BY <1>4, <2>1, <2>2 DEF PopStep
<1>5. ASSUME NEW t \in Threads, SpuriousWakeup(t) PROVE TypeOK'
  BY <1>5 DEF SpuriousWakeup, ThreadPC
<1>6. ASSUME NEW k \in Controllers, Start(k) \/ StopFlag(k) PROVE TypeOK'
  BY <1>6 DEF Start, StopFlag, StopPC
<1>7. ASSUME NEW k \in Controllers, StopNotifies(k) PROVE TypeOK'
  <2>1. PICK S : pc' = WakeAll(pc, S)
    BY <1>7 DEF StopNotifies, StopNotifyPush, StopNotifyPop
  <2>2. pc' \in [Threads -> ThreadPC]
    BY <2>1, WakeAllType
  <2>3. \A t \in Threads : pc'[t] = "out" <=> pc[t] = "out"
    BY <2>1, WakeAllOut
  <2>4. QED
    BY <1>7, <2>2, <2>3 DEF StopNotifies, StopNotifyPush, StopNotifyPop, StopPC
<1>8. CASE UNCHANGED vars
  BY <1>8 DEF vars
<1>9. QED
  BY <1>1, <1>2, <1>3, <1>4, <1>5, <1>6, <1>7, <1>8 DEF Next

(* The state stays well-typed, the queue never holds more than m_size       *)
(* buffers and a producer inside its call still has the buffer it came      *)
(* with, whoever calls what (BufferQueue.hpp:25, 45-46).                    *)
THEOREM TypeCorrect == Spec => []TypeOK
BY InitType, NextType, PTL DEF Spec

--------------------------------------------------------------------------------
(* What a wakeup does to the other threads: nothing, or it takes them from  *)
(* "asleep" to "woken".                                                     *)
Resumes(f, g, S) ==
  \A t \in Threads : g[t] = f[t] \/ (t \in S /\ f[t] = "asleep" /\ g[t] = "woken")

LEMMA WakeOneResumes ==
  ASSUME NEW f \in [Threads -> ThreadPC], NEW S \in SUBSET Threads, NEW g \in WakeOne(f, S)
  PROVE  /\ Resumes(f, g, S)
         /\ (\E t \in S : g[t] = "asleep") => \E t \in S : f[t] = "asleep" /\ g[t] = "woken"
BY DEF WakeOne, Resumes, ThreadPC

LEMMA WakeAllResumes ==
  ASSUME NEW f \in [Threads -> ThreadPC], NEW S \in SUBSET Threads
  PROVE  /\ Resumes(f, WakeAll(f, S), S)
         /\ \A t \in S : WakeAll(f, S)[t] # "asleep"
BY DEF WakeAll, Resumes, ThreadPC

(* The mutex excludes: whoever takes it finds no thread about to sleep.     *)
LEMMA MutexFree ==
  ASSUME WaitIsJustified, m_mutex = NoThread
  PROVE  \A t \in Threads : pc[t] # "waiting"
BY QueueAssumption DEF WaitIsJustified

LEMMA NextJustified == TypeOK /\ WaitIsJustified /\ [Next]_vars => WaitIsJustified'
<1> SUFFICES ASSUME TypeOK, WaitIsJustified, [Next]_vars PROVE WaitIsJustified'
  OBVIOUS
<1> USE QueueAssumption DEF TypeOK, Threads, WaitIsJustified, IsEmpty, IsFull
<1>1. ASSUME NEW t \in Threads, NEW b, Call(t, b) PROVE WaitIsJustified'
  BY <1>1 DEF Call, ThreadPC
<1>2. ASSUME NEW p \in Producers, PushStep(p) PROVE WaitIsJustified'
  <2>1. CASE PushStore(p)
    <3>1. [pc EXCEPT ![p] = "out"] \in [Threads -> ThreadPC]
      BY DEF ThreadPC
    <3>2. Resumes([pc EXCEPT ![p] = "out"], pc', Consumers)
      BY <2>1, <3>1, WakeOneResumes DEF PushStore
    <3>3. \A t \in Threads : pc[t] # "waiting"
      BY <2>1, MutexFree DEF PushStore, TakesMutex
    <3>4. \A t \in Threads : pc'[t] # "waiting"
      BY <3>2, <3>3 DEF Resumes
    <3>5. QED
      BY <2>1, <3>4 DEF PushStore, TakesMutex
  <2>2. CASE PushWait(p)
    <3>1. \A t \in Threads : pc[t] # "waiting"
      BY <2>2, MutexFree DEF PushWait, TakesMutex
    <3>2. QED
      BY <2>2, <3>1 DEF PushWait, DecideToWait
  <2>3. CASE PushGiveUp(p) \/ FallAsleep(p)
    BY <2>3 DEF PushGiveUp, FallAsleep, TakesMutex
  <2>4. QED
    BY <1>2, <2>1, <2>2, <2>3 DEF PushStep
<1>3. ASSUME NEW c \in Consumers, PopStep(c) PROVE WaitIsJustified'
  <2>1. CASE PopTake(c)
    <3>1. [pc EXCEPT ![c] = "out"] \in [Threads -> ThreadPC]
      BY DEF ThreadPC
    <3>2. Resumes([pc EXCEPT ![c] = "out"], pc', Producers)
      BY <2>1, <3>1, WakeOneResumes DEF PopTake
    <3>3. \A t \in Threads : pc[t] # "waiting"
      BY <2>1, MutexFree DEF PopTake, TakesMutex
    <3>4. \A t \in Threads : pc'[t] # "waiting"
      BY <3>2, <3>3 DEF Resumes
    <3>5. QED
      BY <2>1, <3>4 DEF PopTake, TakesMutex
  <2>2. CASE PopWait(c)
    <3>1. \A t \in Threads : pc[t] # "waiting"
      BY <2>2, MutexFree DEF PopWait, TakesMutex
    <3>2. QED
      BY <2>2, <3>1 DEF PopWait, DecideToWait
  <2>3. CASE PopGiveUp(c) \/ FallAsleep(c)
    BY <2>3 DEF PopGiveUp, FallAsleep, TakesMutex
  <2>4. QED
    BY <1>3, <2>1, <2>2, <2>3 DEF PopStep
<1>4. ASSUME NEW t \in Threads, SpuriousWakeup(t) PROVE WaitIsJustified'
  BY <1>4 DEF SpuriousWakeup
<1>5. ASSUME NEW k \in Controllers, Start(k) \/ StopFlag(k) PROVE WaitIsJustified'
  BY <1>5 DEF Start, StopFlag
<1>6. ASSUME NEW k \in Controllers, StopNotifies(k) PROVE WaitIsJustified'
  <2>1. PICK S \in SUBSET Threads : pc' = WakeAll(pc, S)
    BY <1>6 DEF StopNotifies, StopNotifyPush, StopNotifyPop
  <2>2. Resumes(pc, pc', S)
    BY <2>1, WakeAllResumes
  <2>3. QED
    BY <1>6, <2>2 DEF StopNotifies, StopNotifyPush, StopNotifyPop, Resumes
<1>7. CASE UNCHANGED vars
  BY <1>7 DEF vars
<1>8. QED
  BY <1>1, <1>2, <1>3, <1>4, <1>5, <1>6, <1>7 DEF Next

(* A thread that has decided to wait has the mutex to itself, and the queue *)
(* is still empty (full) when it falls asleep (BufferQueue.hpp:30-31, 42-43).*)
THEOREM WaitingIsJustified == Spec => []WaitIsJustified
<1>1. Init => WaitIsJustified
  BY QueueAssumption DEF Init, WaitIsJustified, Threads
<1>2. QED
  BY <1>1, InitType, NextType, NextJustified, PTL DEF Spec

--------------------------------------------------------------------------------
(* How the number of woken threads of a role changes.                       *)
WokenIn(f, S) == {t \in S : f[t] = "woken"}

LEMMA WokenFinite ==
  ASSUME NEW f, NEW S, IsFiniteSet(S)
  PROVE  IsFiniteSet(WokenIn(f, S)) /\ Cardinality(WokenIn(f, S)) \in Nat
<1>1. WokenIn(f, S) \in SUBSET S
  BY DEF WokenIn
<1>2. QED
  BY <1>1, FS_Subset, FS_CardinalityType

(* Those that were woken still are. *)
LEMMA WokenStay ==
  ASSUME NEW f, NEW g, NEW S, IsFiniteSet(S),
         \A t \in S : f[t] = "woken" => g[t] = "woken"
  PROVE  Cardinality(WokenIn(f, S)) <= Cardinality(WokenIn(g, S))
<1>1. WokenIn(f, S) \in SUBSET WokenIn(g, S)
  BY DEF WokenIn
<1>2. QED
  BY <1>1, WokenFinite, FS_Subset

(* One of them has gone. *)
LEMMA WokenLoseOne ==
  ASSUME NEW f, NEW g, NEW S, NEW x, IsFiniteSet(S),
         \A t \in S \ {x} : f[t] = "woken" => g[t] = "woken"
  PROVE  Cardinality(WokenIn(f, S)) <= Cardinality(WokenIn(g, S)) + 1
<1>1. WokenIn(f, S) \in SUBSET (WokenIn(g, S) \cup {x})
  BY DEF WokenIn
<1>2. /\ IsFiniteSet(WokenIn(g, S) \cup {x})
      /\ Cardinality(WokenIn(g, S) \cup {x}) <= Cardinality(WokenIn(g, S)) + 1
  BY WokenFinite, FS_AddElement
<1>3. Cardinality(WokenIn(f, S)) <= Cardinality(WokenIn(g, S) \cup {x})
  BY <1>1, <1>2, FS_Subset
<1>4. QED
  BY <1>2, <1>3, WokenFinite, FS_CardinalityType

(* One more has joined them. *)
LEMMA WokenGainOne ==
  ASSUME NEW f, NEW g, NEW S, NEW x \in S, IsFiniteSet(S),
         f[x] # "woken", g[x] = "woken",
         \A t \in S : f[t] = "woken" => g[t] = "woken"
  PROVE  Cardinality(WokenIn(f, S)) + 1 <= Cardinality(WokenIn(g, S))
<1>1. WokenIn(f, S) \cup {x} \in SUBSET WokenIn(g, S)
  BY DEF WokenIn
<1>2. x \notin WokenIn(f, S)
  BY DEF WokenIn
<1>3. Cardinality(WokenIn(f, S) \cup {x}) = Cardinality(WokenIn(f, S)) + 1
  BY <1>2, WokenFinite, FS_AddElement
<1>4. QED
  BY <1>1, <1>3, WokenFinite, FS_Subset

(* NoLostWakeup, one side at a time, of any queue length and pc.            *)
PopSide(len, f) ==
  (\E c \in Consumers : f[c] = "asleep") => len <= Cardinality(WokenIn(f, Consumers))
PushSide(len, f) ==
  (\E p \in Producers : f[p] = "asleep") => m_size <= len + Cardinality(WokenIn(f, Producers))

LEMMA TwoSides ==
  NoLostWakeup <=> PopSide(Len(m_buffer_queue), pc) /\ PushSide(Len(m_buffer_queue), pc)
BY DEF NoLostWakeup, PopSide, PushSide, Woken, WokenIn

(* A step that puts no thread to sleep, loses no woken thread and leaves    *)
(* the queue's length alone breaks neither side.                            *)
LEMMA SidesStay ==
  ASSUME NEW len \in Nat, NEW f, NEW g
  PROVE  /\ (\A c \in Consumers : /\ g[c] = "asleep" => f[c] = "asleep"
                                  /\ f[c] = "woken" => g[c] = "woken")
              /\ PopSide(len, f) => PopSide(len, g)
         /\ (\A p \in Producers : /\ g[p] = "asleep" => f[p] = "asleep"
                                  /\ f[p] = "woken" => g[p] = "woken")
              /\ PushSide(len, f) => PushSide(len, g)
<1> USE QueueAssumption
<1>1. ASSUME \A c \in Consumers : f[c] = "woken" => g[c] = "woken"
      PROVE  Cardinality(WokenIn(f, Consumers)) <= Cardinality(WokenIn(g, Consumers))
  BY <1>1, WokenStay
<1>2. ASSUME \A p \in Producers : f[p] = "woken" => g[p] = "woken"
      PROVE  Cardinality(WokenIn(f, Producers)) <= Cardinality(WokenIn(g, Producers))
  BY <1>2, WokenStay
<1>3. /\ Cardinality(WokenIn(f, Consumers)) \in Nat
      /\ Cardinality(WokenIn(g, Consumers)) \in Nat
      /\ Cardinality(WokenIn(f, Producers)) \in Nat
      /\ Cardinality(WokenIn(g, Producers)) \in Nat
  BY WokenFinite
<1>4. QED
  BY <1>1, <1>2, <1>3 DEF PopSide, PushSide

(* A push adds a buffer, wakes a consumer if one sleeps and may use up the  *)
(* wakeup of one producer.                                                  *)
LEMMA PushStoreNoLostWakeup ==
  ASSUME TypeOK, NoLostWakeup, NEW p \in Producers, PushStore(p)
  PROVE  NoLostWakeup'
<1> USE QueueAssumption DEF Threads
<1> DEFINE f == [pc EXCEPT ![p] = "out"]
           len == Len(m_buffer_queue)
<1>1. f \in [Threads -> ThreadPC]
  BY DEF TypeOK, ThreadPC
<1>2. /\ Resumes(f, pc', Consumers)
      /\ (\E c \in Consumers : pc'[c] = "asleep")
           => \E c \in Consumers : f[c] = "asleep" /\ pc'[c] = "woken"
  <2>1. pc' \in WakeOne(f, Consumers)
    BY DEF PushStore
  <2> HIDE DEF f
  <2>2. QED
    BY <1>1, <2>1, WakeOneResumes
<1>3. len \in Nat /\ Len(m_buffer_queue') = len + 1
  BY DEF PushStore, TypeOK
<1>4. PopSide(len, pc) /\ PushSide(len, pc)
  BY TwoSides
<1> HIDE DEF f, len
<1>5. PopSide(len + 1, pc')
  <2> SUFFICES ASSUME \E c \in Consumers : pc'[c] = "asleep"
               PROVE  len + 1 <= Cardinality(WokenIn(pc', Consumers))
    BY DEF PopSide
  <2>1. PICK c \in Consumers : f[c] = "asleep" /\ pc'[c] = "woken"
    BY <1>2
  <2>2. \A d \in Consumers : pc[d] = f[d]
    BY DEF f, TypeOK
  <2>3. \A d \in Consumers : pc[d] = "woken" => pc'[d] = "woken"
    BY <1>2, <2>2 DEF Resumes
  <2>4. Cardinality(WokenIn(pc, Consumers)) + 1 <= Cardinality(WokenIn(pc', Consumers))
    BY <2>1, <2>2, <2>3, WokenGainOne
  <2>5. len <= Cardinality(WokenIn(pc, Consumers))
    BY <1>4, <2>1, <2>2 DEF PopSide
  <2>6. QED
    BY <1>3, <2>4, <2>5, WokenFinite
<1>6. PushSide(len + 1, pc')
  <2> SUFFICES ASSUME \E q \in Producers : pc'[q] = "asleep"
               PROVE  m_size <= len + 1 + Cardinality(WokenIn(pc', Producers))
    BY DEF PushSide
  <2>1. \A q \in Producers : pc'[q] = f[q]
    BY <1>2 DEF Resumes
  <2>2. \A q \in Producers : f[q] = IF q = p THEN "out" ELSE pc[q]
    BY DEF f, TypeOK
  <2>3. \E q \in Producers : pc[q] = "asleep"
    BY <2>1, <2>2
  <2>4. \A q \in Producers \ {p} : pc[q] = "woken" => pc'[q] = "woken"
    BY <2>1, <2>2
  <2>5. Cardinality(WokenIn(pc, Producers)) <= Cardinality(WokenIn(pc', Producers)) + 1
    BY <2>4, WokenLoseOne
  <2>6. QED
    BY <1>3, <1>4, <2>3, <2>5, WokenFinite DEF PushSide
<1>7. QED
  BY <1>3, <1>5, <1>6 DEF PopSide, PushSide, NoLostWakeup, Woken, WokenIn

(* A pop frees a place, wakes a producer if one sleeps and may use up the   *)
(* wakeup of one consumer.                                                  *)
LEMMA PopTakeNoLostWakeup ==
  ASSUME TypeOK, NoLostWakeup, NEW c \in Consumers, PopTake(c)
  PROVE  NoLostWakeup'
<1> USE QueueAssumption DEF Threads
<1> DEFINE f == [pc EXCEPT ![c] = "out"]
           len == Len(m_buffer_queue)
<1>1. f \in [Threads -> ThreadPC]
  BY DEF TypeOK, ThreadPC
<1>2. /\ Resumes(f, pc', Producers)
      /\ (\E p \in Producers : pc'[p] = "asleep")
           => \E p \in Producers : f[p] = "asleep" /\ pc'[p] = "woken"
  <2>1. pc' \in WakeOne(f, Producers)
    BY DEF PopTake
  <2> HIDE DEF f
  <2>2. QED
    BY <1>1, <2>1, WakeOneResumes
<1>3. len \in Nat \ {0} /\ Len(m_buffer_queue') = len - 1
  BY DEF PopTake, TypeOK, IsEmpty
<1>4. PopSide(len, pc) /\ PushSide(len, pc)
  BY TwoSides
<1> HIDE DEF f, len
<1>5. PushSide(len - 1, pc')
  <2> SUFFICES ASSUME \E p \in Producers : pc'[p] = "asleep"
               PROVE  m_size <= len - 1 + Cardinality(WokenIn(pc', Producers))
    BY DEF PushSide
  <2>1. PICK p \in Producers : f[p] = "asleep" /\ pc'[p] = "woken"
    BY <1>2
  <2>2. \A q \in Producers : pc[q] = f[q]
    BY DEF f, TypeOK
  <2>3. \A q \in Producers : pc[q] = "woken" => pc'[q] = "woken"
    BY <1>2, <2>2 DEF Resumes
  <2>4. Cardinality(WokenIn(pc, Producers)) + 1 <= Cardinality(WokenIn(pc', Producers))
    BY <2>1, <2>2, <2>3, WokenGainOne
  <2>5. m_size <= len + Cardinality(WokenIn(pc, Producers))
    BY <1>4, <2>1, <2>2 DEF PushSide
  <2>6. QED
    BY <1>3, <2>4, <2>5, WokenFinite
<1>6. PopSide(len - 1, pc')
  <2> SUFFICES ASSUME \E d \in Consumers : pc'[d] = "asleep"
               PROVE  len - 1 <= Cardinality(WokenIn(pc', Consumers))
    BY DEF PopSide
  <2>1. \A d \in Consumers : pc'[d] = f[d]
    BY <1>2 DEF Resumes
  <2>2. \A d \in Consumers : f[d] = IF d = c THEN "out" ELSE pc[d]
    BY DEF f, TypeOK
  <2>3. \E d \in Consumers : pc[d] = "asleep"
    BY <2>1, <2>2
  <2>4. \A d \in Consumers \ {c} : pc[d] = "woken" => pc'[d] = "woken"
    BY <2>1, <2>2
  <2>5. Cardinality(WokenIn(pc, Consumers)) <= Cardinality(WokenIn(pc', Consumers)) + 1
    BY <2>4, WokenLoseOne
  <2>6. QED
    BY <1>3, <1>4, <2>3, <2>5, WokenFinite DEF PopSide
<1>7. QED
  BY <1>3, <1>5, <1>6 DEF PopSide, PushSide, NoLostWakeup, Woken, WokenIn

(* No other step changes the length of the queue.                           *)
LEMMA NextNoLostWakeup ==
  TypeOK /\ WaitIsJustified /\ NoLostWakeup /\ [Next]_vars => NoLostWakeup'
<1> SUFFICES ASSUME TypeOK, WaitIsJustified, NoLostWakeup, [Next]_vars PROVE NoLostWakeup'
  OBVIOUS
<1> USE QueueAssumption DEF Threads
<1> DEFINE len == Len(m_buffer_queue)
           Sides(f) == PopSide(len, f) /\ PushSide(len, f)
<1>1. len \in Nat /\ Sides(pc)
  BY TwoSides DEF TypeOK
<1>2. ASSUME m_buffer_queue' = m_buffer_queue, Sides(pc') PROVE NoLostWakeup'
  BY <1>2 DEF PopSide, PushSide, NoLostWakeup, Woken, WokenIn
<1>3. ASSUME NEW t \in Threads, NEW b, Call(t, b) PROVE NoLostWakeup'
  <2>1. \A u \in Threads : /\ pc'[u] = "asleep" => pc[u] = "asleep"
                           /\ pc[u] = "woken" => pc'[u] = "woken"
    BY <1>3 DEF Call, TypeOK
  <2>2. QED
    BY <1>1, <1>2, <1>3, <2>1, SidesStay DEF Call
<1>4. ASSUME NEW t \in Threads, SpuriousWakeup(t) PROVE NoLostWakeup'
  <2>1. \A u \in Threads : /\ pc'[u] = "asleep" => pc[u] = "asleep"
                           /\ pc[u] = "woken" => pc'[u] = "woken"
    BY <1>4 DEF SpuriousWakeup, TypeOK
  <2>2. QED
    BY <1>1, <1>2, <1>4, <2>1, SidesStay DEF SpuriousWakeup
<1>5. ASSUME NEW p \in Producers, PushWait(p) \/ PushGiveUp(p) \/ FallAsleep(p)
      PROVE  NoLostWakeup'
  <2>1. m_buffer_queue' = m_buffer_queue
    BY <1>5 DEF PushWait, PushGiveUp, FallAsleep, DecideToWait
  <2>2. m_size <= len
    BY <1>5 DEF PushWait, PushGiveUp, FallAsleep, WaitIsJustified, IsFull, TypeOK
  <2>3. PushSide(len, pc')
    BY <1>1, <2>2, WokenFinite DEF PushSide
  <2>4. \A c \in Consumers : pc'[c] = pc[c]
    BY <1>5 DEF PushWait, PushGiveUp, FallAsleep, DecideToWait, TypeOK
  <2>5. PopSide(len, pc')
    BY <1>1, <2>4, SidesStay
  <2>6. QED
    BY <1>2, <2>1, <2>3, <2>5
<1>6. ASSUME NEW c \in Consumers, PopWait(c) \/ PopGiveUp(c) \/ FallAsleep(c)
      PROVE  NoLostWakeup'
  <2>1. m_buffer_queue' = m_buffer_queue
    BY <1>6 DEF PopWait, PopGiveUp, FallAsleep, DecideToWait
  <2>2. len = 0
    BY <1>6 DEF PopWait, PopGiveUp, FallAsleep, WaitIsJustified, IsEmpty, TypeOK
  <2>3. PopSide(len, pc')
    BY <1>1, <2>2, WokenFinite DEF PopSide
  <2>4. \A p \in Producers : pc'[p] = pc[p]
    BY <1>6 DEF PopWait, PopGiveUp, FallAsleep, DecideToWait, TypeOK
  <2>5. PushSide(len, pc')
    BY <1>1, <2>4, SidesStay
  <2>6. QED
    BY <1>2, <2>1, <2>3, <2>5
<1>7. ASSUME NEW k \in Controllers, Start(k) \/ StopFlag(k) PROVE NoLostWakeup'
  BY <1>1, <1>2, <1>7 DEF Start, StopFlag
<1>8. ASSUME NEW k \in Controllers, StopNotifies(k) PROVE NoLostWakeup'
  <2>1. PICK S \in SUBSET Threads : pc' = WakeAll(pc, S)
    BY <1>8 DEF StopNotifies, StopNotifyPush, StopNotifyPop
  <2>2. Resumes(pc, pc', S)
    BY <2>1, WakeAllResumes DEF TypeOK
  <2>3. \A u \in Threads : /\ pc'[u] = "asleep" => pc[u] = "asleep"
                           /\ pc[u] = "woken" => pc'[u] = "woken"
    BY <2>2 DEF Resumes
  <2>4. QED
    BY <1>1, <1>2, <1>8, <2>3, SidesStay DEF StopNotifies, StopNotifyPush, StopNotifyPop
<1>9. CASE UNCHANGED vars
  BY <1>1, <1>2, <1>9 DEF vars
<1>10. QED
  BY <1>3, <1>4, <1>5, <1>6, <1>7, <1>8, <1>9, PushStoreNoLostWakeup, PopTakeNoLostWakeup
     DEF Next, PushStep, PopStep

(* notify_one() under the mutex wakes enough threads, for any number of     *)
(* producers and consumers, any capacity, and Start and Stop at any moment  *)
(* (BufferQueue.hpp:36, 47).                                                *)
THEOREM NoWakeupIsLost == Spec => []NoLostWakeup
<1>1. Init => NoLostWakeup
  BY QueueAssumption DEF Init, NoLostWakeup, Threads
<1>2. QED
  BY <1>1, InitType, NextType, WaitingIsJustified, NextNoLostWakeup, PTL DEF Spec

--------------------------------------------------------------------------------
(* Two threads that both miss the wakeup of a Stop() would have to be in    *)
(* the mutex together when m_running is cleared.                            *)
LEMMA NextMissesStop ==
  TypeOK /\ WaitIsJustified /\ AtMostOneMissesStop /\ [Next]_vars => AtMostOneMissesStop'
<1> SUFFICES ASSUME TypeOK, WaitIsJustified, AtMostOneMissesStop, [Next]_vars
             PROVE  AtMostOneMissesStop'
  OBVIOUS
<1> USE QueueAssumption DEF Threads
<1>1. ASSUME m_running' = m_running,
             \A t \in Threads : MissesStop(t)' => MissesStop(t)
      PROVE  AtMostOneMissesStop'
  BY <1>1 DEF AtMostOneMissesStop
<1>2. ASSUME stop_pc' = stop_pc,
             \A t \in Threads : /\ pc'[t] = "waiting" => pc[t] = "waiting"
                                /\ pc'[t] = "asleep" => pc[t] \in {"waiting", "asleep"}
      PROVE  \A t \in Threads : MissesStop(t)' => MissesStop(t)
  BY <1>2 DEF MissesStop, WakeupOwed
<1>3. ASSUME NEW t \in Threads, NEW b, Call(t, b) PROVE AtMostOneMissesStop'
  BY <1>1, <1>2, <1>3 DEF Call, TypeOK
<1>4. ASSUME NEW t \in Threads, SpuriousWakeup(t) \/ FallAsleep(t) PROVE AtMostOneMissesStop'
  BY <1>1, <1>2, <1>4 DEF SpuriousWakeup, FallAsleep, TypeOK
<1>5. ASSUME NEW t \in Threads, PushWait(t) \/ PopWait(t) PROVE AtMostOneMissesStop'
  BY <1>5 DEF PushWait, PopWait, DecideToWait, AtMostOneMissesStop
<1>6. ASSUME NEW t \in Threads, PushGiveUp(t) \/ PopGiveUp(t) PROVE AtMostOneMissesStop'
  BY <1>1, <1>2, <1>6 DEF PushGiveUp, PopGiveUp, TypeOK
<1>7. ASSUME NEW t \in Threads, PushStore(t) \/ PopTake(t) PROVE AtMostOneMissesStop'
  <2> DEFINE f == [pc EXCEPT ![t] = "out"]
  <2>1. f \in [Threads -> ThreadPC]
    BY DEF TypeOK, ThreadPC
  <2>2. PICK S \in SUBSET Threads : pc' \in WakeOne(f, S)
    BY <1>7 DEF PushStore, PopTake
  <2> HIDE DEF f
  <2>3. Resumes(f, pc', S)
    BY <2>1, <2>2, WakeOneResumes
  <2>4. \A u \in Threads : f[u] \in {"out", pc[u]}
    BY DEF f, TypeOK
  <2>5. QED
    BY <1>1, <1>2, <1>7, <2>3, <2>4 DEF Resumes, PushStore, PopTake
<1>8. ASSUME NEW k \in Controllers, Start(k) PROVE AtMostOneMissesStop'
  BY <1>8 DEF Start, AtMostOneMissesStop
<1>9. ASSUME NEW k \in Controllers, StopFlag(k) PROVE AtMostOneMissesStop'
  <2>1. \A t \in Threads : WakeupOwed(t)'
    BY <1>9 DEF StopFlag, WakeupOwed, TypeOK
  <2>2. \A t \in Threads : MissesStop(t)' => m_mutex = t
    BY <1>9, <2>1 DEF StopFlag, MissesStop, WaitIsJustified
  <2>3. QED
    BY <2>2 DEF AtMostOneMissesStop
<1>10. ASSUME NEW k \in Controllers, StopNotifies(k) PROVE AtMostOneMissesStop'
  <2> DEFINE S == IF stop_pc[k] = "notify_push" THEN Producers ELSE Consumers
  <2>1. S \in SUBSET Threads /\ pc' = WakeAll(pc, S)
    BY <1>10 DEF StopNotifies, StopNotifyPush, StopNotifyPop
  <2>2. Resumes(pc, pc', S) /\ \A t \in S : pc'[t] # "asleep"
    BY <2>1, WakeAllResumes DEF TypeOK
  <2>3. ASSUME NEW t \in Threads \ S, WakeupOwed(t) PROVE WakeupOwed(t)'
    BY <1>10, <2>3 DEF StopNotifies, StopNotifyPush, StopNotifyPop, WakeupOwed, TypeOK
  <2>4. \A t \in Threads : MissesStop(t)' => MissesStop(t)
    BY <2>2, <2>3 DEF MissesStop, Resumes
  <2>5. QED
    BY <1>1, <1>10, <2>4 DEF StopNotifies, StopNotifyPush, StopNotifyPop
<1>11. CASE UNCHANGED vars
  BY <1>1, <1>2, <1>11 DEF vars
<1>12. QED
  BY <1>3, <1>4, <1>5, <1>6, <1>7, <1>8, <1>9, <1>10, <1>11 DEF Next, PushStep, PopStep

(* Stop() without the mutex (BufferQueue.hpp:52-56) can be missed by one    *)
(* thread at most.                                                          *)
THEOREM OneThreadMissesStop == Spec => []AtMostOneMissesStop
<1>1. Init => AtMostOneMissesStop
  BY DEF Init, AtMostOneMissesStop
<1>2. QED
  BY <1>1, InitType, NextType, WaitingIsJustified, NextMissesStop, PTL DEF Spec

--------------------------------------------------------------------------------
(* The threads inside a call. *)
InCall(f) == {t \in Threads : f[t] # "out"}

LEMMA SameCalls ==
  ASSUME NEW f, NEW g, NEW S, Resumes(f, g, S)
  PROVE  InCall(f) = InCall(g)
BY DEF InCall, Resumes

LEMMA RefinementStep == TypeOK /\ [Next]_vars => [Fifo!Next]_(Fifo!vars)
<1> SUFFICES ASSUME TypeOK, [Next]_vars PROVE [Fifo!Next]_(Fifo!vars)
  OBVIOUS
<1> USE QueueAssumption DEF Threads, Fifo!Threads
<1>1. ASSUME NEW p \in Producers, NEW b \in Buffers, Call(p, b) PROVE Fifo!Invoke(p, b)
  BY <1>1 DEF Call, Fifo!Invoke, TypeOK
<1>2. ASSUME NEW c \in Consumers, NEW b \in {buffer[c], NoBuffer}, Call(c, b)
      PROVE  Fifo!Invoke(c, b)
  BY <1>2 DEF Call, Fifo!Invoke, TypeOK
<1>3. ASSUME NEW p \in Producers, PushStore(p) PROVE Fifo!Put(p)
  <2> DEFINE f == [pc EXCEPT ![p] = "out"]
  <2>1. f \in [Threads -> ThreadPC] /\ pc' \in WakeOne(f, Consumers)
    BY <1>3 DEF PushStore, TypeOK, ThreadPC
  <2>2. InCall(f) = InCall(pc) \ {p} /\ p \in InCall(pc)
    BY <1>3 DEF InCall, TypeOK, PushStore, TakesMutex
  <2> HIDE DEF f
  <2>3. InCall(f) = InCall(pc')
    BY <2>1, WakeOneResumes, SameCalls
  <2>4. QED
    BY <1>3, <2>2, <2>3 DEF PushStore, Fifo!Put, InCall, IsFull, TypeOK
<1>4. ASSUME NEW c \in Consumers, PopTake(c) PROVE Fifo!Get(c)
  <2> DEFINE f == [pc EXCEPT ![c] = "out"]
  <2>1. f \in [Threads -> ThreadPC] /\ pc' \in WakeOne(f, Producers)
    BY <1>4 DEF PopTake, TypeOK, ThreadPC
  <2>2. InCall(f) = InCall(pc) \ {c} /\ c \in InCall(pc)
    BY <1>4 DEF InCall, TypeOK, PopTake, TakesMutex
  <2> HIDE DEF f
  <2>3. InCall(f) = InCall(pc')
    BY <2>1, WakeOneResumes, SameCalls
  <2>4. QED
    BY <1>4, <2>2, <2>3 DEF PopTake, Fifo!Get, InCall, IsEmpty
<1>5. ASSUME NEW p \in Producers, PushGiveUp(p) PROVE Fifo!Refuse(p)
  BY <1>5 DEF PushGiveUp, Fifo!Refuse, TakesMutex, IsFull, TypeOK
<1>6. ASSUME NEW c \in Consumers, PopGiveUp(c) PROVE Fifo!Refuse(c)
  BY <1>6 DEF PopGiveUp, Fifo!Refuse, TakesMutex, IsEmpty, TypeOK
<1>7. ASSUME NEW t \in Threads,
             PushWait(t) \/ PopWait(t) \/ FallAsleep(t) \/ SpuriousWakeup(t)
      PROVE  UNCHANGED Fifo!vars
  BY <1>7 DEF PushWait, PopWait, TakesMutex, DecideToWait, FallAsleep, SpuriousWakeup,
              Fifo!vars, TypeOK
<1>8. ASSUME NEW k \in Controllers, Start(k) \/ StopFlag(k) PROVE \E o \in BOOLEAN : Fifo!SetOpen(o)
  BY <1>8 DEF Start, StopFlag, Fifo!SetOpen
<1>9. ASSUME NEW k \in Controllers, StopNotifies(k) PROVE UNCHANGED Fifo!vars
  <2>1. PICK S \in SUBSET Threads : pc' = WakeAll(pc, S)
    BY <1>9 DEF StopNotifies, StopNotifyPush, StopNotifyPop
  <2>2. InCall(pc) = InCall(pc')
    BY <2>1, WakeAllResumes, SameCalls DEF TypeOK
  <2>3. QED
    BY <1>9, <2>2 DEF StopNotifies, StopNotifyPush, StopNotifyPop, InCall, Fifo!vars
<1>10. CASE UNCHANGED vars
  BY <1>10 DEF vars, Fifo!vars
<1>11. QED
  BY <1>1, <1>2, <1>3, <1>4, <1>5, <1>6, <1>7, <1>8, <1>9, <1>10
     DEF Next, PushStep, PopStep, Fifo!Next

(* WaitePushBuffer and WaitePopBuffer, with the mutex, the two conditions   *)
(* and Stop() beside them, keep the promises of BoundedFifo: no buffer is   *)
(* lost, repeated or reordered inside the queue, and no call comes back     *)
(* empty-handed while it is running (BufferQueue.hpp:27-50).                *)
THEOREM QueueImplementsFifo == Spec => ImplementsFifo
<1>1. Init => Fifo!Init
  BY DEF Init, Fifo!Init, Threads, Fifo!Threads
<1>2. QED
  BY <1>1, InitType, NextType, RefinementStep, PTL DEF Spec, ImplementsFifo, Fifo!Spec
================================================================================

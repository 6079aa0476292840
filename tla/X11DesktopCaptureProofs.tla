------------------------ MODULE X11DesktopCaptureProofs ------------------------
(***************************************************************************)
(* Proofs about X11DesktopCapture, whatever its queue and its callers do,   *)
(* and, from them, about the capture with its queue.                        *)
(***************************************************************************)
EXTENDS X11VideoCaptureTest, FiniteSetTheorems, TLAPS

(* The thread exists only between the owner's StartThread and Join, and     *)
(* nothing is released before the Join.                                     *)
Handover ==
  /\ thread \in {"loop", "pushing"} => owner \in {"idle", "stop_queue", "join"}
  /\ owner \in {"start_thread", "destroy"} => thread = "none"
  /\ owner = "start_thread" => m_start_capture /\ Usable
  /\ owner = "idle" /\ ~m_start_capture => thread = "none"

IInv == TypeOK /\ Handover /\ NoCaptureAfterFree

LEMMA InitIInv == Init => IInv
BY DEF Init, InitOutcomes, IInv, TypeOK, Handover, NoCaptureAfterFree, Resources, ThreadPC, OwnerPC

LEMMA NextIInv == IInv /\ [Next]_vars => IInv'
<1> SUFFICES ASSUME IInv, [Next]_vars PROVE IInv'
  OBVIOUS
<1> USE DEF IInv, TypeOK, Handover, NoCaptureAfterFree, Usable, ThreadPC, OwnerPC
(* The owner. *)
<1>1. CASE Usable /\ StartVideoCapture
  BY <1>1 DEF StartVideoCapture
<1>2. CASE StartThread
  BY <1>2 DEF StartThread
<1>3. ASSUME NEW next \in {"idle", "destroy"}, StopVideoCapture(next) PROVE IInv'
  BY <1>3 DEF StopVideoCapture
<1>4. CASE StopQueue
  BY <1>4 DEF StopQueue
<1>5. CASE Join
  BY <1>5 DEF Join
<1>6. CASE DestroyStopped \/ DetachFails
  BY <1>6 DEF DestroyStopped, DetachFails
<1>7. CASE Release
  <2>1. owner = "destroy" /\ thread = "none" /\ live' \subseteq live
    BY <1>7 DEF Release
  <2>2. QED
    BY <1>7, <2>1 DEF Release
(* The capture thread. *)
<1>8. CASE Grab \/ GrabFails
  BY <1>8 DEF Grab, GrabFails
<1>9. CASE PushReturns \/ LeaveLoop
  BY <1>9 DEF PushReturns, LeaveLoop
<1>10. CASE UNCHANGED vars
  BY <1>10 DEF vars
<1>11. QED
  BY <1>1, <1>2, <1>3, <1>4, <1>5, <1>6, <1>7, <1>8, <1>9, <1>10
     DEF Next, Owner, CaptureThread, DestroyVideoCapture

LEMMA Invariant == Spec => []IInv
BY InitIInv, NextIInv, PTL DEF Spec

(* The capture thread grabs into memory that is there                       *)
(* (X11DesktopCapture.cpp:78-84, 89-113; VideoCapture.cpp:33-36).           *)
THEOREM CaptureUsesLiveMemory == Spec => []NoCaptureAfterFree
<1>1. IInv => NoCaptureAfterFree
  BY DEF IInv
<1>2. QED
  BY <1>1, Invariant, PTL

(* m_process_thread is never assigned while joinable (VideoCapture.cpp:27). *)
THEOREM ThreadIsNotOverwritten == Spec => []NoThreadOverwritten
<1>1. IInv => NoThreadOverwritten
  BY DEF IInv, Handover, NoThreadOverwritten
<1>2. QED
  BY <1>1, Invariant, PTL

(* What Release leaves of each thing the constructor can have left.         *)
LEMMA ReleaseIsWhole ==
  ASSUME live \in InitOutcomes, Release
  PROVE  live' \in InitOutcomes
<1> DEFINE image == {"m_display", "m_shm_segment_info", "m_x_shm_image"}
<1>1. CASE live \in {{}, {"m_display"}, {"m_display", "m_shm_segment_info"}, image}
  <2>1. live' \in {{}, {"m_display"}}
    BY <1>1 DEF Release
  <2>2. QED
    BY <2>1 DEF InitOutcomes
<1>2. CASE live \in {image \cup {"shmid"}, image \cup {"shmid", "attached"},
                     image \cup {"shmid", "shmaddr"}, image \cup {"shmid", "shmaddr", "attached"}}
  <2>1. live' = {}
    BY <1>2 DEF Release
  <2>2. QED
    BY <2>1 DEF InitOutcomes
<1>3. QED
  <2>1. live \in {{}, {"m_display"}, {"m_display", "m_shm_segment_info"}, image}
        \/ live \in {image \cup {"shmid"}, image \cup {"shmid", "attached"},
                     image \cup {"shmid", "shmaddr"}, image \cup {"shmid", "shmaddr", "attached"}}
    BY DEF InitOutcomes
  <2>2. QED
    BY <1>1, <1>2, <2>1

(* DestroyVideoCapture() leaves what a constructor could have left, after a *)
(* failed XShmDetach() too (X11DesktopCapture.cpp:89-116).                  *)
THEOREM DestroyIsWhole == Spec => []DestroyedWhole
<1>1. Init => DestroyedWhole
  BY DEF Init, DestroyedWhole
<1>2. DestroyedWhole /\ [Next]_vars => DestroyedWhole'
  <2> SUFFICES ASSUME DestroyedWhole, [Next]_vars PROVE DestroyedWhole'
    OBVIOUS
  <2>1. CASE Release
    BY <2>1, ReleaseIsWhole DEF DestroyedWhole
  <2>2. CASE live' = live
    BY <2>2 DEF DestroyedWhole, InitOutcomes
  <2>3. Release \/ live' = live
    BY DEF Next, Owner, CaptureThread, DestroyVideoCapture, StartVideoCapture, StartThread,
           StopVideoCapture, StopQueue, Join, DestroyStopped, DetachFails, Grab, GrabFails,
           PushReturns, LeaveLoop, vars
  <2>4. QED
    BY <2>1, <2>2, <2>3
<1>3. QED
  BY <1>1, <1>2, PTL DEF Spec

--------------------------------------------------------------------------------
(* CaptureQueue: every step is a step of the capture, or leaves it alone.   *)
LEMMA StepOfCapture == [QueueNext]_allvars => [Next]_vars
<1> SUFFICES ASSUME QueueNext PROVE Next \/ UNCHANGED vars
  BY DEF allvars
<1>1. CASE CaptureRuns \/ CaptureFails
  BY <1>1 DEF CaptureRuns, CaptureGrabs, CapturePushes, CaptureLeaves, CaptureFails, Next, CaptureThread
<1>2. CASE MainCalls \/ MainGoesOn
  BY <1>2 DEF MainCalls, MainGoesOn, MainStarts, MainStopsQueue, Next, Owner
<1>3. CASE ClientCalls \/ ClientPops \/ Spurious
  BY <1>3 DEF ClientCalls, ClientPops, Spurious
<1>4. QED
  BY <1>1, <1>2, <1>3 DEF QueueNext

(* The queue takes nothing from the capture: with it every behaviour is one *)
(* of X11DesktopCapture, whose theorems therefore hold of both              *)
(* (X11DesktopCapture.cpp:78-116, VideoCapture.cpp:22-39).                  *)
THEOREM CaptureQueueIsCapture == QueueSpec => Spec
<1>1. QueueInit => Init
  BY DEF QueueInit
<1>2. QED
  BY <1>1, StepOfCapture, PTL DEF QueueSpec, Spec

(* The thread is in WaitePushBuffer() exactly while the queue has it so.    *)
InThePush ==
  /\ rgb_pc \in [{Capture, Client} -> rgb!ThreadPC]
  /\ thread = "pushing" <=> rgb_pc[Capture] # "out"

(* Waking takes no thread out of its call and puts none into one.           *)
LEMMA WakingKeepsCalls ==
  ASSUME NEW f \in [{Capture, Client} -> rgb!ThreadPC], NEW S \in SUBSET {Capture, Client},
         NEW g \in rgb!WakeOne(f, S) \cup {rgb!WakeAll(f, S)}
  PROVE  /\ g \in [{Capture, Client} -> rgb!ThreadPC]
         /\ g[Capture] # "out" <=> f[Capture] # "out"
<1>1. CASE g \in rgb!WakeOne(f, S)
  BY <1>1 DEF rgb!WakeOne, rgb!ThreadPC
<1>2. CASE g = rgb!WakeAll(f, S)
  BY <1>2 DEF rgb!WakeAll, rgb!ThreadPC, rgb!Threads
<1>3. QED
  BY <1>1, <1>2

LEMMA NextInThePush == IInv /\ InThePush /\ [QueueNext]_allvars => InThePush'
<1> SUFFICES ASSUME IInv, InThePush, [QueueNext]_allvars PROVE InThePush'
  OBVIOUS
<1> USE CaptureAssumption DEF InThePush
(* The capture thread. *)
<1>1. CASE CaptureGrabs
  BY <1>1 DEF CaptureGrabs, Grab, rgb!Call, rgb!ThreadPC
<1>2. CASE CapturePushes
  <2>1. CASE rgb!PushStore(Capture)
    <3> DEFINE f == [rgb_pc EXCEPT ![Capture] = "out"]
    <3>1. f \in [{Capture, Client} -> rgb!ThreadPC] /\ f[Capture] = "out"
      BY DEF rgb!ThreadPC
    <3>2. rgb_pc' \in rgb!WakeOne(f, {Client}) /\ {Client} \in SUBSET {Capture, Client}
      BY <2>1 DEF rgb!PushStore
    <3> HIDE DEF f
    <3>3. rgb_pc' \in [{Capture, Client} -> rgb!ThreadPC] /\ rgb_pc'[Capture] = "out"
      BY <3>1, <3>2, WakingKeepsCalls
    <3>4. QED
      BY <1>2, <3>3 DEF CapturePushes, PushReturns
  <2>2. CASE rgb!PushWait(Capture) \/ rgb!PushGiveUp(Capture) \/ rgb!FallAsleep(Capture)
    <3>1. /\ rgb_pc' \in [{Capture, Client} -> rgb!ThreadPC]
          /\ rgb_pc[Capture] # "out"
      BY <2>2 DEF rgb!PushWait, rgb!PushGiveUp, rgb!FallAsleep, rgb!TakesMutex, rgb!DecideToWait,
                  rgb!ThreadPC
    <3>2. QED
      BY <1>2, <3>1 DEF CapturePushes, PushReturns, vars
  <2>3. QED
    BY <1>2, <2>1, <2>2 DEF CapturePushes, rgb!PushStep
<1>3. CASE CaptureLeaves \/ CaptureFails
  BY <1>3 DEF CaptureLeaves, CaptureFails, LeaveLoop, GrabFails, rgbvars
(* The owner. *)
<1>4. CASE MainStarts
  BY <1>4 DEF MainStarts, StartThread, rgb!Start, IInv, Handover
<1>5. CASE MainStopsQueue
  <2>1. rgb_pc' \in {rgb_pc, rgb!WakeAll(rgb_pc, {Capture}), rgb!WakeAll(rgb_pc, {Client})}
    BY <1>5 DEF MainStopsQueue, rgb!StopFlag, rgb!StopNotifyPush, rgb!StopNotifyPop
  <2>2. thread' = thread
    BY <1>5 DEF MainStopsQueue, StopQueue, vars
  <2>3. QED
    BY <2>1, <2>2, WakingKeepsCalls
<1>6. CASE (Join \/ DetachFails \/ Release) /\ UNCHANGED rgbvars
  BY <1>6 DEF Join, DetachFails, Release, rgbvars
<1>7. CASE MainCalls
  BY <1>7 DEF MainCalls, StartVideoCapture, StopVideoCapture, DestroyVideoCapture, DestroyStopped,
              rgbvars
(* The client, and wakeups nobody asked for. *)
<1>8. CASE ClientCalls
  BY <1>8 DEF ClientCalls, rgb!Call, rgb!ThreadPC, vars
<1>9. CASE ClientPops
  <2>1. CASE rgb!PopTake(Client)
    <3> DEFINE f == [rgb_pc EXCEPT ![Client] = "out"]
    <3>1. f \in [{Capture, Client} -> rgb!ThreadPC] /\ f[Capture] = rgb_pc[Capture]
      BY DEF rgb!ThreadPC
    <3>2. rgb_pc' \in rgb!WakeOne(f, {Capture}) /\ {Capture} \in SUBSET {Capture, Client}
      BY <2>1 DEF rgb!PopTake
    <3> HIDE DEF f
    <3>3. QED
      BY <1>9, <3>1, <3>2, WakingKeepsCalls DEF ClientPops, vars
  <2>2. CASE rgb!PopWait(Client) \/ rgb!PopGiveUp(Client) \/ rgb!FallAsleep(Client)
    BY <1>9, <2>2 DEF ClientPops, vars, rgb!PopWait, rgb!PopGiveUp, rgb!FallAsleep,
                      rgb!DecideToWait, rgb!ThreadPC
  <2>3. QED
    BY <1>9, <2>1, <2>2 DEF ClientPops, rgb!PopStep
<1>10. CASE Spurious
  BY <1>10 DEF Spurious, rgb!SpuriousWakeup, rgb!ThreadPC, vars
<1>11. CASE UNCHANGED allvars
  BY <1>11 DEF allvars, vars, rgbvars
<1>12. QED
  BY <1>1, <1>2, <1>3, <1>4, <1>5, <1>6, <1>7, <1>8, <1>9, <1>10, <1>11
     DEF QueueNext, CaptureRuns, MainGoesOn

LEMMA InitQueueInv == QueueInit => IInv /\ InThePush
BY InitIInv DEF QueueInit, Init, rgb!Init, rgb!Threads, rgb!ThreadPC, InThePush

LEMMA NextQueueInv == IInv /\ InThePush /\ [QueueNext]_allvars => (IInv /\ InThePush)'
BY StepOfCapture, NextIInv, NextInThePush

LEMMA QueueInvariant == QueueSpec => [](IInv /\ InThePush)
BY InitQueueInv, NextQueueInv, PTL DEF QueueSpec

(* When StopVideoCapture() has returned no push is left in the queue        *)
(* (VideoCapture.cpp:33-36, X11DesktopCapture.cpp:84).                      *)
THEOREM NothingIsPushedAfterStop == QueueSpec => []NoPushAfterStop
<1>1. IInv /\ InThePush => NoPushAfterStop
  BY DEF IInv, Handover, InThePush, NoPushAfterStop
<1>2. QED
  BY <1>1, QueueInvariant, PTL

--------------------------------------------------------------------------------
(* The queue under the capture is a BufferQueue like any other.             *)
rgbp == INSTANCE BufferQueueProofs WITH
  Producers <- {Capture}, Consumers <- {Client}, Controllers <- {Main},
  Buffers <- {Frame}, m_size <- QueueSize,
  m_buffer_queue <- rgb_queue, m_running <- rgb_running, m_mutex <- rgb_mutex,
  pc <- rgb_pc, buffer <- rgb_buffer, stop_pc <- rgb_stop

(* What BufferQueue assumes of its constants (QueueAssumption) is so here.  *)
LEMMA RgbAssumption ==
  /\ {Capture} \cap {Client} = {}
  /\ rgbp!IsFiniteSet({Capture}) /\ rgbp!IsFiniteSet({Client})
  /\ QueueSize \in Nat
  /\ NoThread \notin rgbp!Threads
  /\ NoBuffer \notin {Frame}
<1>1. IsFiniteSet({Capture}) /\ IsFiniteSet({Client})
  BY FS_Singleton
<1>2. \A S : IsFiniteSet(S) => rgbp!IsFiniteSet(S)
  BY DEF IsFiniteSet, rgbp!IsFiniteSet
<1>3. QED
  BY <1>1, <1>2, CaptureAssumption DEF rgbp!Threads

LEMMA SameCardinality == \A S : rgb!Cardinality(S) = rgbp!Cardinality(S)
BY Zenon DEF rgb!Cardinality, rgbp!Cardinality

LEMMA SameRgbNext == rgb!Next <=> rgbp!Next
BY Zenon DEF rgb!Next, rgb!PushStep, rgb!PopStep, rgb!Call, rgb!PushStore, rgb!PushWait,
     rgb!PushGiveUp, rgb!PopTake, rgb!PopWait, rgb!PopGiveUp, rgb!FallAsleep,
     rgb!SpuriousWakeup, rgb!Start, rgb!StopFlag, rgb!StopNotifies, rgb!StopNotifyPush,
     rgb!StopNotifyPop, rgb!TakesMutex, rgb!DecideToWait, rgb!IsEmpty, rgb!IsFull,
     rgb!WakeOne, rgb!WakeAll, rgb!Threads,
     rgbp!Next, rgbp!PushStep, rgbp!PopStep, rgbp!Call, rgbp!PushStore, rgbp!PushWait,
     rgbp!PushGiveUp, rgbp!PopTake, rgbp!PopWait, rgbp!PopGiveUp, rgbp!FallAsleep,
     rgbp!SpuriousWakeup, rgbp!Start, rgbp!StopFlag, rgbp!StopNotifies, rgbp!StopNotifyPush,
     rgbp!StopNotifyPop, rgbp!TakesMutex, rgbp!DecideToWait, rgbp!IsEmpty, rgbp!IsFull,
     rgbp!WakeOne, rgbp!WakeAll, rgbp!Threads

LEMMA StepOfRgb == [QueueNext]_allvars => [rgb!Next]_rgbvars
<1> SUFFICES ASSUME [QueueNext]_allvars PROVE rgb!Next \/ UNCHANGED rgbvars
  OBVIOUS
<1> USE DEF rgb!Next, rgb!Threads
<1>1. CASE CaptureRuns \/ CaptureFails
  BY <1>1 DEF CaptureRuns, CaptureGrabs, CapturePushes, CaptureLeaves, CaptureFails
<1>2. CASE MainCalls \/ MainGoesOn
  BY <1>2 DEF MainCalls, MainGoesOn, MainStarts, MainStopsQueue, rgb!StopNotifies
<1>3. CASE ClientCalls \/ ClientPops
  BY <1>3 DEF ClientCalls, ClientPops
<1>4. CASE Spurious
  BY <1>4 DEF Spurious
<1>5. CASE UNCHANGED allvars
  BY <1>5 DEF allvars
<1>6. QED
  BY <1>1, <1>2, <1>3, <1>4, <1>5 DEF QueueNext

LEMMA QueueSpecIsRgbSpec == QueueSpec => rgb!Spec /\ rgbp!Spec
<1>1. QueueInit => rgb!Init /\ rgbp!Init
  BY DEF QueueInit, rgb!Init, rgbp!Init, rgb!Threads, rgbp!Threads
<1>2. [QueueNext]_allvars => [rgb!Next]_(rgb!vars) /\ [rgbp!Next]_(rgbp!vars)
  BY StepOfRgb, SameRgbNext DEF rgbvars, rgb!vars, rgbp!vars
<1>3. QED
  BY <1>1, <1>2, PTL DEF QueueSpec, rgb!Spec, rgbp!Spec

(* What BufferQueue promises it keeps under the capture: no wakeup of       *)
(* notify_one() is lost, and of the capture thread and the client at most   *)
(* one sleeps through a Stop() (BufferQueue.hpp:27-57).                     *)
THEOREM CaptureQueueKeepsPromises ==
  QueueSpec => [](rgb!NoLostWakeup /\ rgb!AtMostOneMissesStop)
<1>1. rgbp!Spec => [](rgbp!NoLostWakeup /\ rgbp!AtMostOneMissesStop)
  BY RgbAssumption, rgbp!NoWakeupIsLost, rgbp!OneThreadMissesStop, PTL
<1>2. rgbp!NoLostWakeup /\ rgbp!AtMostOneMissesStop => rgb!NoLostWakeup /\ rgb!AtMostOneMissesStop
  BY SameCardinality DEF rgbp!NoLostWakeup, rgbp!AtMostOneMissesStop, rgbp!MissesStop, rgbp!WakeupOwed, rgbp!Woken,
         rgbp!Threads, rgb!NoLostWakeup, rgb!AtMostOneMissesStop, rgb!MissesStop, rgb!WakeupOwed,
         rgb!Woken, rgb!Threads
<1>3. QED
  BY <1>1, <1>2, QueueSpecIsRgbSpec, PTL

--------------------------------------------------------------------------------
(* The capture over the detailed queue implements the capture over a        *)
(* BoundedFifo.  Stop() is under way only while the owner is in its call.   *)
InStop == rgb_stop[Main] # "idle" => owner = "stop_queue"

AInv == IInv /\ InThePush /\ rgb!TypeOK /\ InStop

LEMMA NextInStop == IInv /\ rgb!TypeOK /\ InStop /\ [QueueNext]_allvars => InStop'
<1> SUFFICES ASSUME rgb!TypeOK, InStop, [QueueNext]_allvars PROVE InStop'
  OBVIOUS
<1> USE DEF InStop
<1>1. rgb_stop \in [{Main} -> rgb!StopPC]
  BY DEF rgb!TypeOK
<1>2. CASE CaptureRuns \/ CaptureFails
  BY <1>2 DEF CaptureRuns, CaptureFails, CaptureGrabs, CapturePushes, CaptureLeaves, Grab, GrabFails,
     PushReturns, LeaveLoop, rgb!Call, rgb!PushStep, rgb!PushStore, rgb!PushWait, rgb!PushGiveUp,
     rgb!FallAsleep, rgb!DecideToWait, rgbvars, vars
<1>3. CASE MainStarts \/ MainCalls \/ ((Join \/ DetachFails \/ Release) /\ UNCHANGED rgbvars)
  BY <1>3 DEF MainStarts, StartThread, rgb!Start, Join, DetachFails, Release, MainCalls,
     StartVideoCapture, StopVideoCapture, DestroyVideoCapture, DestroyStopped, rgbvars
<1>4. CASE MainStopsQueue
  <2>1. CASE owner = "stop_queue" /\ owner' = owner
    BY <2>1
  <2>2. CASE rgb!StopNotifyPush(Main) /\ UNCHANGED vars
    BY <2>2 DEF rgb!StopNotifyPush, vars
  <2>3. CASE rgb!StopNotifyPop(Main)
    BY <1>1, <2>3 DEF rgb!StopNotifyPop
  <2>4. QED
    BY <1>4, <2>1, <2>2, <2>3 DEF MainStopsQueue, vars
<1>5. CASE ClientCalls \/ ClientPops \/ Spurious
  BY <1>5 DEF ClientCalls, ClientPops, Spurious, rgb!Call, rgb!PopStep, rgb!PopTake, rgb!PopWait,
     rgb!PopGiveUp, rgb!FallAsleep, rgb!DecideToWait, rgb!SpuriousWakeup, vars
<1>6. CASE UNCHANGED allvars
  BY <1>6 DEF allvars, rgbvars, vars
<1>7. QED
  BY <1>2, <1>3, <1>4, <1>5, <1>6 DEF QueueNext, MainGoesOn

LEMMA SameRgbType == rgb!TypeOK <=> rgbp!TypeOK
<1> USE DEF rgb!TypeOK, rgbp!TypeOK, rgb!Threads, rgbp!Threads, rgb!ThreadPC, rgbp!ThreadPC,
        rgb!StopPC, rgbp!StopPC
<1>1. rgb!TypeOK => rgbp!TypeOK
  BY Zenon
<1>2. rgbp!TypeOK => rgb!TypeOK
  BY Zenon
<1>3. QED
  BY <1>1, <1>2

LEMMA InitAInv == QueueInit => AInv
<1>1. QueueInit => rgbp!TypeOK
  BY RgbAssumption, rgbp!InitType DEF QueueInit, rgb!Init, rgbp!Init, rgb!Threads, rgbp!Threads
<1>2. QueueInit => InStop
  BY DEF QueueInit, rgb!Init, InStop
<1>3. QueueInit => IInv /\ InThePush
  BY InitQueueInv
<1>4. QED
  BY <1>1, <1>2, <1>3, SameRgbType DEF AInv

LEMMA NextAInv == AInv /\ [QueueNext]_allvars => AInv'
<1>1. rgbp!TypeOK /\ [rgbp!Next]_(rgbp!vars) => rgbp!TypeOK'
  BY RgbAssumption, rgbp!NextType
<1>2. rgb!TypeOK' <=> rgbp!TypeOK'
  BY SameRgbType, PTL
<1>3. rgb!TypeOK /\ [QueueNext]_allvars => rgb!TypeOK'
  BY <1>1, <1>2, StepOfRgb, SameRgbNext, SameRgbType DEF rgbvars, rgbp!vars
<1>4. QED
  BY <1>3, NextQueueInv, NextInStop DEF AInv

LEMMA AtomicInvariant == QueueSpec => []AInv
BY InitAInv, NextAInv, PTL DEF QueueSpec

(* The threads that are in a call, and what a wakeup does to them: nothing. *)
InCall(f) == {t \in {Capture, Client} : f[t] # "out"}

LEMMA WakingKeepsInCall ==
  ASSUME NEW f \in [{Capture, Client} -> rgb!ThreadPC], NEW S \in SUBSET {Capture, Client},
         NEW g \in rgb!WakeOne(f, S) \cup {rgb!WakeAll(f, S)}
  PROVE  InCall(g) = InCall(f)
<1>1. CASE g \in rgb!WakeOne(f, S)
  BY <1>1 DEF rgb!WakeOne, rgb!ThreadPC, InCall
<1>2. CASE g = rgb!WakeAll(f, S)
  BY <1>2 DEF rgb!WakeAll, rgb!ThreadPC, rgb!Threads, InCall
<1>3. QED
  BY <1>1, <1>2

AtomicOwner == IF owner = "stop_queue" /\ rgb_stop[Main] # "idle" THEN "join" ELSE owner

(* A step of thread t inside its call is that of the BoundedFifo, or        *)
(* nothing if the thread only comes closer to it.                           *)
LEMMA CallIsAtomic ==
  ASSUME AInv, NEW t \in {Capture, Client}
  PROVE  /\ \A b : rgb!Call(t, b) => AtomicCapture!q!Invoke(t, b)
         /\ t = Capture /\ rgb!PushStore(t) => AtomicCapture!q!Put(t) /\ rgb_pc'[t] = "out"
         /\ t = Client /\ rgb!PopTake(t) => AtomicCapture!q!Get(t)
         /\ t = Capture /\ rgb!PushGiveUp(t) => AtomicCapture!q!Refuse(t) /\ rgb_pc'[t] = "out"
         /\ t = Client /\ rgb!PopGiveUp(t) => AtomicCapture!q!Refuse(t)
         /\ rgb!PushWait(t) \/ rgb!PopWait(t) \/ rgb!FallAsleep(t) \/ rgb!SpuriousWakeup(t)
              => /\ rgb_pc'[t] # "out"
                 /\ UNCHANGED <<rgb_queue, rgb_running, InCall(rgb_pc), rgb_buffer, rgb_stop>>
<1> USE CaptureAssumption
<1>1. /\ rgb_pc \in [{Capture, Client} -> rgb!ThreadPC]
      /\ rgb_queue \in Seq({Frame}) /\ Len(rgb_queue) \in Nat
  BY DEF AInv, InThePush, rgb!TypeOK
<1>2. ASSUME NEW b, rgb!Call(t, b) PROVE AtomicCapture!q!Invoke(t, b)
  BY <1>1, <1>2 DEF rgb!Call, AtomicCapture!q!Invoke, InCall
<1>3. ASSUME NEW S \in SUBSET {Capture, Client}, rgb_pc[t] # "out",
             rgb_pc' \in rgb!WakeOne([rgb_pc EXCEPT ![t] = "out"], S)
      PROVE  /\ t \in InCall(rgb_pc) /\ InCall(rgb_pc') = InCall(rgb_pc) \ {t}
             /\ rgb_pc'[t] = "out"
  <2> DEFINE f == [rgb_pc EXCEPT ![t] = "out"]
  <2>1. f \in [{Capture, Client} -> rgb!ThreadPC] /\ InCall(f) = InCall(rgb_pc) \ {t}
    BY <1>1 DEF rgb!ThreadPC, InCall
  <2>2. InCall(rgb_pc') = InCall(f)
    <3> HIDE DEF f
    <3>1. rgb_pc' \in rgb!WakeOne(f, S)
      BY <1>3 DEF f
    <3>2. QED
      BY <2>1, <3>1, WakingKeepsInCall
  <2>3. t \in InCall(rgb_pc) /\ (t \notin InCall(rgb_pc') => rgb_pc'[t] = "out")
    BY <1>3 DEF InCall
  <2> HIDE DEF f
  <2>4. QED
    BY <2>1, <2>2, <2>3
<1>4. ASSUME t = Capture, rgb!PushStore(t) PROVE AtomicCapture!q!Put(t) /\ rgb_pc'[t] = "out"
  <2>1. rgb_pc[t] # "out" /\ rgb_pc' \in rgb!WakeOne([rgb_pc EXCEPT ![t] = "out"], {Client})
    BY <1>4 DEF rgb!PushStore, rgb!TakesMutex
  <2>2. t \in InCall(rgb_pc) /\ InCall(rgb_pc') = InCall(rgb_pc) \ {t} /\ rgb_pc'[t] = "out"
    BY <1>3, <2>1
  <2>3. QED
    BY <1>1, <1>4, <2>2 DEF rgb!PushStore, rgb!IsFull, AtomicCapture!q!Put, InCall
<1>5. ASSUME t = Client, rgb!PopTake(t) PROVE AtomicCapture!q!Get(t)
  <2>1. rgb_pc[t] # "out" /\ rgb_pc' \in rgb!WakeOne([rgb_pc EXCEPT ![t] = "out"], {Capture})
    BY <1>5 DEF rgb!PopTake, rgb!TakesMutex
  <2>2. t \in InCall(rgb_pc) /\ InCall(rgb_pc') = InCall(rgb_pc) \ {t}
    BY <1>3, <2>1
  <2>3. QED
    BY <1>5, <2>2 DEF rgb!PopTake, rgb!IsEmpty, AtomicCapture!q!Get, InCall
<1>6. ASSUME rgb!TakesMutex(t), rgb_pc' = [rgb_pc EXCEPT ![t] = "out"]
      PROVE  /\ t \in InCall(rgb_pc) /\ InCall(rgb_pc') = InCall(rgb_pc) \ {t}
             /\ rgb_pc'[t] = "out"
  BY <1>1, <1>6 DEF rgb!TakesMutex, InCall
<1>7. ASSUME t = Capture, rgb!PushGiveUp(t) PROVE AtomicCapture!q!Refuse(t) /\ rgb_pc'[t] = "out"
  BY <1>1, <1>6, <1>7 DEF rgb!PushGiveUp, rgb!IsFull, AtomicCapture!q!Refuse, InCall
<1>8. ASSUME t = Client, rgb!PopGiveUp(t) PROVE AtomicCapture!q!Refuse(t)
  BY <1>6, <1>8 DEF rgb!PopGiveUp, rgb!IsEmpty, AtomicCapture!q!Refuse, InCall
<1>9. ASSUME rgb!PushWait(t) \/ rgb!PopWait(t) \/ rgb!FallAsleep(t) \/ rgb!SpuriousWakeup(t)
      PROVE  /\ rgb_pc'[t] # "out"
             /\ UNCHANGED <<rgb_queue, rgb_running, InCall(rgb_pc), rgb_buffer, rgb_stop>>
  BY <1>1, <1>9 DEF rgb!PushWait, rgb!PopWait, rgb!FallAsleep, rgb!SpuriousWakeup, rgb!TakesMutex,
     rgb!DecideToWait, InCall
<1>10. QED
  BY <1>2, <1>4, <1>5, <1>7, <1>8, <1>9

(* Stop() sets the flag, which closes the queue, and then notifies, which   *)
(* the abstract queue need not.                                             *)
LEMMA StopIsAtomic ==
  ASSUME AInv, MainStopsQueue
  PROVE  (AtomicCapture!Stops \/ UNCHANGED AtomicCapture!fifovars)
<1>1. /\ rgb_stop \in [{Main} -> rgb!StopPC] /\ rgb_pc \in [{Capture, Client} -> rgb!ThreadPC]
      /\ rgb_stop[Main] # "idle" => owner = "stop_queue"
  BY DEF AInv, InStop, InThePush, rgb!TypeOK
<1>2. CASE owner = "stop_queue" /\ rgb!StopFlag(Main) /\ UNCHANGED vars
  <2>1. /\ AtomicOwner = "stop_queue" /\ AtomicOwner' = "join"
        /\ rgb_running' = FALSE
        /\ UNCHANGED <<m_start_capture, live, thread, stop_for, rgb_queue, rgb_pc, rgb_buffer>>
    BY <1>1, <1>2 DEF rgb!StopFlag, AtomicOwner, vars
  <2>2. QED
    BY <2>1 DEF AtomicCapture!Stops, AtomicCapture!StopQueue, AtomicCapture!q!SetOpen, AtomicOwner
<1>3. CASE \/ rgb!StopNotifyPush(Main) /\ UNCHANGED vars
           \/ rgb!StopNotifyPop(Main) /\ StopQueue
  <2>1. /\ AtomicOwner = "join" /\ AtomicOwner' = "join"
        /\ UNCHANGED <<m_start_capture, live, thread, stop_for, rgb_queue, rgb_running, rgb_buffer>>
    BY <1>1, <1>3 DEF rgb!StopNotifyPush, rgb!StopNotifyPop, StopQueue, AtomicOwner, vars
  <2>2. rgb_pc' \in {rgb!WakeAll(rgb_pc, {Capture}), rgb!WakeAll(rgb_pc, {Client})}
    BY <1>3 DEF rgb!StopNotifyPush, rgb!StopNotifyPop
  <2>3. InCall(rgb_pc') = InCall(rgb_pc)
    BY <1>1, <2>2, WakingKeepsInCall
  <2>4. QED
    BY <2>1, <2>3 DEF AtomicCapture!fifovars, AtomicCapture!vars, AtomicCapture!qvars, InCall, AtomicOwner
<1>4. QED
  BY <1>2, <1>3 DEF MainStopsQueue

LEMMA CaptureStepIsAtomic ==
  ASSUME AInv, CaptureRuns \/ CaptureFails
  PROVE  (AtomicCapture!FifoNext \/ UNCHANGED AtomicCapture!fifovars)
<1>1. rgb_stop' = rgb_stop /\ owner' = owner
  BY DEF CaptureRuns, CaptureFails, CaptureGrabs, CapturePushes, CaptureLeaves, Grab, GrabFails,
     PushReturns, LeaveLoop, rgb!Call, rgb!PushStep, rgb!PushStore, rgb!PushWait, rgb!PushGiveUp,
     rgb!FallAsleep, rgb!DecideToWait, rgbvars, vars
<1>2. AtomicOwner' = AtomicOwner
  BY <1>1 DEF AtomicOwner
<1>3. CASE CaptureGrabs
  <2>1. AtomicCapture!q!Invoke(Capture, Frame)
    BY <1>3, CallIsAtomic DEF CaptureGrabs
  <2>2. AtomicCapture!Grab
    BY <1>2, <1>3 DEF CaptureGrabs, Grab, AtomicCapture!Grab, AtomicOwner
  <2>3. QED
    BY <2>1, <2>2 DEF AtomicCapture!FifoNext, AtomicCapture!Grabs
<1>4. CASE CapturePushes
  <2>1. CASE rgb_pc'[Capture] = "out"
    <3>1. AtomicCapture!q!Put(Capture) \/ AtomicCapture!q!Refuse(Capture)
      BY <1>4, <2>1, CallIsAtomic DEF CapturePushes, rgb!PushStep
    <3>2. AtomicCapture!PushReturns
      BY <1>2, <1>4, <2>1 DEF CapturePushes, PushReturns, AtomicCapture!PushReturns, AtomicOwner
    <3>3. QED
      BY <3>1, <3>2 DEF AtomicCapture!FifoNext, AtomicCapture!Stores, AtomicCapture!Drops
  <2>2. CASE rgb_pc'[Capture] # "out"
    <3>1. UNCHANGED <<rgb_queue, rgb_running, InCall(rgb_pc), rgb_buffer>> /\ UNCHANGED vars
      BY <1>4, <2>2, CallIsAtomic DEF CapturePushes, rgb!PushStep
    <3>2. QED
      BY <1>2, <3>1 DEF AtomicCapture!fifovars, AtomicCapture!vars, AtomicCapture!qvars, InCall,
                        AtomicOwner, vars
  <2>3. QED
    BY <2>1, <2>2
<1>5. CASE CaptureLeaves \/ CaptureFails
  <2>1. AtomicCapture!LeaveLoop \/ AtomicCapture!GrabFails
    BY <1>2, <1>5 DEF CaptureLeaves, CaptureFails, LeaveLoop, GrabFails, AtomicCapture!LeaveLoop,
       AtomicCapture!GrabFails, AtomicOwner
  <2>2. UNCHANGED AtomicCapture!qvars
    BY <1>5 DEF CaptureLeaves, CaptureFails, rgbvars, AtomicCapture!qvars
  <2>3. QED
    BY <2>1, <2>2 DEF AtomicCapture!FifoNext, AtomicCapture!Leaves
<1>6. QED
  BY <1>3, <1>4, <1>5 DEF CaptureRuns

(* In the owner's other steps no Stop() is under way before or after.       *)
LEMMA OwnerStepIsAtomic ==
  ASSUME AInv, MainCalls \/ MainGoesOn
  PROVE  (AtomicCapture!FifoNext \/ UNCHANGED AtomicCapture!fifovars)
<1>1. CASE MainStopsQueue
  BY <1>1, StopIsAtomic DEF AtomicCapture!FifoNext
<1>2. CASE MainStarts
  <2>1. rgb_stop[Main] = "idle" /\ rgb_stop'[Main] = "idle"
    BY <1>2 DEF MainStarts, rgb!Start
  <2>2. AtomicOwner = owner /\ AtomicOwner' = owner'
    BY <2>1 DEF AtomicOwner
  <2>3. AtomicCapture!StartThread
    BY <1>2, <2>2 DEF MainStarts, StartThread, AtomicCapture!StartThread, AtomicOwner
  <2>4. AtomicCapture!q!SetOpen(TRUE)
    BY <1>2 DEF MainStarts, rgb!Start, AtomicCapture!q!SetOpen
  <2>5. QED
    BY <2>3, <2>4 DEF AtomicCapture!FifoNext, AtomicCapture!Starts
<1>3. ASSUME UNCHANGED rgbvars,
             \/ Usable /\ StartVideoCapture
             \/ StopVideoCapture("idle")
             \/ DestroyVideoCapture
             \/ Join \/ DetachFails \/ Release
      PROVE  AtomicCapture!FifoNext
  <2>1. owner # "stop_queue" /\ rgb_stop' = rgb_stop
    BY <1>3 DEF StartVideoCapture, StopVideoCapture, DestroyVideoCapture, DestroyStopped, Join,
                DetachFails, Release, rgbvars
  <2>2. rgb_stop[Main] = "idle"
    BY <2>1 DEF AInv, InStop
  <2>3. AtomicOwner = owner /\ AtomicOwner' = owner'
    BY <2>1, <2>2 DEF AtomicOwner
  <2>4. UNCHANGED AtomicCapture!qvars
    BY <1>3 DEF rgbvars, AtomicCapture!qvars
  <2>5. CASE Usable /\ StartVideoCapture
    BY <2>3, <2>4, <2>5 DEF StartVideoCapture, Usable, Resources, AtomicCapture!StartVideoCapture,
       AtomicCapture!Usable, AtomicCapture!Resources, AtomicCapture!FifoNext, AtomicCapture!OwnerElsewhere,
       AtomicOwner
  <2>6. CASE StopVideoCapture("idle")
    BY <2>3, <2>4, <2>6 DEF StopVideoCapture, AtomicCapture!StopVideoCapture,
       AtomicCapture!FifoNext, AtomicCapture!OwnerElsewhere, AtomicOwner
  <2>7. CASE DestroyVideoCapture
    BY <2>3, <2>4, <2>7 DEF DestroyVideoCapture, StopVideoCapture, DestroyStopped,
       AtomicCapture!DestroyVideoCapture, AtomicCapture!StopVideoCapture, AtomicCapture!DestroyStopped,
       AtomicCapture!FifoNext, AtomicCapture!OwnerElsewhere, AtomicOwner
  <2>8. CASE Join \/ DetachFails
    BY <2>3, <2>4, <2>8 DEF Join, DetachFails, AtomicCapture!Join, AtomicCapture!DetachFails,
       AtomicCapture!FifoNext, AtomicCapture!OwnerElsewhere, AtomicOwner
  <2>9. CASE Release
    BY <2>3, <2>4, <2>9 DEF Release, AtomicCapture!Release,
       AtomicCapture!FifoNext, AtomicCapture!OwnerElsewhere, AtomicOwner
  <2>10. QED
    BY <1>3, <2>5, <2>6, <2>7, <2>8, <2>9
<1>4. QED
  BY <1>1, <1>2, <1>3 DEF MainCalls, MainGoesOn

LEMMA ClientStepIsAtomic ==
  ASSUME AInv, ClientCalls \/ ClientPops \/ Spurious
  PROVE  (AtomicCapture!FifoNext \/ UNCHANGED AtomicCapture!fifovars)
<1>1. rgb_stop' = rgb_stop /\ UNCHANGED vars
  BY DEF ClientCalls, ClientPops, Spurious, rgb!Call, rgb!PopStep, rgb!PopTake, rgb!PopWait,
     rgb!PopGiveUp, rgb!FallAsleep, rgb!DecideToWait, rgb!SpuriousWakeup
<1>2. UNCHANGED AtomicCapture!vars
  BY <1>1 DEF AtomicCapture!vars, vars
<1>3. CASE AtomicCapture!q!Invoke(Client, NoBuffer) \/ AtomicCapture!q!Get(Client) \/ AtomicCapture!q!Refuse(Client)
  BY <1>2, <1>3 DEF AtomicCapture!FifoNext, AtomicCapture!ClientPops
<1>4. CASE UNCHANGED <<rgb_queue, rgb_running, InCall(rgb_pc), rgb_buffer>>
  BY <1>2, <1>4 DEF AtomicCapture!fifovars, AtomicCapture!qvars, InCall
<1>5. QED
  BY <1>3, <1>4, CallIsAtomic DEF ClientCalls, ClientPops, Spurious, rgb!PopStep

(* The window in Stop(), the mutex and the two conditions cannot be seen    *)
(* from outside: the capture over BufferQueue behaves as over a queue whose *)
(* calls are single steps (BufferQueue.hpp:27-56, VideoCapture.cpp:22-39).  *)
(* VideoPipeline may therefore do without them.                             *)
THEOREM CaptureQueueImplementsFifo == QueueSpec => ImplementsCaptureFifo
<1>1. QueueInit => AtomicCapture!FifoInit
  BY DEF QueueInit, Init, rgb!Init, rgb!Threads, AtomicCapture!FifoInit, AtomicCapture!Init,
     AtomicCapture!q!Init, AtomicCapture!q!Threads, InitOutcomes, AtomicCapture!InitOutcomes
<1>2. AInv /\ [QueueNext]_allvars => [AtomicCapture!FifoNext]_(AtomicCapture!fifovars)
  <2> SUFFICES ASSUME AInv, [QueueNext]_allvars
               PROVE  AtomicCapture!FifoNext \/ UNCHANGED AtomicCapture!fifovars
    OBVIOUS
  <2>1. CASE UNCHANGED allvars
    BY <2>1 DEF allvars, rgbvars, vars, AtomicCapture!fifovars, AtomicCapture!vars, AtomicCapture!qvars
  <2>2. QED
    BY <2>1, CaptureStepIsAtomic, OwnerStepIsAtomic, ClientStepIsAtomic DEF QueueNext
<1>3. QED
  BY <1>1, <1>2, AtomicInvariant, PTL DEF QueueSpec, ImplementsCaptureFifo, AtomicCapture!FifoSpec

--------------------------------------------------------------------------------
(* main() of the capture test: what it has done when a line comes next.     *)
MainOrder ==
  /\ line \in {"start", "pop", "destroy", "done"}
  /\ line = "start" => owner = "idle" /\ Usable
  /\ line \in {"destroy", "done"} => ~m_start_capture

LEMMA StepOfMain == MainOrder /\ [TestNext]_testvars => [QueueNext]_allvars
BY DEF MainOrder, TestNext, MainRuns, MainPops, CallsCapture, Others, QueueNext, MainCalls, testvars

LEMMA NextMainOrder == AInv /\ MainOrder /\ [TestNext]_testvars => MainOrder'
<1> SUFFICES ASSUME AInv, MainOrder, [TestNext]_testvars PROVE MainOrder'
  OBVIOUS
<1> USE DEF MainOrder, Usable
<1>1. CASE CallsCapture("start", StartVideoCapture, "pop")
  BY <1>1 DEF CallsCapture
<1>2. CASE MainPops
  BY <1>2 DEF MainPops, ClientCalls, ClientPops, vars
<1>3. CASE \/ CallsCapture("pop", StopVideoCapture("idle"), "destroy")
           \/ CallsCapture("destroy", DestroyVideoCapture, "done")
  BY <1>3 DEF CallsCapture, StopVideoCapture, DestroyVideoCapture, DestroyStopped
<1>4. CASE MainGoesOn /\ UNCHANGED <<line, count>>
  <2>1. owner # "idle"
    BY <1>4 DEF MainGoesOn, MainStarts, StartThread, MainStopsQueue, rgb!StopNotifyPush,
       rgb!StopNotifyPop, Join, DetachFails, Release, AInv, InStop
  <2>2. m_start_capture' = m_start_capture
    BY <1>4 DEF MainGoesOn, MainStarts, StartThread, MainStopsQueue, StopQueue, Join, DetachFails,
       Release, vars
  <2>3. QED
    BY <1>4, <2>1, <2>2
<1>5. CASE Others
  BY <1>5 DEF Others, CaptureRuns, CaptureGrabs, CapturePushes, CaptureLeaves, Spurious, Grab,
     PushReturns, LeaveLoop, vars
<1>6. CASE UNCHANGED testvars
  BY <1>6 DEF testvars, allvars, vars
<1>7. QED
  BY <1>1, <1>2, <1>3, <1>4, <1>5, <1>6 DEF TestNext, MainRuns

LEMMA InitMainOrder == TestInit => QueueInit /\ MainOrder
BY DEF TestInit, QueueInit, Init, MainOrder

(* The test does nothing the capture with its queue does not allow: what is *)
(* proved of that is so in the test (X11VideoCaptureTest.cpp:17-37).        *)
THEOREM CaptureTestIsQueue == TestSpec => QueueSpec
<1>1. TestInit => AInv /\ MainOrder
  BY InitMainOrder, InitAInv
<1>2. AInv /\ MainOrder /\ [TestNext]_testvars => (AInv /\ MainOrder)' /\ [QueueNext]_allvars
  BY StepOfMain, NextAInv, NextMainOrder
<1>3. TestInit => QueueInit
  BY InitMainOrder
<1>4. TestSpec => TestInit /\ [][TestNext]_testvars
  BY PTL DEF TestSpec
<1>5. QED
  BY <1>1, <1>2, <1>3, <1>4, PTL DEF QueueSpec

LEMMA TestInvariant == TestSpec => [](AInv /\ MainOrder)
<1>1. TestInit => AInv /\ MainOrder
  BY InitMainOrder, InitAInv
<1>2. AInv /\ MainOrder /\ [TestNext]_testvars => (AInv /\ MainOrder)'
  BY StepOfMain, NextAInv, NextMainOrder
<1>3. TestSpec => TestInit /\ [][TestNext]_testvars
  BY PTL DEF TestSpec
<1>4. QED
  BY <1>1, <1>2, <1>3, PTL

(* When main() returns, the capture thread has been joined, is in no call   *)
(* of the queue, and what it used is released, or all there as after a      *)
(* failed XShmDetach() (X11VideoCaptureTest.cpp:33-37).                     *)
THEOREM CaptureTestEndsClean ==
  TestSpec => [](Done => /\ thread = "none" /\ rgb_pc[Capture] = "out"
                         /\ live \in InitOutcomes)
<1>1. AInv /\ MainOrder /\ Done => thread = "none" /\ rgb_pc[Capture] = "out"
  BY DEF AInv, IInv, Handover, InThePush, MainOrder, Done
<1>2. DestroyedWhole => live \in InitOutcomes
  BY DEF DestroyedWhole
<1>3. QED
  BY <1>1, <1>2, TestInvariant, CaptureTestIsQueue, CaptureQueueIsCapture, DestroyIsWhole, PTL
================================================================================

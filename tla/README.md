# libremoteserver in TLA+

libremoteserver grabs an X11 desktop, encodes it as H.264 and serves the packets
over RTSP (live555) or to a sender library (Razor). These modules model the
threaded core of it: the queue between the stages, the capture, the encoder, the
pipeline they form, the RTSP server behind it, the sender program, the thread pool,
and two of the test programs. Line numbers refer to the sources;
`PROJECT.json` maps every definition to its lines.

## The system

| Component | State | Operations | Talks to |
|---|---|---|---|
| `BufferQueue<T>` (`src/Base/BufferQueue/BufferQueue.hpp`) | a `std::queue` of vectors, `m_size`, `m_running`, a mutex, two condition variables | `WaitePushBuffer`, `WaitePopBuffer`, `Start`, `Stop`, destructor | shared by two stages; started and stopped by *both* of them |
| `VideoCapture`, `X11DesktopCapture` (`src/VideoCapture`) | `m_start_capture`, the process thread, display, shared image, shared memory | constructor (`InitVideoCapture`), `StartVideoCapture`, `StopVideoCapture`, `DestroyVideoCapture`; the thread `UpdateVideoCapture` | pushes frames to the rgb queue |
| `VideoEncoderFFmpeg` (`src/VideoEncoder`) | `m_start_encoder`, `m_force_i_frame`, codec context and buffers, the process thread | `StartVideoEncoder`, `StopVideoEncoder`, `SetVideoParams`, `DestroyVideoEncoder`, `GenerateKeyFrame`; the thread `UpdateVideoEncoder` | pops the rgb queue, pushes to the h264 queue |
| `ThreadPool` (`src/Base/TaskScheduler`) | `m_tasks`, `m_running` (atomic), mutex, condition, workers | constructor, `CommitTask`, destructor | any client; tasks may commit tasks |
| `H264LiveVideoSource`, `H264VideoLiveServerMediaSubsession` (`src/Rtsp/Live555`) | per source `m_buffer`, `m_left` and its delayed tasks; `m_sdp_line`, `m_done`, `m_dummy_rtp_sink` | `doGetNextFrame`, `GetFrameData`, `doStopGettingFrames`; `getAuxSDPLine`, `checkForAuxSDPLine`, `createNewStreamSource` | called by live555 on the event-loop thread, where they pop the h264 queue |
| `Logger` (`src/Base/Logger`) | the instance, its mutex and stream | `Instance`, `InitLogger`, `start` | everybody |
| `sim_sender_test` (`tests/VideoTest`) | `main_queue`, and in the main loop `run`, `record_flag`, `frame_rate`, `index`, `disconnecting` | `notify_callback`, `notify_change_bitrate` on the library's thread; `main_loop_event`, `try_send_video` | pops the h264 queue; told by the sender library what happens to the connection |
| test programs (`tests`) | the order of calls in `main` | | all of the above |

**What is hard.** One thread starts and stops objects whose own threads are inside
a queue. `Stop()` of the queue and the destructor of the pool write their flag and
notify *without* the mutex, so a thread between its wait predicate and its sleep
misses both. The encoder joins its thread before it stops the queues; the capture
does it the other way round. Both use flags that are plain `bool`. A thread that
fails ends by itself and leaves its object "started". A stopped queue keeps its
content, pops that come back empty-handed leave the caller's vector as it was, and
a forced key frame does not wait for a frame. The RTSP server blocks its only thread
in the queue, shares one queue out to all its clients, and schedules tasks it never
takes back. The encoder's time stamps are counted in the thread and reset by the owner,
and its conversion of pixels lives on sizes taken at three different moments. The sender
handles one message per frame while the network comes and goes. `PROJECT.json` ("hazards") lists each
of these at its line with the properties about it.

**What makes each part correct.** The queue: bounded, first in first out, nothing
lost or invented, no lost wakeup, calls come back. Capture and encoder: no use of
memory or a codec context that the owner has released or is rewriting, a thread is
never overwritten while joinable, stop returns, destroy releases everything. The
pipeline: frames reach the client in order, are encoded twice only for a key frame,
requests for key frames are served; each codec gets its frames numbered without a gap, and
a conversion stays inside its buffers. The pool: each task runs once and is not
forgotten, the destructor returns. The server: a client gets whole packets, every
read and every DESCRIBE is answered, a description is not left without parameter sets.
The sender: it sends only on a connection that has been made, knows the state of the
network up to the messages in its queue, and ends.

## The modules

```
BoundedFifo            what a queue promises                 (abstract)
BufferQueue            mutex, conditions, wait sets          implements BoundedFifo
  MCBufferQueue        symmetry for TLC
  BufferQueueProofs
X11DesktopCapture      owner and capture thread, no queue
  X11DesktopCaptureProofs
  CaptureFifo          X11DesktopCapture x BoundedFifo      (abstract)
  CaptureQueue         X11DesktopCapture x BufferQueue      implements CaptureFifo
    X11VideoCaptureTest    main() of the capture test
VideoEncoderFFmpeg     owner and encoder thread, no queues
  VideoEncoderProofs
  EncoderFrames        VideoEncoderFFmpeg x time stamps x RGB2YUV
    EncoderFramesProofs
VideoPipeline          X11DesktopCapture x BoundedFifo x VideoEncoderFFmpeg x BoundedFifo
  VideoPipelineProofs
  FFmpegVideoEncoderTest   main() of the encoder test
H264LiveVideoSource    the sources: reads, tasks, pieces of packets
H264VideoLiveServerMediaSubsession    how a DESCRIBE is answered
LiveStreams            what the server promises its streams (abstract)
LiveServer             both x BoundedFifo x the event loop and its clients   implements LiveStreams
  LiveServerProofs
SimSender              the sender program x BoundedFifo x the network library
  SimSenderProofs
TaskPool               what a pool promises                  (abstract)
ThreadPool             mutex, condition, destructor         implements TaskPool
  ThreadPoolProofs
```

* **BufferQueue.** `pc` says where each thread is in a call. A thread reads
  `m_running` and the queue under the mutex; since `m_running` is the only thing
  that changes meanwhile, the reads of one critical section are one step, and the
  decision to wait (`PushWait`, `PopWait`) and the falling asleep (`FallAsleep`)
  are two: `Stop()` can come between them. `StopFlag`, `StopNotifyPush` and
  `StopNotifyPop` are the three statements of `Stop()`. Spurious wakeups are
  possible at any time. `ImplementsFifo` maps it to `BoundedFifo`.
* **X11DesktopCapture** and **VideoEncoderFFmpeg** are *open* components: the calls
  they make of a queue are steps that return whenever they like. What is proved of
  them therefore holds with any queue. Owner calls are split where another thread
  can see the difference: flag, queue, join, release.
* **CaptureQueue** puts the detailed queue under the capture, because the question
  is whether `join()` returns, and whether a push or pop that slept through a `Stop()`
  does. **CaptureFifo** is the same composition over a `BoundedFifo`, where every call of
  the queue, `Stop()` included, takes effect in one step; `CaptureQueue` implements it
  (`ImplementsCaptureFifo`). **VideoPipeline** uses two `BoundedFifo`s in place of
  two `BufferQueue`s, which keeps it small enough for frame numbers and liveness. For the
  side of the capture, `ImplementsCaptureFifo` is the reason that nothing is lost by
  this. For the side of the encoder it is an argument, not a proof: the encoder
  starts and stops both queues in one step of the model (`EncoderStartsQueues`,
  `EncoderStopsQueues`), and there is no encoder thread while it does.
  Its owner calls capture and encoder in any order, which the classes allow; the
  programs happen to start the capture first and stop it last.
* The two **test programs** restrict the owner and the client to one thread, `main`.
* **EncoderFrames** adds to the encoder what its thread does to a frame: `pts`, and
  `RGB2YUV`, as arithmetic on sizes: where the three planes begin, how many samples the
  loops write, what the frame and `m_yuv_data` hold. `y_size` is a static variable, so an
  encoder may find it set by another one. The queue may return a frame of any size at any
  moment, as it does after `SetVideoParams`. An encoder whose `InitVideoEncoder()` failed
  is in the initial states of `VideoEncoderFFmpeg` (its codec is "freed").
* **SimSender** is `tests/VideoTest/sim_sender_test.cpp`: the library's thread posts
  (`Notify`), the main thread takes one message per iteration and perhaps sends one packet,
  for which it pops the h264 queue. `Notify` says in which order the library may speak
  (connected, then interrupted and recovered, then over); it is outside the repository.
  `sim_connect()` is commented out in `main()`, so what the program would do with a
  connection is modelled as if it were not. Whether a frame is due, and whether the rate
  doubles, is a choice; `late` and `resumed` only observe.
* **LiveServer** is the event loop of `TestLive555`. A step is one event handled
  without a return to the loop; only a pop, which can block, is two (`TaskPops`,
  `TaskHandsOnPacket`), and nothing else is served between them. A DESCRIBE begins and
  returns in two steps (`DescribeBegins`, `DescribeReturns`) with the nested event loop
  between them. `H264LiveVideoSource` counts the pending tasks of a source, because
  `doGetNextFrame()` does not keep their tokens, and remembers what the framer is still
  missing (`missing`) and whether a task has run that answered no read (`spoiled`);
  these two only observe. Packets are told apart by their place in the group of
  pictures, since only the key frame carries the parameter sets. What live555 does
  itself (which request does what to a source, that `doEventLoop()` looks at its watch
  variable before each event) is marked external in `PROJECT.json`. A task for a
  source that was deleted has undefined behaviour: the model stops there
  (`TaskOfDeletedSource`). `m_done` starts with either value, as it is not initialised.
  **LiveStreams** has neither queue nor tasks: packets are dealt out to the streams in the
  order of the encoder, none is left out, a stream gets the rest of a packet before it begins
  another unless it stops, and each piece answers a read or is wasted on one that was given up
  (`stale`). `ImplementsLiveStreams` maps the packets on their way, wherever they are, to the
  one that is dealt out next (`Coming`), and the tasks beyond that of the waiting read to `stale`.
* **ThreadPool**: workers, clients and tasks that commit tasks. `CommitTask` is three
  steps (test of `m_running`, push, notify), the destructor three (flag, notify, join).
  **TaskPool** has no mutex and no sleepers: tasks are offered, accepted, begun and ended.
  Its `ready` is the set of workers that will look for a task before they test `m_running`
  again, which is how a pool that is being destroyed still begins some of its tasks;
  `ImplementsPool` maps one to the other.

`m_running`, `m_start_capture`, `m_start_encoder` and `m_force_i_frame` are plain
`bool`s shared without a lock (a data race by the letter of C++). Every loop that
reads one calls opaque or locking functions in between, so the compiler has to
reload it; the modules treat a read or a write as one atomic step, in any order
with the steps of other threads.

## The runs

| Run | Instance | Shows |
|---|---|---|
| `buffer_queue` | 2 producers, 2 consumers, 1 controller, capacity 2, 2 contents, symmetric | the queue never exceeds its size (`TypeOK`), `NoLostWakeup`, at most one thread misses a `Stop()` (`AtMostOneMissesStop`), `ImplementsFifo` |
| `capture_queue` | one capture, client, owner; capacity 2; every outcome of the constructor | `NoCaptureAfterFree`, `NoThreadOverwritten`, `DestroyedWhole`, `NoPushAfterStop`, `StopReturns`; every push comes back, and every pop, also one that slept through a `Stop()`, with the next frame after a restart; only a pop of the empty queue may sleep on, while there is no capture to push (`CallsReturn`); seen from capture and client, every call is one step (`ImplementsCaptureFifo`) |
| `capture_test` | `main` pops 3 frames | the test ends or the capture thread slept through `Stop()` |
| `capture_test_ends` (violated) | the same | it need not end |
| `encoder` | widths 2 to 4, heights 2 and 4, 2 frames per codec, `y_size` left by any encoder | `CodecExclusive`, `ParamsInForce`, `NoThreadOverwritten`, `PtsCountsFrames`, `ConversionFits` |
| `encoder_reopens` (violated) | two sets of parameters | a closed context is opened again |
| `pipeline` | rgb queue of 2, h264 queue of 1, frames numbered to 2 | `PipelineInOrder`, `UnforcedFramesAreNew`, `NoPacketRefused`, `EncoderCallsReturn`, `KeyFrameServed` |
| `encoder_test` | `main` pops 3 packets | at its end both threads are joined and everything is released (`EndsClean`); it ends or `main` is for ever in the join of a thread that waits for a place, the encoder's or, having slept through two `Stop()` calls, the capture's (`HangsOnlyInPush`) |
| `encoder_test_ends` (violated) | the same, and no wakeup of a `Stop()` is missed (`WakingTestSpec`) | it need not end |
| `live_server` | 2 places for streams, queue of 1, groups of 2 packets (a key frame of 2 units, another of 1), reads of 1 or 2 | `WholePackets`, `BareOnlyMeanwhile`, `CheckedSinkIsOpen`, `ReadsAnswered`, `DescribeAnswered`, `ImplementsLiveStreams` |
| `thread_pool` | 3 workers, 1 client, 3 tasks in flight | `EachTaskOnce`, `NoLostWakeup`, `AtMostOneMissesShutdown`, `DestructorReturns`, `TasksRun`, `ImplementsPool` |
| `sim_sender` | h264 queue of 1, a limit of 2 frames, 3 messages, 2 interruptions | `RateKnownWhenSending`, `NetworkStateKept`, `LateFrames`, `SenderEnds` |

**Bounds.** Two threads per side and two places are the least for which one waiting
thread can steal another's wakeup and for which order can go wrong. The safety
properties of the queue are proved for every size. Two places for streams hold a
DESCRIBE with a playing client, or two clients; `MaxTasks` = 2 lets a source have the
task of its read and one of a read that was given up. A key frame of two units and
reads of one or two give reads that take a piece, the rest, and a whole packet. In the pipeline a frame is known
by its number; `MaxFrame` is the last number and every later frame has it, so that
runs go on for ever. Two numbers tell old from new, which is all that order and
`UnforcedFramesAreNew` ask. `Tasks` bounds the tasks in flight, not the tasks ever
committed. Three workers are the least for which two can be asleep while a third
decides to wait. The programs pop 500 times; three pops (more than the queues
hold) already meet an empty, a partly filled and a full queue. Sizes of 2 to 4 hold an odd
one, and pictures that grow and shrink in either direction; `ConversionFits` is proved for
all sizes. Two frames per codec are enough for a count that was not reset to show.
In the sender, `Limit` stands for 20000, and with 2 the limit is reached and passed;
`MaxQueue` bounds the messages posted while the connection lasts (the end of it always
fits), and three of them hold an interruption, a recovery and a change of bitrate before
the main thread looks; `MaxResumes` lets a recovery be handled after the limit, twice.

**Fairness.** Threads run (weak fairness of each thread's steps). A step that needs
a mutex others take time after time has strong fairness: a thread that finds it free
again and again is in the end let in. No fairness is assumed of failures, of
spurious wakeups, of key frame requests, or of the owner *beginning* a call. In the
pipeline a call that finds a stopped queue is not counted on to return
(`Refusals`), because the wakeup may have been missed; a call that can move a buffer
is, which `CallsReturn` of `CaptureQueue` justifies for one producer and one consumer: it
obliges a pop from whatever point of its call it is at, asleep through a `Stop()` and a
restart included, and lets it sleep on an empty queue only. The client is
assumed to go on popping where the property says so. `FFmpegVideoEncoderTest` does not
count on refusals either; only `WakingTestSpec` does, to show that the hang of finding 2
needs no missed wakeup. There the
codec is also assumed to go on giving packets; that it gives at most one for a frame, as its
`zerolatency` tuning (VideoEncoderFFmpeg.cpp:136) has it, is built into every module with an
encoder. In `LiveServer` the encoder goes on for ever;
the tasks of each stream, and the checking task, have strong fairness, because the event
loop runs delayed tasks in the order they are due but is again and again blocked in a
pop; requests have none. In `SimSender` the main and the encoder thread are scheduled, the encoder
goes on pushing, and the
library ends a connection it was asked to end: a capture or encoder thread that died, which
leaves `main` in its pop (sim_sender_test.cpp:185), is not covered by `SenderEnds`. In `ThreadPool` tasks are assumed to end.
`CHECK_DEADLOCK FALSE` is used where the system really stops: at the end of a
program and after the pool's destructor.

## What is proved

TLAPS checks, for every value of the constants:

* **BufferQueueProofs**: `TypeCorrect`, `WaitingIsJustified`, `NoWakeupIsLost`,
  `OneThreadMissesStop`, `QueueImplementsFifo`. The inductive invariant is
  `TypeOK /\ WaitIsJustified /\ NoLostWakeup`. `NoLostWakeup` is a counting argument:
  while a consumer sleeps there are at least as many *woken* consumers as buffers. A
  push adds a buffer and wakes one; a pop takes a buffer and may use up one wakeup;
  a thread that falls asleep does so on an empty queue, and that needs
  `WaitIsJustified`, i.e. the mutex. The same mutex is why at most one thread
  misses a `Stop()`: only its holder can be between the test and the sleep. The
  refinement maps every critical section to `Put`, `Get`, `Refuse` or a stutter.
  Assumed: the threads are finitely many and the roles disjoint (`QueueAssumption`).
* **X11DesktopCaptureProofs**: `CaptureUsesLiveMemory`, `ThreadIsNotOverwritten`,
  `DestroyIsWhole`, of the capture with any queue. `CaptureQueueIsCapture` shows that the
  capture over the detailed queue is an implementation of that, so that they hold of it
  too; `NothingIsPushedAfterStop` (`NoPushAfterStop`) follows with `InThePush`: the thread
  is inside the queue exactly while it is in its push. `CaptureQueueKeepsPromises` instantiates
  the lemmas of `BufferQueueProofs` for this queue and these two threads.
* **CaptureQueueImplementsFifo** (same module) is the refinement of `CaptureFifo`. The three
  statements of `Stop()` have to become one: the mapping says that the owner is in its join
  as soon as the flag is false, so that the flag is the step and the two notifications are
  stutters. `InStop` (the owner is between the three statements only while it stops the
  queue) is what `AInv` adds to the invariants above. Every step of the mutex, the
  conditions and the wait sets then maps to `Invoke`, `Put`, `Get`, `Refuse` or a stutter
  (`CallIsAtomic`, `StopIsAtomic`). `CaptureTestIsQueue` and `CaptureTestEndsClean` carry
  all this to the program: what `main` of the capture test does is allowed by
  `CaptureQueue`, and at its end the thread is joined and out of the queue.
* **VideoEncoderProofs**: `CodecHasOneUser`, `ParamsAreInForce`,
  `ThreadIsNotOverwritten`. Neither property is inductive: it has to be known which
  owner states a running thread is compatible with. That is `Handover`: a thread in
  its loop means that the owner is idle or joining, a started encoder means an open
  codec with the parameters set.
* **EncoderFramesProofs**: `CodecHasOneUser`, `ParamsAreInForce` and `ThreadIsNotOverwritten`
  are carried over to the encoder with its frames, which implements the one without
  (`FramesAreOfTheEncoder`). `FramesAreNumbered` needs `Counting`: the count is the number of frames sent, plus
  one while a frame is on its way to the codec, and 0 once the codec is closed and its
  owner gone on; the window between close and reset is what makes it more than `pts`
  itself. `ConversionsFit` needs `Shrinking`: as long as nothing has grown, the picture is
  at most as wide and as high as the one `m_yuv_data` was made for, and `y_size`, once set,
  is between the sizes of the two; the rest is arithmetic of products (`PixelsMonotonic`,
  `SamplesOfPixels`). `SamplesAreBytes` bounds the three colour formulas.
* **VideoPipelineProofs**: `PacketsAreTaken` (`NoPacketRefused`), from the invariant of the
  encoder, and `FramesStayInOrder` (`PipelineInOrder`), for all capacities and any number
  of frames. What is on its way is seven stages, oldest first. Every step moves one buffer
  from a stage to the one before it, and `MovesOn` shows that such a move keeps the order;
  a push that is in progress has something to bring (`PushesBring`). The capture and the
  encoder come in through their own invariants, because they are instances:
  `PipelineOfItsParts` shows that the pipeline implements each of its four parts, and
  `PartsStaySafe` that what is proved of capture and encoder alone holds of them here.
  `PlainFramesAreNew` (`UnforcedFramesAreNew`) needs `CaptureClosesIt`: while the encoder's
  thread runs, a closed rgb queue was closed by the capture, because the encoder stops its
  queues only after the join.
  `EncoderTestIsPipeline` does for `FFmpegVideoEncoderTest` what `CaptureTestIsQueue` does for
  the other test. `TestEndsClean` (`EndsClean`) rests on `ProgramOrder`, which says what each line
  of `main` has left done, and on `CaptureHandover`, the capture's counterpart of `Handover`;
  `TestFramesAreNew` on the rgb queue being open under the encoder's thread, because `main`
  stops the capture after the encoder: in this program nothing is encoded twice.
* **SimSenderProofs**: `RateIsKnown` from `ConnectFirst` (until the rate is set nothing is
  recorded, and in `main_queue` a connection comes before every recovery); `NetworkIsKnown`
  (`NetworkStateKept`), which is inductive; `FewFramesAreLate` from `LateBudget` (after
  `sim_disconnect()` a frame more is possible only while `record_flag` is set, and only a
  recovery sets it again). Three steps use the queue and the others leave it alone
  (`OtherStepsLeaveQueue`); `SenderUsesQueue` shows that `main` and the encoder thread
  keep to the protocol of the queue. Assumed: what `SenderAssumption` says of the
  constants.
* **ThreadPoolProofs**: `TypeCorrect`, `WaitingIsJustified`, `NoWakeupIsLost`,
  `OneWorkerMissesShutdown`, `TasksRunOnce`. `NoLostWakeup` counts the threads that
  will look at the queue *or are about to notify*, because `notify_one()` comes after
  the unlock; a thread that notifies is replaced by the one it wakes.
  `PoolImplementsTaskPool` (`ImplementsPool`) needs `Held`: what a thread holds tells where it
  is (a worker has a task from the taking to the end, inside `CommitTask()` too). Then
  a critical section that takes a task is `Begin`, a test of `m_running` that fails is a
  stutter because the worker had stopped being ready when the flag fell, and the notifications
  are stutters.
* **LiveServerProofs**: `ChecksLivingSink` and `DescriptionIsCompleted` from the
  invariant `HandlerAndTask` (the sink pointer is set only until the line is found, the
  checking task is pending only while `m_done` is not set), and `ClientsGetWholePackets`
  from `WInv`: only a live source pops, only when nothing is left of its packet, and no
  handler returns during a pop; the rest is the arithmetic of one piece (`HandOnFacts`).
  `TypeCorrect` adds who is in a call of the queue and with what (`CallsInv`).
  `StreamsAreDealt` (`ImplementsLiveStreams`) adds `Consecutive`, that the packets from the
  oldest one queued to the one the encoder makes next follow each other without a gap, and
  `ReadHasTask`, that a read that waits has a task; a task is due to it or stale.
  Assumed: what `ServerAssumption` says of the constants.

`WaitIsJustified` (a waiting thread has reason to wait) is proved of the queue and of the
pool and is not a property of a run: it is what `NoLostWakeup` rests on. The type
invariants of `ThreadPool`, `EncoderFrames`, `SimSender`, `VideoPipeline` and `LiveServer` are proved
(`TypeCorrect`) and not run.

Only model-checked: the liveness properties (out of the prover's reach:
`CallsReturn`, `StopReturns`, `EncoderCallsReturn`, `KeyFrameServed`, `SenderEnds`,
`ReadsAnswered`, `DescribeAnswered`, `DestructorReturns`, `TasksRun`, and that the test
programs end or hang in no other way than the one or the two they name:
`HangsOnlyOnMissedStop`, `HangsOnlyInPush`).

## Findings

1. **A stop can be slept through** (`capture_test_ends`). `Stop()` (BufferQueue.hpp:52-55)
   does not take the mutex. If the capture thread has read `m_running` and not yet
   fallen asleep, `StopVideoCapture()` waits in `join()` for ever unless somebody
   pops, and in X11VideoCaptureTest nobody does. `HangsOnlyOnMissedStop` shows that
   this is the only way. `~ThreadPool` (ThreadPool.hpp:70-71) is built the same way:
   `DestructorReturns` shows that one worker that missed the shutdown is all that can
   keep it waiting. Setting the flag under the mutex would cure both.
2. **The encoder joins before it stops its queues** (`encoder_test_ends`,
   VideoEncoderFFmpeg.cpp:197-200). A caller that also is the one who pops the
   h264 queue hangs when that queue is full, even if no wakeup is missed. `HangsOnlyInPush`
   shows that the test hangs in this way or as in finding 1: it joins the capture too
   (FFmepgVideoEncoderTest.cpp:53), whose thread may have fallen asleep on the full rgb queue
   after the `Stop()` of the encoder and that of the capture had both notified.
   `EncoderCallsReturn` shows that a client that goes on popping is enough to let the
   encoder's owner out.
3. **A closed codec context is opened again** (`encoder_reopens`), which the FFmpeg
   header the encoder is compiled with says is not supported.

Two things the encoder does which no text of the repository denies, and which
`ConversionFits` leaves out by name: with an odd width or height the chroma planes overlap
(`Even`), and a picture made larger by `SetVideoParams`, or an encoder of another size than
the first of the process, does not fit the planes (`misfit`); frames that no longer have
the size `y_size` remembers are dropped without a word and the last picture is encoded
again. The sender that was told the end of the connection hangs in the destructor of the
encoder when the h264 queue is full (`HangsOnFullOutput`): this is finding 2 again.

What the RTSP server does besides, which no text of the repository denies and which
the properties of `LiveServer` therefore leave out by name:

* A source closed between `doGetNextFrame()` and its task leaves the task behind
  (H264LiveVideoSource.cpp:37), and the end of the first DESCRIBE closes one. The task
  then runs on a deleted object. `unscheduleDelayedTask()` in `doStopGettingFrames()`
  and the destructor would cure this and the next.
* After PAUSE the task of the read that was given up takes a piece nobody gets
  (`spoiled`), so that a PLAY can begin in the middle of a packet.
* A playing client can take every key frame while a DESCRIBE waits for one
  (`OthersPlay` in `DescribeAnswered`): with an even group of pictures and two streams
  that take turns it does.
* `m_done` is not initialised (H264VideoLiveServerMediaSubsession.hh:52): if it is not 0,
  the first DESCRIBE is answered without parameter sets and so is every other (`GivenUp`).

## Not modelled

* The display connection is taken as open until `DestroyVideoCapture` forgets it (the
  code never closes it); the values of pixels, the video format, the codec's rates and
  profile.
* A capture or an encoder started although its constructor failed (null pointers): the
  callers check neither, the models have the failed objects and exclude their start. The
  same for a destroyed encoder that is started again.
* What a task computes, its future, and tasks that wait for other tasks.
* An RTSP server whose encoder is stopped (`TestLive555` never does), what its other
  stream (a file) serves, several live subsessions, HTTP tunnelling and the messages
  printed at its start: one call after another before the event loop begins.
* In the sender: the bitrate (it matters to a frame size that is overwritten, line 188, and
  to the rate, whose change is a choice), the code under `#if 0`, `g_info`, and the
  capture's destruction after the encoder's.
* The logger: nothing in the program depends on what is logged, and no text of the
  repository says how the records of two threads may mix. Its races are listed as hazards.
* Factories (one constructor call each), an empty header, the SDL player (reads a file and
  draws it).
* FFmpeg, live555, X11 and Razor. Their headers are in `src/include` and are nearly all of
  the lines of the repository that are not blank: they declare interfaces and hold no
  code of this program. They appear as far as the program relies on them.

## What is left

1. The pipeline with detailed queues under the encoder, as `CaptureQueue` has one under the
   capture, and the test programs over it; the state spaces are large, so that this is
   work for a proof more than for TLC.
2. The sender with the detailed `BufferQueue`.

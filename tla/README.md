# A TLA+ verification of Simian

Simian is a desktop assistant in Python: a Tk window that chats with a local
language model and records the screen, a small HTTP API between the window and
the model, a listener that starts the assistant on a spoken phrase, and a
number of services around them. Beside it the repository carries the sources
of FFmpeg 7.1.1. This directory models the parts with behaviour of their own,
checks them with TLC on small instances, and proves the most important results
with TLAPS for every value of the constants.

Two facts about the commit the modules were written from. `gui/__init__.py`
imports a name `utils.greetings` does not define, and lines 99-100 of
`gui/simian_gui.py` are no valid string literal, so the window cannot be
imported as committed; the modules describe its handlers as they are written.
And no Python file refers to `ffmpeg-7.1.1/`: it is a system of its own in the
same repository. Of its 4,000 C files the ones that decide what its threads do
are modelled.

## The system

| Part | State it keeps | Operations | Module |
|---|---|---|---|
| Screen recorder, `modules/screen_recorder.py` | `_thread`, `_stop`, `last_clip_path`, the clip files, one daemon thread per recording | `start`, `stop`, the thread's `_run` and `_writer` | `ScreenRecorder`, `RecordingService` |
| Window, `gui/simian_gui.py` | the Tk event loop, the clip list, armed timers | the buttons Send, Stop Rec, Start Monitor, Stop Monitor; the timers `tick` and `refresh_clips`; message boxes; closing | `SimianGui` |
| Screen monitor, `services/screen_monitor.py` | a flag under a lock, one daemon thread per effective start | `start`, `stop`, `_run` | `ScreenMonitor` |
| Memory manager, `memory/memory_manager.py` | `self.memory` and one JSON file | construction, two stores, `clear_memory`, `get_recent_conversation` | `MemoryManager` |
| Chat path, `modules/llm_client.py`, `routes/chat.py` | the request in flight, the API's handlers | `chat`, `chat_api` | `ChatPath` |
| Launcher, `simian_launcher.py` | the API thread, the mode | full, api, gui | in `ChatPath` (mode full) and `WakeListener` (choice of the mode) |
| Wake listener, `listener_bootstrap.py` | a JSON configuration, the audio queue | create and load the configuration, listen, confirm, launch | `WakeListener` |
| FFmpeg: slice threads, `libavutil/slicethread.c` | two atomic job counters, a flag per worker, a flag for the caller | create, execute, free, the workers' loop | `SliceThread` |
| FFmpeg: frame threads, `libavcodec/pthread_frame.c` | a record per decoder thread, the turn, the stash, `hwaccel_mutex`, `async_lock` | receive a frame, flush, free, the worker, the setup | `FrameThreads` |
| FFmpeg: thread queue, `fftools/thread_queue.c` | a bounded FIFO of several streams, two ends per stream | send, receive, finish from either side | `ThreadQueue`, `StreamChannel` |
| FFmpeg: transcoding scheduler, `fftools/ffmpeg_sched.c` and the loops of `ffmpeg_demux.c`, `_dec.c`, `_filter.c`, `_enc.c`, `_mux.c`, `ffmpeg.c` | queues, waiters, pre-muxing queues, `terminate`, `task_failed` | start, send, receive, end and exit of each task, choking, stop | `Scheduler` |

What is left out is listed under "Not modelled".

How they interact. The launcher's process holds the Tk main thread, the daemon
thread of the API and the daemon threads of the recorder, and ends, with all of
them, when the window is closed. The window calls the recorder directly and
shares its fields with the recorder thread without a lock; it calls the API
over HTTP with a blocking request, and the API calls Ollama. The wake listener
is a process of its own, which starts the launcher and ends. The screen monitor
has a lock for callers on any thread. The memory manager has none and is
modelled with one caller at a time: no part that works today calls it from two
threads. In FFmpeg each task of a transcoding is a thread, and tasks meet in
thread queues only, apart from the scheduler's own locks; a decoder or a filter
may use frame threads or slice threads inside its task.

What is hard about each, and what makes it correct:

- **Recorder.** `stop()` waits three seconds at most, so a recorder that was
  told to stop can outlive it, one event serves all threads, and clips are named
  by local time in seconds. Correct means: never two recorders, no recorder
  resumed after it was told to stop, no start silently lost unless the join gave
  up, no recording overwritten by one named at another time.
- **Window.** One thread serves everything; a join or a request blocks it, a
  message box serves timers but no buttons, tick chains may overlap. Correct
  means: what the box and the list say agrees with the disk, chains die out,
  the window comes back.
- **Monitor.** The flag is changed under the lock and the thread created
  outside it; the loop looks once a second. Correct means: a set flag is
  served, concurrent starts make one loop, every loop ends.
- **Memory.** Each save truncates the only copy before writing it. Correct
  means: an acknowledged entry is in every file that can be read, what was
  cleared stays so, order is kept.
- **Chat.** Either side can time out, the API works on after the client has
  gone, and another server may have the API's port. Correct means: a reply
  appears under its own message, each message comes to exactly one end, the
  window comes back (not so with another server, which can keep it for ever).
- **Wake listener.** The configuration is created non-atomically and edited by
  the user, speech is queued while the listener is busy, most errors are
  swallowed. Correct means: one launch per run, no wake phrase passed over, and
  no file that is missing or cut off stops it (one whose JSON has another shape
  does).
- **Slice threads.** Threads draw thread and job numbers from two counters with
  no lock, and `execute()` waits for one report, not for the workers. Correct
  means: every job once, thread numbers of its own for each running job, no
  wake-up lost between two calls.
- **Frame threads.** The user's thread and N workers meet over state words, and
  two locks are held across packets. Correct means: output in input order,
  contexts inherited in stream order, unsafe hardware decoding one at a time,
  no circle of waiting.
- **Scheduler.** Sources are choked by timestamps of streams they may not feed,
  the muxer starts late with queues to flush, every task may fail or be told to
  stop anywhere. Correct means: each stream complete and in order, sources
  together, every task joined.

## The modules

- `RecordingService` is what callers of the recorder rely on: off, recording,
  stopping, with no way from stopping back to recording and a fair `WindUp`.
- `ScreenRecorder` has the program counter of each recorder thread (`probe`:
  first capture; `open`: clip named, file not yet opened; `loop`, `frame`,
  `release`), the shared fields, the caller, and two clocks: `clock`, which bounds
  the join, and `wall`, the local time that names clips and can be set back
  (`SetBack`, by hand or at the end of daylight saving time). `footage` says whose
  recording each file holds; `asked`, `timedOut`, `era` (how often local time was
  set back) and `named` (when each thread named its clip) are history. A capture
  either works, yields nothing or raises (`Quit`); that abstracts lines 34-72. A
  thread that cannot be started leaves the event clear and `_thread` one that
  never was, on which `join()` raises (`StartFails`, `Joins`). `phase` maps its
  state to `RecordingService`.
- `SimianGui` extends it with the event loop: `place` is the handler the Tk
  thread is in, `chains` how many ticks are armed for each second they count from,
  so that two chains begun in one second are two. Every recorder call is made by
  the handler that makes it in the code; nothing else runs while it is blocked.
  A call that raises ends the handler, and in `Launch` the program.
- `ScreenMonitor` makes each locked block one action and the thread creation
  another, which may fail. `epoch` and `born` are history: how often the flag
  was turned off, and in which epoch a loop was started.
- `MemoryManager` splits each write into truncation and dump and can fail or
  crash between any two steps. A file that is cut off is `Torn`: no proper
  prefix of a JSON object is JSON. `acked` and `cleared` are history.
- `ChatPath` has the API thread, the call of each message (`posted`, `asking`,
  `replied`), the two timeouts in units of time, and the transcript. Time does
  not pass beyond a timeout that is due. `Outcomes` are the kinds of reply
  `chat_api` tells apart. If another server has the port (`api` is `foreign`), the
  window posts to it and shows what it answers (`ForeignAnswer`, `ForeignChunk`).
- `WakeListener` has the configuration file, the listener's main thread, the
  queue its audio callback fills, and the launched assistants with the mode
  asked for and the mode run. The file is missing, cut off (`Torn`), JSON that is
  no object, an object whose wake phrases are no strings, or has a boot mode; the
  user may change it at any time (`EditConfig`). Two of these make the listener
  raise: no object in `ReadRaises` (line 86 is outside the `try`), and phrases
  that are no strings at the first transcript, in `HearRaises` (line 72).
- `SliceThread` has a program counter for the caller (`Main`) and each worker,
  one step per access to a counter and per wait or signal, with the locals of
  `run_jobs()` in `my`. A worker holds its `w->mutex` except inside
  `pthread_cond_wait()`, so holding it is to have a `pc` other than `wait`.
  `ran` is history: how often each job has begun.
- `FrameThreads` has one record per `PerThreadContext`, the turn and the stash
  in `fctx`, the two locks as their owners, and the user's thread. A packet is
  its number; `ctx` is the packet whose header a context comes from. The codec
  is external: at each packet it may read a header, choose the hwaccel or none,
  wait for the picture before, give a frame, fail, also on an empty packet.
  `Updated` is a copy of a context, `FailedCopies` what each early return of
  `update_context_from_thread()` leaves of it: a submission whose copy fails
  returns the error, a flush goes on with it (line 994). `setup_of` (the last
  packet with a header) and `lost` (a flush left its context behind) are
  history.
- `ThreadQueue` gives each operation as the set of its outcomes on a queue
  value, empty while the call blocks; `Scheduler` uses it for every queue.
  `StreamChannel` is what one stream of such a queue promises.
- `Scheduler` composes demuxer, decoder, filtergraph, encoder, muxer and the
  main thread over one copied and one encoded stream, the latter from a decoder
  or from a filtergraph that is a source itself (`fed`). A packet is its number
  and dts. A mutex is a variable where it is held over more than one step
  (`mux_ready_lock`, `schedule`); the read of `terminate` and the setting of
  the waiters are separate steps, as in the code.

An operator introduced as a *bug* or *variant* of the definition that follows
it is a plausible mistake in that piece of code (a missing guard, an omitted
reset, a swapped slice). With the variant in place of the original the property
`PROJECT.json` pairs it with fails, so no property is true by accident of the
model. No specification uses a variant.

## What the runs check

`MCx.tla` with `MCx.cfg` is the instance of module `x`.

**recorder** (three threads, join of 3 s, clock to 4, local time set back once).
Three sessions are enough for a thread that outlived its join, a start ignored
because of it, and a new one after it; the clock lets one join run out and
sessions share a second or not; and the session before local time is set back,
and one after it, can have the same name. `OneRecorder`, `StartHonoured`,
`ClipsKept` (a recording is overwritten only by one named in the same second or
after local time was set back, however late its file is opened), and the
refinement `ImplementsService` of `RecordingService` (`phase <- phase`) with its
liveness. 864 thousand states.

**gui** (two threads, join of 1 s, clock to 1, local time set back once, two ticks
armed for one second). Two sessions make the races of a stop with a second start
and with old tick chains, also of one second; a join of one second can run out
when it begins at second 0. The three-second join of the code only
makes that rarer. `StoppedIsSettled` says what box, list and closing are worth
if the join saw the recorder's end; `WindowThaws` is liveness: no handler
freezes the window for ever, and tick chains die out once the recorder is over;
that an old chain counts beside a new one while it lives is no violation. 143
thousand states.

**gui_saved** shows the disagreement with the box `Saved: <path>`: see
Findings.

**monitor** (four loops, four stops). A loop can sleep through more than one
stop and run beside older and younger loops. `FlagServed`,
`OneLoopPerOnPeriod`, `EndsAfterOwnStop`, and `StopDrains` (liveness).

**memory** (four entries, any number of crashes and errors). Enough for an
acknowledged entry, a failed save, a clear and a store after each.
`AckedIsKept` (in every readable file and in the live process),
`ClearedStaysCleared`, `RecentIsRecent`, and `TornIsFinal`: a file torn by a
crash is never repaired and no later start gets past it.

**chat** (three messages, timeout of two units). The third message can be sent
while the API works on two that were given up. `RepliesFollowTheirMessage`,
`EveryMessageAccounted`, `SendReturns` (liveness; with the API at its port). 8,807
states.

**wake** (three runs, queue of three). One run can be killed while it creates
the file, the next meets the torn file or one the user edited, two can launch.
`OneLaunchPerRun`, `WakeIsHeard` (liveness: whatever is in the file but JSON
without an object, the listener gets past it, and with phrases it can compare it
acts on the wake phrase; each of the two exceptions is stated in the property and
happens in the run). 79 thousand states.

**wake_mode** shows that the boot mode passed on is not the one run.

**slices** (pools of one to four threads, one to five jobs, two calls). Fewer,
as many and more jobs than threads; the second call begins while workers of the
first are still on their way to their wait; creation may fail at any worker.
`EachJobOnce`, `OwnNumber`, `NoLostWakeup`, `CallsReturn` (liveness). 137
thousand states.

**frames** (two decoder threads; codecs with and without `update_thread_context()`
and delay; no hwaccel, one that is neither thread-safe nor async-safe, one that is
async-safe only, one that is both; three packets, one incident). With three
packets each thread is used again while the other is at work, so that the
turn wraps; an incident is a flush, an error, a failed allocation, submission or
copy, after which decoding goes on; a copy that fails in a flush costs no incident
of its own. The end of the stream and freeing are always possible.
`ContextIsPredecessors`, `HwaccelAlone`, `OutputInOrder`, `CallsReturn`
(liveness). `ContextIsPredecessors` excepts, until the next header, what
`ff_thread_flush()` leaves stale: its failed copy, and an empty packet given to a
codec without delay. 529 thousand states. A third thread would multiply them; the
proofs below cover any number.

**sched** (two packets per stream, queues of one, pre-muxing queues of three,
tolerance of one packet, one incident). The queues are full after one item and
the sources are choked after the first packet, so every wait of the code
happens; three pre-muxed items hold both packets and the end of a stream, so
that this queue is never full here and what happens then is the matter of
**sched_premux** alone. The incident is an error in any task, a limit of the output, or the user's stop, at
any point. `Delivered`, `BoundedLead`, the refinement `QueueIsChannels` (each
stream of the muxer's queue implements `StreamChannel`), `TranscodeEnds`
(liveness). 519 thousand states. That a source can be unchoked after `sch_stop()`
(`ffmpeg_sched.c:1277`) is in the model but in no property: it then runs to the end
of its finite input, which is late and not never.

**sched_premux** (the same with a pre-muxing queue of one and no incident)
shows the transcoding that hangs: see Findings.

Deadlock is not checked in any run: every one of these systems may stop for
good (the user does nothing more, the window is closed, the transcoding is
over, a bound is reached). That nothing stops which should go on is what the
liveness properties say.

### Bounds

`Threads`, `Horizon`, `MaxSetBacks` (recorder, window), `MaxChains` (window), `Loops`, `MaxStops` (monitor),
`MaxEntries` (memory), `MaxSends` (chat), `MaxHeard`, `MaxRuns` (wake),
`MaxThreads`, `MaxJobs`, `MaxCalls` (slices), `MaxPackets`, `MaxIncidents`
(frames), `N`, `MaxIncidents` (sched). They appear in guards only: at a bound
calls stop being made, inputs end, or the clock stands still. No liveness
property relies on the clock going on except `SendReturns`, whose clock has no
bound.

### Fairness

- Recorder threads and monitor loops are weakly fair: the scheduler runs them
  and a capture returns. A capture that hangs for ever is outside the model;
  the join's timeout is there, as an action that may happen.
- A handler the Tk thread has entered goes on (weak). A due timer fires even
  if the user keeps pressing buttons, since Tk serves due timers between
  events; buttons are pressed again and again, so this is strong fairness for
  each armed tick.
- `SimianGui` takes for granted that a request of `on_send` ends; `SendReturns` of
  `ChatPath` shows it for the assistant's own API.
- In `ChatPath` time passes and due timeouts fire. `Tick` is strongly fair
  because the timeout of another request can hold it up for a moment. Ollama
  is under no fairness: it may stay silent or trickle for ever.
- The wake listener's main thread goes on while it has something to do.
- In `SliceThread` and `FrameThreads` each worker and, once it has made a call,
  the caller is weakly fair; jobs and a codec's calls end. Nothing makes a
  caller call. Weak is enough although locks are taken: only a thread that has
  a packet takes one, and the caller waits for each thread in its turn, so that
  nobody is overtaken for ever.
- `Scheduler` has one weak fairness for all threads together, less than the
  operating system gives. It is enough because reading, coding and writing end
  and the input is finite.
- No user action, crash, kill or failure is ever fair.

## What is proved

Eight modules `xProofs`, each for every value of the constants of `x`, from the
named assumption on them (`ConstantsAssumption` and the like, which TLC
evaluates in the runs). A `TypeCorrect` theorem states the type invariant. Every
invariant a passing run checks is stated by a theorem.

**`SimianGuiProofs`, the recorder.** The theorems about `ScreenRecorder` come
first in this module. `OneRecorder` and `StartHonoured` are not inductive
alone. The strengthening `IInv` adds the types and `Settled`: when the caller is
outside `stop()`, the event is set and the last join did not time out, no
recorder is alive; and nobody asked for a recording while the caller waits. A
recorder step brings no thread to life and touches nothing the caller decides
by (`RunStep`), a start that clears the event does so only with no recorder
alive, and a join that ends normally establishes `Settled`. `ClipsAreKept` needs
`NamesKept`: `OwnClip` (the thread about to open a file is the one that named the
last clip, and a file holds the recording of a thread that named it so), `Past`
(no name was made later than now) and `Ordered` (of two names made between the
same two set-backs the later second is the later name, so that equal names were
made in the same second). A thread that opens a file over another's recording has
its name, hence its second. `ImplementsRecordingService`: each step maps to a step
of the abstract service or a stutter (the safety part).

**`SimianGuiProofs`, the window.** `WindowUsesRecorder` is the refinement `GuiSpec => Spec`:
each handler takes recorder steps the recorder's specification allows, or none,
so that every theorem above holds in the window (`OneRecorderInWindow`).
`HandlersMatchCalls` states `Calls`, which ties the place of the event loop to the
recorder's caller, and that the list has only clips that exist. From these and
`Listed` (a handler which is over has listed what is on disk) follows
`StoppedIsSettled`.

**`ScreenMonitorProofs`.** `EpochHasItsLoop` (while the flag is set a thread of
this epoch is not unborn and not done; while it is clear every thread is of an
earlier epoch) and `EpochsDiffer` (no two threads of one epoch) make
`FlagServed`, `OneLoopPerOnPeriod` and `EndsAfterOwnStop` inductive.

**`MemoryManagerProofs`.** `AckedIsKept` and `ClearedStaysCleared` are inductive
together with `StepState`, which says what the file holds at each step of a
write, and `Lists`, that both copies are in order and hold nothing that was not
stored. `RecentIsRecent` follows from these. `TornIsFinal` needs none of them: a
torn file with the process down or loading is a state no step leaves.

**`ChatPathProofs`.** The transcript properties are inductive with `Unsent`
(nothing has happened about a message that was not sent) and `LastLine` (the
message waited for is the last line, and has neither reply nor box).

**`WakeListenerProofs`.** `LaunchLeft`: a run under way still has the launch it
is entitled to, and has acted on a phrase only if it is about to launch.

**`SliceThreadProofs`.** The heart is `Counting`: during a call the threads that
have not drawn a number yet, and the ones in jobs, are counted exactly by the
two counters. With it `RanInside` says which jobs have begun, `OneReport` that a
thread reports only when no job is running or to come, and `AsleepRest` that the
workers of the last call have used their wake-up before they can be woken again.
`EachJobOnce`, `OwnNumber` and `NoLostWakeup` follow.

**`FrameThreadsProofs`.** Three groups of conjuncts. *Order*: `Turn`, `Packets`
and `EndComing` say that the threads from `next_finished` on hold the packets in
flight, one each, in the order they were sent, that all others have nothing to
give, and that after the end only empty packets follow; hence `PacketsInOrder`.
*Setup*: `OneSetup` (only the thread last submitted to can be in its setup) and
`Context` (that thread, or thread 0 after a flush, has the context of the last
header, unless a flush has `lost` it; a header that is read ends this) give
`ContextFollows`. *Hwaccel*: `OneKind` (with `SafeKind`, what a failed copy leaves
of a hwaccel), `Stash` (empty from a submission until
its thread fills it) and `Locks` (what each thread owns at each place) give
`OneHwaccelAtATime`. Types and these properties need no bound on
the packet numbers. That the numbers stay below the bound `Sent`, so that
`TypeOK` holds, is a theorem of its own (`TypeCorrect`), because a packet is
submitted for reasons other than the user's: draining submits an empty packet for
each thread collected, and a flush or an error lets it begin again. `BInv` adds
to the invariant above `Room` (what was sent, what the user may still send and
what is due for draining are within what the packets left and the incidents left
pay for, an incident paying for N + 2 submissions), `Calls` (when the user's
thread is in which call) and `Finishing` (a worker that
is through with an empty packet has an end or an error to give, no frame).

**`SchedulerProofs`.** The queue of one stream is defined by selecting from a
sequence (`OfStream`). The selected sequence is characterised by the places it
picks (`OfStreamPicks`), and what appending, taking the first item and dropping
the items before it do to it follows by `SetInduction`, induction over a set of
naturals, which needs no theorem with an operator parameter (`LeastOf`: a set of
naturals has a least element). `TypeInv` strengthens `TypeOK` with what a thread
has in hand at each place, in particular that the muxer's senders hold a packet
of their own stream. From it `QueueImplementsChannels`: every step of the
transcoding is a step of `StreamChannel` on each stream of the muxer's queue, or
a stutter.

`SourcesStayTogether` is `BoundedLead`. `LeadInv` says, while both streams are
under way: `Gate`, what `schedule_update_locked()` has set or is about to set the
waiters to, and that a source that is not choked was not ahead when last looked
at; `Copied`, that the demuxer's packet is the next of its stream; `Chain`, that
the encoder's frame, its queue and the filtergraph's frame are consecutive from
the last dts on, so that no more than `QueueSize + 1` frames are past the check;
`Coding`, when the encoder still has its input; `Ahead`, the bound on what the
filtergraph has produced. It is inductive together with `TypeInv`. The bounds,
the tolerance for the copied stream and `QueueSize + 1` more for the coded one,
are exact: TLC finds states that attain them.

Only model-checked: all liveness properties, which are beyond the prover
(`SendReturns`, `WindowThaws`, `StopDrains`, `WakeIsHeard`, `CallsReturn`,
`TranscodeEnds`, the liveness of `ImplementsService`); and one
action property, `Delivered` of `Scheduler`. It relates the item the muxer takes
to all items on their way through five tasks and four queues, the pre-muxing
queue included, and its invariant is a chain like `Chain` over all of them.

## Findings

- `gui/simian_gui.py:127` says `Saved: {out}` of a clip that may never have
  been opened, or is still being written after the join gave up (`gui_saved`).
- `listener_bootstrap.py:123` passes `--mode={boot_mode}`, which
  `simian_launcher.py:18` does not read (`wake_mode`).
- `fftools/ffmpeg_sched.h:68-71` promises that badly interleaved input leads to
  an eventual transcoding failure. A pre-muxing queue that is exactly full also
  refuses the end of its stream (`ffmpeg_sched.c:1816`), the caller ignores that
  (line 1925), and when the stop makes the last stream ready the muxer starts
  after all and waits for this end for ever: the transcoding hangs
  (`sched_premux`).

## Not modelled

In the parts that are modelled, and why:

- *Launcher*: the modes api and gui alone, which start one of the two sides
  without the other.
- *Slice threads*: the tables of callbacks of the two users, and the progress of
  entries (`pthread_slice.c` from line 160).
- *Frame threads*: creating the threads, and a creation that fails, and the
  buffer functions from line 1013 on. A flush whose copy fails at the hwaccel
  itself (lines 452-456) leaves a thread that counts as thread-safe without a
  hwaccel; were the next packet's allocation to fail too, the copy from this thread
  would look at a hwaccel that is not there (line 436). The model goes on from
  such a copy with none.
- *Scheduler*: sync queues, subtitles and their heartbeat, looping and seeking
  demuxers, decoders fed by encoders, graphs with several inputs or outputs, and
  the set-up before `sch_start()`. Each would be a module of the size of this
  one, and together they are out of TLC's reach.

The rest of FFmpeg, some 4,000 C files in `libavcodec`, `libavformat`,
`libavfilter`, `libswscale` and `libswresample`, is sequential conversion of
data: arithmetic on pixels, samples and bit streams, and tables of constants. A
state model abstracts all of it to whether a packet or a frame comes out, which
is how the modules above use it. For the same reason the mapped lines are a very
small share of the repository's lines, and modelling more of its control would
not change that share noticeably.

The small Python parts have no state that two actors share:

- `services/ollama_client.py` is one blocking request, which nothing imports.
- `main.py` asks one back end and, if that fails or takes 120 s, the other: two
  sequential requests. A slow back end counts as a failed one.
- `services/mic_listener.py` is the queue and loop of the wake listener with a
  table of commands; the first key that occurs wins (line 87). Nothing starts
  it. An exception of a command ends its thread for good (line 108, listed as a
  hazard).
- `services/file_scanner.py` is a sequential function of a path; it reads size,
  hash and head one after another, so a file that changes meanwhile is reported
  inconsistently (line 39).
- `ml_engine/`, `routes/model_selector`, `routes/predict_utils` are library
  calls, a maximum over scores and the first model that does not raise. With
  scores that are all 0 no model is selected (`model_manager.py:31`).
- `routes/cli.py` is one table of keywords.
- `modules/context_memory.py` and `routes/context.py` keep an append-only list
  that is handed out by reference.
- `voice/` is a temporary file and two library calls, and one blocking call; the
  file stays behind when one of them raises (`edge_tts_speak.py:18`).
- `logs/crash_logger.py` installs a hook several modules install over each
  other; it writes a line and returns.
- `utils/greetings.py` and `services/simian.py` hold two pure functions of the
  hour that disagree.
- `auto_installer.py`, `doctor.py`, `check_modules.py`, `generate_sample_data.py`
  and `sampledata.py` are straight-line scripts.
- The routes `screen`, `monitor`, `memory`, `ml`, `ml_route`, `gui`, `voice` and
  `Simian_Integration.py` call functions their modules do not define and fail at
  import or at the first call.

## What could come next

A proof of `Delivered`, by extending `Chain` from the encoder and the
filtergraph to the decoder, the demuxer and the pre-muxing queue; a sync queue
and a second muxer in `Scheduler`; the progress of entries in slice threads;
the launcher with all three modes as a composition of listener, API and window.

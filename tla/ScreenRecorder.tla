--------------------------- MODULE ScreenRecorder ---------------------------
(***************************************************************************)
(* The class ScreenRecorder of modules/screen_recorder.py: one caller (the *)
(* Tk main thread of gui/simian_gui.py) calls start() and stop(); every    *)
(* effective start() creates a daemon thread that runs _run().  The two    *)
(* sides share self._thread, self._stop and self.last_clip_path.           *)
(*                                                                         *)
(* A clip is named after the local time at which it is opened, in seconds, *)
(* simian_<ts>.mp4, so a clip is modelled by that second.  Local time can  *)
(* be set back, at the end of daylight saving time or by hand; the join    *)
(* does not go by it.  A capture takes any time and may yield no frame or  *)
(* raise.                                                                  *)
(***************************************************************************)
EXTENDS Naturals

CONSTANTS Threads,      \* the recorder threads start() may create
          NoThread,     \* self._thread before the first start()
          NoClip,       \* self.last_clip_path before the first clip
          JoinSeconds,  \* the timeout of stop()'s join
          Horizon,      \* bound: the last second of the clock
          MaxSetBacks   \* bound: how often local time is set back

Clips == 0..Horizon

ASSUME ConstantsAssumption ==
  /\ NoThread \notin Threads
  /\ JoinSeconds \in Nat
  /\ Horizon \in Nat
  /\ MaxSetBacks \in Nat
  /\ NoClip \notin Clips

VARIABLES
  thread,    \* self._thread
  stop,      \* self._stop.is_set()
  lastClip,  \* self.last_clip_path
  pc,        \* where each recorder thread is in _run()
  footage,   \* the thread whose recording each clip file holds, if it exists
  clock,     \* the seconds that have passed
  wall,      \* local time, in seconds
  caller,    \* whether the caller is inside stop()'s join
  deadline,  \* the second at which that join gives up, 0 outside stop()
  asked,     \* history: the last call was start()
  timedOut,  \* history: the last join gave up on a thread still alive
  era,       \* history: how often local time was set back
  named      \* history: each thread's clip, and when it was named

threadVars == <<thread, stop, lastClip, pc, footage>>
callerVars == <<caller, deadline, asked, timedOut>>
timeVars == <<clock, wall, era>>
vars == <<thread, stop, lastClip, pc, footage, clock, wall,
          caller, deadline, asked, timedOut, era, named>>

Places == {"unborn", "probe", "open", "loop", "frame", "release", "done"}

TypeOK ==
  /\ thread \in Threads \cup {NoThread}
  /\ stop \in BOOLEAN
  /\ lastClip \in Clips \cup {NoClip}
  /\ pc \in [Threads -> Places]
  /\ footage \in [Clips -> Threads \cup {NoThread}]
  /\ clock \in Clips /\ wall \in Clips
  /\ caller \in {"idle", "joining"}
  /\ deadline \in Nat
  /\ asked \in BOOLEAN
  /\ timedOut \in BOOLEAN
  /\ era \in 0..MaxSetBacks
  /\ named \in [Threads -> [clip : Clips \cup {NoClip}, at : Clips, era : 0..MaxSetBacks]]

\* Thread.is_alive()
Live(t) == t \in Threads /\ pc[t] \notin {"unborn", "done"}

SomeLive == \E t \in Threads : Live(t)

\* Thread t holds an open cv2.VideoWriter on clip c: the file has no index yet
\* and cannot be played.
Writing(t, c) == pc[t] \in {"loop", "frame", "release"} /\ footage[c] = t

Init ==
  /\ thread = NoThread
  /\ stop = FALSE
  /\ lastClip = NoClip
  /\ pc = [t \in Threads |-> "unborn"]
  /\ footage = [c \in Clips |-> NoThread]
  /\ clock = 0
  /\ caller = "idle"
  /\ deadline = 0
  /\ asked = FALSE
  /\ timedOut = FALSE
  /\ wall = 0
  /\ era = 0
  /\ named = [t \in Threads |-> [clip |-> NoClip, at |-> 0, era |-> 0]]

-----------------------------------------------------------------------------
(* The recorder thread: _run().                                            *)

Goto(t, from, to) == pc[t] = from /\ pc' = [pc EXCEPT ![t] = to]

Names(t, clip) ==
  /\ lastClip' = clip
  /\ named' = [named EXCEPT ![t] = [clip |-> clip, at |-> clock, era |-> era]]
  /\ UNCHANGED <<thread, stop, footage, timeVars, callerVars>>

\* Variants of NameClip: the name is rounded up to the next second; it is made
\* once and kept.
NameClipRoundedUp(t) == Goto(t, "probe", "open") /\ Names(t, wall + 1)

NameClipOnce(t) ==
  /\ Goto(t, "probe", "open")
  /\ Names(t, IF lastClip = NoClip THEN wall ELSE lastClip)

\* The first capture yields a picture: _writer() names the clip ...
NameClip(t) == Goto(t, "probe", "open") /\ Names(t, wall)

\* ... and opens it, which truncates a file of that name.  A VideoWriter that
\* cannot open its file does not raise: the thread records into nothing.
OpenWriter(t) ==
  /\ Goto(t, "open", "loop")
  /\ \/ footage' = [footage EXCEPT ![lastClip] = t]
     \/ footage' = footage
  /\ UNCHANGED <<thread, stop, lastClip, timeVars, named, callerVars>>

\* while not self._stop.is_set()
TestStop(t) ==
  /\ IF stop THEN Goto(t, "loop", "release") ELSE Goto(t, "loop", "frame")
  /\ UNCHANGED <<thread, stop, lastClip, footage, timeVars, named, callerVars>>

WriteFrame(t) ==
  /\ Goto(t, "frame", "loop")
  /\ UNCHANGED <<thread, stop, lastClip, footage, timeVars, named, callerVars>>

Release(t) ==
  /\ Goto(t, "release", "done")
  /\ UNCHANGED <<thread, stop, lastClip, footage, timeVars, named, callerVars>>

\* No backend, no picture at the first capture (dxcam's grab() returns None on
\* a still screen), or an exception.  The writer dies with the thread's frame
\* and its destructor closes the file.
Quit(t) ==
  /\ \E p \in {"probe", "open", "frame"} : Goto(t, p, "done")
  /\ UNCHANGED <<thread, stop, lastClip, footage, timeVars, named, callerVars>>

Run(t) ==
  \/ NameClip(t) \/ OpenWriter(t) \/ TestStop(t)
  \/ WriteFrame(t) \/ Release(t) \/ Quit(t)

-----------------------------------------------------------------------------
(* The caller.                                                             *)

\* Variant of StartAgain: the event is cleared before the thread is looked at.
StartAgainCleared ==
  /\ caller = "idle"
  /\ Live(thread)
  /\ stop' = FALSE
  /\ asked' = TRUE
  /\ UNCHANGED <<thread, lastClip, pc, footage, timeVars, named, caller, deadline, timedOut>>

\* start() on a recorder that is alive returns at once, even when that
\* recorder has been told to stop ...
StartAgain ==
  /\ caller = "idle"
  /\ Live(thread)
  /\ asked' = TRUE
  /\ UNCHANGED <<threadVars, timeVars, named, caller, deadline, timedOut>>

\* Variants of StartNew: without is_alive(), and without clear().
StartUnchecked ==
  /\ caller = "idle"
  /\ stop' = FALSE
  /\ \E t \in Threads : Goto(t, "unborn", "probe") /\ thread' = t
  /\ asked' = TRUE
  /\ UNCHANGED <<lastClip, footage, timeVars, named, caller, deadline, timedOut>>

StartUncleared ==
  /\ caller = "idle"
  /\ ~Live(thread)
  /\ \E t \in Threads : Goto(t, "unborn", "probe") /\ thread' = t
  /\ asked' = TRUE
  /\ UNCHANGED <<stop, lastClip, footage, timeVars, named, caller, deadline, timedOut>>

\* ... otherwise it clears the event and starts a thread.
StartNew ==
  /\ caller = "idle"
  /\ ~Live(thread)
  /\ stop' = FALSE
  /\ \E t \in Threads : Goto(t, "unborn", "probe") /\ thread' = t
  /\ asked' = TRUE
  /\ UNCHANGED <<lastClip, footage, timeVars, named, caller, deadline, timedOut>>

\* The thread cannot be started: start() raises, and self._thread is left as
\* one that never was.
StartFails ==
  /\ caller = "idle"
  /\ ~Live(thread)
  /\ stop' = FALSE
  /\ \E t \in Threads : pc[t] = "unborn" /\ thread' = t
  /\ asked' = TRUE
  /\ UNCHANGED <<lastClip, pc, footage, timeVars, named, caller, deadline, timedOut>>

Start == StartAgain \/ StartNew

\* join() raises on a thread that was never started, and stop() with it.
Joins == thread # NoThread /\ pc[thread] # "unborn"

\* stop() up to the join.
Stop ==
  /\ caller = "idle"
  /\ stop' = TRUE
  /\ asked' = FALSE
  /\ IF Joins THEN caller' = "joining" /\ deadline' = clock + JoinSeconds
     ELSE UNCHANGED <<caller, deadline>>
  /\ UNCHANGED <<thread, lastClip, pc, footage, timeVars, named, timedOut>>

\* Variant of JoinDone: stop() returns without waiting.
JoinSkipped ==
  /\ caller = "joining"
  /\ caller' = "idle"
  /\ deadline' = 0
  /\ timedOut' = FALSE
  /\ UNCHANGED <<threadVars, timeVars, named, asked>>

\* The join returns because the thread is over, or because time is up.
JoinDone ==
  /\ caller = "joining"
  /\ ~Live(thread)
  /\ caller' = "idle"
  /\ deadline' = 0
  /\ timedOut' = FALSE
  /\ UNCHANGED <<threadVars, timeVars, named, asked>>

JoinTimeout ==
  /\ caller = "joining"
  /\ Live(thread)
  /\ clock >= deadline
  /\ caller' = "idle"
  /\ deadline' = 0
  /\ timedOut' = TRUE
  /\ UNCHANGED <<threadVars, timeVars, named, asked>>

\* Time passes, and local time with it unless it is set back.
Second ==
  /\ clock < Horizon /\ wall < Horizon
  /\ clock' = clock + 1 /\ wall' = wall + 1
  /\ UNCHANGED <<threadVars, callerVars, era, named>>

SetBack ==
  /\ era < MaxSetBacks
  /\ era' = era + 1
  /\ wall' \in {c \in Clips : c < wall}
  /\ UNCHANGED <<threadVars, callerVars, clock, named>>

-----------------------------------------------------------------------------
Next ==
  \/ \E t \in Threads : Run(t)
  \/ Start \/ StartFails \/ Stop \/ JoinDone \/ JoinTimeout
  \/ Second \/ SetBack

Spec == Init /\ [][Next]_vars

\* The scheduler runs every thread and a capture returns; join() notices the
\* end of the thread.  Nothing makes the caller call, and a thread may also
\* record for ever.
Fairness ==
  /\ \A t \in Threads : WF_vars(Run(t))
  /\ WF_vars(JoinDone)

FairSpec == Spec /\ Fairness

-----------------------------------------------------------------------------
(* Properties.                                                             *)

\* There is never more than one live recorder thread, and it is the one
\* self._thread names: start() creates none while the thread that a timed-out
\* join() left behind is still alive.
OneRecorder == \A t \in Threads : Live(t) => t = thread

\* start() after a stop() that saw its thread end is effective: the stop event
\* is clear when it returns and stays so.  Only a stop() whose join() timed
\* out can make a later start() a silent no-op.
StartHonoured == asked /\ ~timedOut => ~stop

\* A recording is overwritten only by one that was named in the same second,
\* or after local time had been set back: however long a thread takes from the
\* name to the file, and whatever session it belongs to.
ClipsKept ==
  [][\A c \in Clips :
       LET old == footage[c]  new == footage'[c] IN
       old \notin {NoThread, new} /\ named[old].era = named[new].era
         => named[old].at = named[new].at]_vars

\* The recorder as its callers see it: recording until told to stop, then
\* winding up, and no new recording before the old one is over.
phase == IF ~SomeLive THEN "off" ELSE IF stop THEN "stopping" ELSE "recording"

Service == INSTANCE RecordingService WITH phase <- phase

\* The recorder implements that service, including that a recording which has
\* been told to stop ends.
ImplementsService == Service!FairSpec
=============================================================================

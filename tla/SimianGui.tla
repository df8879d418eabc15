------------------------------ MODULE SimianGui ------------------------------
(***************************************************************************)
(* The Tk event loop of gui/simian_gui.py, composed with its recorder.     *)
(* Everything run() defines executes on one thread: a button handler that  *)
(* blocks (the join of recorder.stop(), the HTTP request of on_send) keeps *)
(* every other handler and timer waiting.  A message box runs a nested     *)
(* event loop that serves timers but not the buttons of the window.        *)
(* Closing the window ends the process; the recorder is a daemon thread    *)
(* and is cut off wherever it is.                                          *)
(***************************************************************************)
EXTENDS ScreenRecorder

CONSTANT MaxChains  \* bound: tick() callbacks armed that count from one second

ASSUME ChainsAssumption == MaxChains \in Nat

VARIABLES
  place,       \* what the event loop is doing
  saves,       \* the stop handler it is in is on_stop_rec, which reports
  out,         \* what that handler's recorder.stop() returned
  chains,      \* how many tick() callbacks are armed, for each second they count from
  refreshDue,  \* root.after(500, refresh_clips) has not fired yet
  listed       \* the clips in the list box

guiVars == <<place, saves, out, chains, refreshDue, listed>>
allVars == <<vars, guiVars>>

Blocked == {"launch", "start", "stopping", "refresh", "sending"}
Boxes   == {"saved", "error"}

GuiTypeOK ==
  /\ TypeOK
  /\ place \in Blocked \cup Boxes \cup {"idle", "closed"}
  /\ saves \in BOOLEAN
  /\ out \in Clips \cup {NoClip}
  /\ chains \in [Clips -> 0..MaxChains]
  /\ refreshDue \in BOOLEAN
  /\ listed \subseteq Clips

\* Variant of OnDisk: the last clip is listed whether there is one or not.
OnDiskAndLast == {c \in Clips : footage[c] # NoThread} \cup {lastClip}

\* clips_dir.glob("*.mp4")
OnDisk == {c \in Clips : footage[c] # NoThread}

GuiInit ==
  /\ Init
  /\ place = "launch"
  /\ saves = FALSE
  /\ out = NoClip
  /\ chains = [c \in Clips |-> 0]
  /\ refreshDue = FALSE
  /\ listed = {}

-----------------------------------------------------------------------------
Step(from, to) == place = from /\ place' = to

\* run() starts the recorder, arms the first refresh and enters mainloop(); what
\* start() raises ends the program.
Launch ==
  /\ \/ Step("launch", "idle") /\ Start /\ refreshDue' = TRUE
     \/ Step("launch", "closed") /\ StartFails /\ UNCHANGED refreshDue
  /\ UNCHANGED <<saves, out, chains, listed>>

\* on_start_mon up to the return of recorder.start(); Tk reports an exception of
\* a handler and goes on ...
OnStartMon ==
  /\ \A start \in Clips : chains[start] < MaxChains
  /\ \/ Step("idle", "start") /\ Start
     \/ Step("idle", "idle") /\ StartFails
  /\ UNCHANGED <<saves, out, chains, refreshDue, listed>>

\* Variant of Tick: root.after() outside the if.
TickForEver(start, armed) ==
  /\ chains' = [chains EXCEPT ![start] = armed + 1]
  /\ UNCHANGED <<vars, saves, out, refreshDue, listed>>

\* ... and the body of tick(), whose label shows the seconds since start: while
\* the recorder is alive it arms itself again, beside the callbacks that are
\* armed, else its chain ends.
Tick(start, armed) ==
  /\ chains' = [chains EXCEPT ![start] = IF Live(thread) THEN armed + 1 ELSE armed]
  /\ UNCHANGED <<vars, saves, out, refreshDue, listed>>

\* tick() called by the handler itself; clock is its int(time.time()).
FirstTick == Step("start", "idle") /\ Tick(clock, chains[clock])

TimerTick(start) ==
  /\ place \in Boxes \cup {"idle"}
  /\ chains[start] > 0
  /\ Tick(start, chains[start] - 1)
  /\ UNCHANGED place

TimerRefresh ==
  /\ place \in Boxes \cup {"idle"}
  /\ refreshDue
  /\ refreshDue' = FALSE
  /\ listed' = OnDisk
  /\ UNCHANGED <<vars, place, saves, out, chains>>

\* on_stop_rec and on_stop_mon differ in the box at the end only.
\* When stop() raises the handler is over.
OnStop ==
  /\ Stop
  /\ IF Joins THEN Step("idle", "stopping") /\ saves' \in BOOLEAN
     ELSE Step("idle", "idle") /\ saves' = saves
  /\ UNCHANGED <<out, chains, refreshDue, listed>>

\* recorder.stop() reads last_clip_path when its join is over.
StopReturns ==
  /\ Step("stopping", "refresh")
  /\ JoinDone \/ JoinTimeout
  /\ out' = lastClip
  /\ UNCHANGED <<saves, chains, refreshDue, listed>>

\* on_stop_rec then reports the clip, if there is one.
Refresh ==
  /\ listed' = OnDisk
  /\ IF saves /\ out # NoClip
     THEN Step("refresh", "saved") /\ out' = out
     ELSE Step("refresh", "idle") /\ out' = NoClip
  /\ saves' = FALSE
  /\ UNCHANGED <<vars, chains, refreshDue>>

\* on_send blocks in client.chat() for a reply, an error or the time-out.
OnSend ==
  /\ Step("idle", "sending")
  /\ UNCHANGED <<vars, saves, out, chains, refreshDue, listed>>

SendReturns ==
  /\ Step("sending", "idle") \/ Step("sending", "error")
  /\ UNCHANGED <<vars, saves, out, chains, refreshDue, listed>>

CloseBox ==
  /\ place \in Boxes
  /\ place' = "idle"
  /\ out' = NoClip
  /\ UNCHANGED <<vars, saves, chains, refreshDue, listed>>

CloseWindow ==
  /\ Step("idle", "closed")
  /\ UNCHANGED <<vars, saves, out, chains, refreshDue, listed>>

\* What goes on beside the event loop for as long as the process lives.
RunDaemon(t)  == place # "closed" /\ Run(t) /\ UNCHANGED guiVars
TimePasses    == place # "closed" /\ (Second \/ SetBack) /\ UNCHANGED guiVars

-----------------------------------------------------------------------------
GuiNext ==
  \/ Launch \/ OnStartMon \/ FirstTick \/ TimerRefresh
  \/ \E start \in Clips : TimerTick(start)
  \/ OnStop \/ StopReturns \/ Refresh \/ OnSend \/ SendReturns
  \/ CloseBox \/ CloseWindow
  \/ \E t \in Threads : RunDaemon(t)
  \/ TimePasses

GuiSpec == GuiInit /\ [][GuiNext]_allVars

\* A handler runs on once entered, requests end by their time-out, threads
\* are scheduled.  A timer that is due fires although the user keeps pressing
\* buttons, because Tk serves due timers between two button events; that takes
\* strong fairness.  The user may never press anything, and may leave a box
\* open.
GuiFairness ==
  /\ WF_allVars(FirstTick \/ StopReturns \/ Refresh \/ SendReturns)
  /\ \A start \in Clips : SF_allVars(TimerTick(start))
  /\ \A t \in Threads : WF_allVars(RunDaemon(t))

GuiFairSpec == GuiSpec /\ GuiFairness

-----------------------------------------------------------------------------
(* Properties.                                                             *)

\* What the window shows after a stop() whose join saw the recorder's end can
\* be trusted: the "Saved" box names a clip nobody is writing any more, the
\* list box has exactly the clips on disk until the next start, and closing
\* the window then cuts no clip short.
StoppedIsSettled ==
  ~timedOut =>
    /\ place = "saved" => ~\E t \in Threads : Writing(t, out)
    /\ place \in Boxes \cup {"idle"} /\ lastClip # NoClip /\ Joins /\ ~asked =>
         listed = OnDisk
    /\ place = "closed" /\ ~asked =>
         ~\E t \in Threads, c \in Clips : Writing(t, c)

Quiet == \A start \in Clips : chains[start] = 0

\* No handler keeps the window frozen for ever, every blocking call made on
\* the Tk thread comes back; and when the recorder is over every armed tick()
\* dies out, unless it is started again or the window closes first.
WindowThaws ==
  /\ place \in Blocked \ {"launch"} ~> place \in Boxes \cup {"idle"}
  /\ ~Live(thread) ~> (Quiet \/ Live(thread) \/ place = "closed")

\* What the box "Saved: <path>" tells the user: the clip is on disk and
\* finished.
SavedMeansSaved ==
  place = "saved" => out \in OnDisk /\ ~\E t \in Threads : Writing(t, out)
=============================================================================

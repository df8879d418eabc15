---------------------------- MODULE WakeListener ----------------------------
(***************************************************************************)
(* listener_bootstrap.py: waits for the wake phrase and then launches the  *)
(* assistant, simian_launcher.py, in the boot mode of its configuration    *)
(* file.  The audio callback of a sounddevice thread queues what it hears  *)
(* while the main thread works the queue off; once the phrase is heard the *)
(* main thread speaks, launches and ends.                                  *)
(*                                                                         *)
(* An utterance is what Vosk returns at the end of a phrase, and counts by *)
(* whether is_match() takes it for a wake phrase.  A configuration counts  *)
(* by its boot mode, unless there is something wrong with it.  The file    *)
(* can be cut off by a crash while it is created, and be edited or deleted *)
(* by the user at any time.                                                *)
(***************************************************************************)
EXTENDS Naturals, Sequences, Functions

CONSTANTS Absent, Torn,  \* no configuration file, and one json.load() rejects
          NoObject,      \* JSON that is not an object
          Mistyped,      \* an object whose wake phrases are no strings
          MaxHeard,      \* bound: utterances waiting in the queue
          MaxRuns        \* bound: how often the listener is started

Modes == {"full", "api", "gui"}
Utterances == {"wake", "other"}
DEFAULT_MODE == "full"

Configs == Modes \cup {Absent, Torn, NoObject, Mistyped}

ASSUME ListenerAssumption ==
  /\ \A c \in {Absent, Torn, NoObject, Mistyped} : c \notin Modes
  /\ Absent \notin {Torn, NoObject, Mistyped}
  /\ Torn \notin {NoObject, Mistyped} /\ NoObject # Mistyped
  /\ MaxHeard \in Nat /\ MaxRuns \in Nat

VARIABLES
  config,       \* the file at CONFIG_PATH
  env,          \* SIMIAN_MODE, "full" when it is unset
  proc,         \* where the listener's main thread is
  boot_mode,    \* the boot mode it has read
  matchable,    \* is_match() can compare a transcript with the phrases it has read
  audio_queue,  \* what it has yet to work off
  runs,         \* how often it has been started
  assistants,   \* the launched assistants: the mode asked for and the one run
  matches,      \* history: the wake phrases this run of the listener acted on
  stopped       \* history: this run was ended by Stop

files == <<config, env>>
vars == <<files, proc, boot_mode, matchable, audio_queue, runs, assistants, matches, stopped>>

Running == {"create", "read", "setup", "listen", "confirm", "launch"}

TypeOK ==
  /\ config \in Configs
  /\ env \in Modes
  /\ proc \in Running \cup {"off"}
  /\ boot_mode \in Modes
  /\ matchable \in BOOLEAN
  /\ audio_queue \in Seq(Utterances)
  /\ runs \in 0..MaxRuns
  /\ assistants \in Seq([asked : Modes, mode : Modes])
  /\ matches \in Nat
  /\ stopped \in BOOLEAN

Init ==
  /\ config = Absent
  /\ env \in Modes
  /\ proc = "off"
  /\ boot_mode = DEFAULT_MODE
  /\ matchable = TRUE
  /\ audio_queue = <<>>
  /\ runs = 0
  /\ assistants = <<>>
  /\ matches = 0
  /\ stopped = FALSE

-----------------------------------------------------------------------------
Goto(from, to) == proc = from /\ proc' = to

\* load_config() up to the creation of a missing file, which open() leaves
\* empty.
Start ==
  /\ runs < MaxRuns
  /\ runs' = runs + 1
  /\ matches' = 0
  /\ stopped' = FALSE
  /\ IF config = Absent
     THEN Goto("off", "create") /\ config' = Torn
     ELSE Goto("off", "read") /\ UNCHANGED config
  /\ UNCHANGED <<env, boot_mode, matchable, audio_queue, assistants>>

DumpDefault ==
  /\ Goto("create", "read")
  /\ config' = DEFAULT_MODE
  /\ UNCHANGED <<env, boot_mode, matchable, audio_queue, runs, assistants, matches, stopped>>

\* Variant of ReadConfig: what is read is not looked at.
ReadUnchecked ==
  /\ Goto("read", "setup")
  /\ boot_mode' = config /\ matchable' = TRUE
  /\ UNCHANGED <<files, audio_queue, runs, assistants, matches, stopped>>

\* The rest of load_config() and what is taken from its result: a file that
\* cannot be read or parsed is as good as the default one ...
ReadConfig ==
  /\ Goto("read", "setup")
  /\ \/ config \in Modes /\ boot_mode' = config /\ matchable' = TRUE
     \/ config = Mistyped /\ boot_mode' \in Modes /\ matchable' = FALSE
     \/ boot_mode' = DEFAULT_MODE /\ matchable' = TRUE
  /\ UNCHANGED <<files, audio_queue, runs, assistants, matches, stopped>>

\* ... but what is not an object has no get(), and that is asked for outside the
\* try.
ReadRaises ==
  /\ config = NoObject
  /\ Goto("read", "off")
  /\ UNCHANGED <<files, boot_mode, matchable, audio_queue, runs, assistants, matches, stopped>>

\* The model is found and the microphone opened.
Setup ==
  /\ Goto("setup", "listen")
  /\ UNCHANGED <<files, boot_mode, matchable, audio_queue, runs, assistants, matches, stopped>>

\* callback(), on a thread of its own, also while the main thread is busy.
Callback(u) ==
  /\ proc \in {"listen", "confirm", "launch"}
  /\ Len(audio_queue) < MaxHeard
  /\ audio_queue' = Append(audio_queue, u)
  /\ UNCHANGED <<files, proc, boot_mode, matchable, runs, assistants, matches, stopped>>

\* Variant of Hear: a wake phrase with speech behind it in the queue is passed
\* over.
HearLatest ==
  /\ matchable /\ audio_queue # <<>>
  /\ audio_queue' = Tail(audio_queue)
  /\ IF Head(audio_queue) = "wake" /\ Len(audio_queue) = 1
     THEN Goto("listen", "confirm") /\ matches' = matches + 1
     ELSE Goto("listen", "listen") /\ matches' = matches
  /\ UNCHANGED <<files, boot_mode, matchable, runs, assistants, stopped>>

\* One turn of the loop ...
Hear ==
  /\ matchable /\ audio_queue # <<>>
  /\ audio_queue' = Tail(audio_queue)
  /\ IF Head(audio_queue) = "wake"
     THEN Goto("listen", "confirm") /\ matches' = matches + 1
     ELSE Goto("listen", "listen") /\ matches' = matches
  /\ UNCHANGED <<files, boot_mode, matchable, runs, assistants, stopped>>

\* ... which the first transcript ends if it cannot be compared.
HearRaises ==
  /\ ~matchable /\ audio_queue # <<>>
  /\ Goto("listen", "off")
  /\ audio_queue' = <<>>
  /\ UNCHANGED <<files, boot_mode, matchable, runs, assistants, matches, stopped>>

\* speak_confirmation() swallows every exception.
Confirm ==
  /\ Goto("confirm", "launch")
  /\ UNCHANGED <<files, boot_mode, matchable, audio_queue, runs, assistants, matches, stopped>>

\* The launched process looks at SIMIAN_MODE only.
Launched == [asked |-> boot_mode, mode |-> env]

\* Variant of LaunchSimian: the loop goes on after a launch.
LaunchAndListen ==
  /\ Goto("launch", "listen")
  /\ assistants' = Append(assistants, Launched)
  /\ UNCHANGED <<files, boot_mode, matchable, audio_queue, runs, matches, stopped>>

\* launch_simian() swallows the exception of a launch that fails; the loop is
\* over either way and the process ends.
LaunchSimian ==
  /\ Goto("launch", "off")
  /\ assistants' \in {assistants, Append(assistants, Launched)}
  /\ audio_queue' = <<>>
  /\ UNCHANGED <<files, boot_mode, matchable, runs, matches, stopped>>

\* Killed, or another exception nothing catches: no directory, no file that can be
\* created, no model folder, no microphone.
Stop ==
  /\ proc \in Running
  /\ proc' = "off"
  /\ audio_queue' = <<>>
  /\ stopped' = TRUE
  /\ UNCHANGED <<files, boot_mode, matchable, runs, assistants, matches>>

\* The user edits or deletes the file.
EditConfig ==
  /\ config' \in Configs
  /\ UNCHANGED <<env, proc, boot_mode, matchable, audio_queue, runs, assistants, matches, stopped>>

Next ==
  \/ Start \/ DumpDefault \/ ReadConfig \/ ReadRaises \/ Setup
  \/ \E u \in Utterances : Callback(u)
  \/ Hear \/ HearRaises \/ Confirm \/ LaunchSimian \/ Stop
  \/ EditConfig

Spec == Init /\ [][Next]_vars

\* The main thread goes on for as long as there is something to do.
Fairness ==
  WF_vars(DumpDefault \/ ReadConfig \/ ReadRaises \/ Setup
          \/ Hear \/ HearRaises \/ Confirm \/ LaunchSimian)

FairSpec == Spec /\ Fairness

-----------------------------------------------------------------------------
(* Properties.                                                             *)

\* One run of the listener launches at most one assistant, however many wake
\* phrases are in the queue by then.
OneLaunchPerRun ==
  /\ Len(assistants) <= runs
  /\ matches <= 1

\* A configuration file that is missing, or that a crash cut off while it was
\* created, never keeps the listener from getting past it; one that the user
\* turned into JSON without an object does, with an exception.  With phrases it
\* can compare, a wake phrase that has been queued is acted upon whatever was
\* said before or after it: the listener launches, unless it is stopped first.
WakeIsHeard ==
  /\ proc \in {"create", "read"} ~> (proc = "setup" \/ stopped \/ config = NoObject)
  /\ (proc = "listen" /\ matchable /\ "wake" \in Range(audio_queue))
       ~> (proc = "launch" \/ stopped)

\* The assistant runs in the boot mode the configuration asks for.
BootModeHonoured ==
  \A i \in DOMAIN assistants : assistants[i].mode = assistants[i].asked
=============================================================================

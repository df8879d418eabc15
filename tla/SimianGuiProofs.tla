--------------------------- MODULE SimianGuiProofs ---------------------------
(***************************************************************************)
(* Theorems about ScreenRecorder and SimianGui, for any number of threads, *)
(* any join timeout and any horizon: first the recorder, and then that the *)
(* window keeps the recorder's protocol, so that all of it holds there too.*)
(***************************************************************************)
EXTENDS SimianGui, TLAPS

-----------------------------------------------------------------------------
(* The recorder.                                                           *)

\* A stop() that saw its thread end leaves no live recorder behind, and the
\* caller's last call was not start() while it waits in stop().
Settled ==
  /\ stop /\ ~timedOut /\ caller = "idle" => ~SomeLive
  /\ caller = "joining" => ~asked

IInv == TypeOK /\ OneRecorder /\ Settled /\ StartHonoured

(* Every variable keeps its type, whatever thread moves and whoever calls. *)
THEOREM TypeCorrect == Spec => []TypeOK
<1> USE ConstantsAssumption DEF TypeOK, Places
<1>0. 0 \in Clips /\ Clips \subseteq Nat
  BY DEF Clips
<1>1. Init => TypeOK
  <2> SUFFICES ASSUME Init PROVE TypeOK
    OBVIOUS
  <2>1. 0 \in Nat /\ 0 \in 0..MaxSetBacks
    OBVIOUS
  <2>2. footage \in [Clips -> Threads \cup {NoThread}]
    BY DEF Init
  <2>3. pc \in [Threads -> Places]
    BY DEF Init
  <2>4. named \in [Threads -> [clip : Clips \cup {NoClip}, at : Clips, era : 0..MaxSetBacks]]
    BY <1>0, <2>1 DEF Init
  <2> QED
    BY <1>0, <2>1, <2>2, <2>3, <2>4, Zenon DEF Init
<1>2. TypeOK /\ [Next]_vars => TypeOK'
  <2> SUFFICES ASSUME TypeOK, [Next]_vars PROVE TypeOK'
    OBVIOUS
  <2> USE DEF threadVars, callerVars, timeVars, Goto
  <2>1. ASSUME NEW t \in Threads, NameClip(t) PROVE TypeOK'
    BY <2>1 DEF NameClip, Names
  <2>2. ASSUME NEW t \in Threads, OpenWriter(t) PROVE TypeOK'
    BY <2>2 DEF OpenWriter
  <2>3. ASSUME NEW t \in Threads, TestStop(t) PROVE TypeOK'
    BY <2>3 DEF TestStop
  <2>4. ASSUME NEW t \in Threads, WriteFrame(t) PROVE TypeOK'
    BY <2>4 DEF WriteFrame
  <2>5. ASSUME NEW t \in Threads, Release(t) PROVE TypeOK'
    BY <2>5 DEF Release
  <2>6. ASSUME NEW t \in Threads, Quit(t) PROVE TypeOK'
    BY <2>6 DEF Quit
  <2>7. CASE StartAgain
    BY <2>7 DEF StartAgain
  <2>8. CASE StartNew
    BY <2>8 DEF StartNew
  <2>14. CASE StartFails
    BY <2>14 DEF StartFails
  <2>9. CASE Stop
    <3>1. deadline' \in Nat /\ caller' \in {"idle", "joining"}
      BY <1>0, <2>9 DEF Stop
    <3> QED
      BY <2>9, <3>1, Zenon DEF Stop
  <2>10. CASE JoinDone
    BY <2>10 DEF JoinDone
  <2>11. CASE JoinTimeout
    BY <2>11 DEF JoinTimeout
  <2>12. CASE Second
    <3>1. clock' \in Clips /\ wall' \in Clips
      BY <2>12 DEF Second, Clips
    <3> QED
      BY <2>12, <3>1, Zenon DEF Second
  <2>15. CASE SetBack
    <3>1. era' \in 0..MaxSetBacks /\ wall' \in Clips
      BY <2>15 DEF SetBack
    <3> QED
      BY <2>15, <3>1, Zenon DEF SetBack
  <2>13. CASE UNCHANGED vars
    BY <2>13 DEF vars
  <2> QED
    BY <2>1, <2>2, <2>3, <2>4, <2>5, <2>6, <2>7, <2>8, <2>9, <2>10, <2>11,
       <2>12, <2>13, <2>14, <2>15 DEF Next, Run, Start
<1> QED
  BY <1>1, <1>2, PTL DEF Spec

(* What a step of a recorder thread does to the others: it touches nothing *)
(* the caller decides by, and brings no thread to life.                    *)
LEMMA RunStep ==
  ASSUME TypeOK, NEW t \in Threads, Run(t)
  PROVE  /\ \A u \in Threads : Live(u)' => Live(u)
         /\ UNCHANGED <<thread, stop, callerVars>>
<1>1. UNCHANGED <<thread, stop, callerVars>>
  BY DEF Run, NameClip, Names, OpenWriter, TestStop, WriteFrame, Release, Quit
<1>2. PICK p \in Places, q \in Places : Goto(t, p, q) /\ p \notin {"unborn", "done"}
  BY DEF Run, NameClip, Names, OpenWriter, TestStop, WriteFrame, Release, Quit, Places, Goto
<1>3. \A u \in Threads : Live(u)' => Live(u)
  BY <1>2 DEF Goto, Live, TypeOK
<1> QED
  BY <1>1, <1>3

(* The invariant is inductive. *)
LEMMA Inductive == IInv /\ TypeOK' /\ [Next]_vars => IInv'
<1> SUFFICES ASSUME IInv, TypeOK', [Next]_vars
             PROVE  OneRecorder' /\ Settled' /\ StartHonoured'
  BY DEF IInv
<1> USE DEF IInv
<1>1. ASSUME NEW t \in Threads, Run(t)
      PROVE  OneRecorder' /\ Settled' /\ StartHonoured'
  BY <1>1, RunStep DEF OneRecorder, Settled, StartHonoured, SomeLive, callerVars
<1>2. CASE StartAgain
  BY <1>2 DEF StartAgain, threadVars, OneRecorder, Settled, StartHonoured,
              SomeLive, Live
<1>3. CASE StartNew
  <2>1. PICK t \in Threads : Goto(t, "unborn", "probe") /\ thread' = t
    BY <1>3 DEF StartNew
  <2>2. \A u \in Threads : ~Live(u)
    BY <1>3 DEF StartNew, OneRecorder
  <2>3. OneRecorder'
    BY <2>1, <2>2 DEF OneRecorder, Live, Goto, TypeOK
  <2> QED
    BY <1>3, <2>3 DEF StartNew, Settled, StartHonoured
<1>8. CASE StartFails
  <2>1. \A u \in Threads : ~Live(u)'
    BY <1>8 DEF StartFails, OneRecorder, Live
  <2> QED
    BY <1>8, <2>1 DEF StartFails, OneRecorder, Settled, StartHonoured, SomeLive
<1>4. CASE Stop
  <2>1. OneRecorder' /\ StartHonoured'
    BY <1>4 DEF Stop, OneRecorder, StartHonoured, Live
  <2>2. ~Joins => ~SomeLive'
    BY <1>4, ConstantsAssumption DEF Stop, Joins, SomeLive, OneRecorder, Live
  <2>3. Joins => caller' = "joining"
    BY <1>4 DEF Stop
  <2>4. Settled'
    BY <1>4, <2>2, <2>3, Zenon DEF Stop, Settled
  <2> QED
    BY <2>1, <2>4
<1>5. CASE JoinDone
  BY <1>5 DEF JoinDone, threadVars, OneRecorder, Settled, StartHonoured,
              SomeLive, Live
<1>6. CASE JoinTimeout
  BY <1>6 DEF JoinTimeout, threadVars, OneRecorder, Settled, StartHonoured,
              SomeLive, Live
<1>7. CASE Second \/ SetBack \/ UNCHANGED vars
  BY <1>7 DEF Second, SetBack, vars, threadVars, callerVars, OneRecorder, Settled,
              StartHonoured, SomeLive, Live
<1> QED
  BY <1>1, <1>2, <1>3, <1>4, <1>5, <1>6, <1>7, <1>8 DEF Next, Start

LEMMA Invariant == Spec => []IInv
<1>1. Init => OneRecorder /\ Settled /\ StartHonoured
  BY DEF Init, OneRecorder, Settled, StartHonoured, SomeLive, Live
<1> QED
  BY <1>1, TypeCorrect, Inductive, PTL DEF Spec, IInv

(* start() (lines 112-117) never makes a second live recorder thread, even *)
(* after stop() gave up on the first.                                      *)
THEOREM AtMostOneRecorder == Spec => []OneRecorder
BY Invariant, PTL DEF IInv

(* Only a start() that follows a timed-out join() can be a silent no-op.   *)
THEOREM StartIsHonoured == Spec => []StartHonoured
BY Invariant, PTL DEF IInv

\* The clips thread t and thread u were given have the order in which they were
\* given them, while local time was not set back in between.
Ordered(t, u) ==
  named[t].clip # NoClip /\ named[u].clip # NoClip /\ named[t].era = named[u].era =>
    (named[t].at < named[u].at => named[t].clip < named[u].clip)

\* What the name of thread t was made of is not ahead of the clocks.
Past(t) ==
  named[t].clip # NoClip =>
    /\ named[t].at <= clock /\ named[t].era <= era
    /\ named[t].era = era =>
         named[t].clip <= wall /\ (named[t].at < clock => named[t].clip < wall)

\* A thread has no name before it takes one, opens the file of that name and no
\* other, and what a file holds was recorded under its name.
OwnClip ==
  /\ \A t \in Threads :
       /\ pc[t] \in {"unborn", "probe"} => named[t].clip = NoClip
       /\ pc[t] = "open" => named[t].clip = lastClip
  /\ \A c \in Clips : footage[c] # NoThread => named[footage[c]].clip = c

NamesKept == OwnClip /\ (\A t \in Threads : Past(t)) /\ (\A t, u \in Threads : Ordered(t, u))

LEMMA NamesStep == IInv /\ TypeOK' /\ NamesKept /\ [Next]_vars => NamesKept'
<1> SUFFICES ASSUME IInv, TypeOK', NamesKept, [Next]_vars PROVE NamesKept'
  OBVIOUS
<1> USE ConstantsAssumption DEF IInv
<1>0. Clips \subseteq Nat /\ clock \in Nat /\ wall \in Nat /\ era \in Nat
  BY DEF TypeOK, Clips
<1>9. ASSUME NEW t \in Threads
      PROVE  /\ named[t].at \in Nat /\ named[t].era \in Nat
             /\ named[t].clip # NoClip => named[t].clip \in Nat
  <2>1. named[t] \in [clip : Clips \cup {NoClip}, at : Clips, era : 0..MaxSetBacks]
    BY DEF TypeOK
  <2>2. named[t].clip \in Clips \cup {NoClip} /\ named[t].at \in Clips /\ named[t].era \in 0..MaxSetBacks
    BY <2>1
  <2>3. named[t].era \in Nat
    BY <2>2
  <2> QED
    BY <1>0, <2>2, <2>3
<1>1. ASSUME NEW t \in Threads, NameClip(t) PROVE NamesKept'
  <2>1. /\ pc[t] = "probe" /\ pc' = [pc EXCEPT ![t] = "open"] /\ lastClip' = wall
        /\ named' = [named EXCEPT ![t] = [clip |-> wall, at |-> clock, era |-> era]]
        /\ UNCHANGED <<footage, clock, wall, era>>
    BY <1>1 DEF NameClip, Names, Goto, timeVars
  <2>2. named'[t] = [clip |-> wall, at |-> clock, era |-> era]
        /\ \A u \in Threads : u # t => named'[u] = named[u] /\ pc'[u] = pc[u]
    BY <2>1 DEF TypeOK
  <2>3. named[t].clip = NoClip /\ \A u \in Threads : u # t => pc[u] # "open"
    BY <2>1 DEF NamesKept, OwnClip, OneRecorder, Live
  <2>4. OwnClip'
    <3>1. \A c \in Clips : footage[c] # NoThread => footage[c] \in Threads /\ footage[c] # t
      BY <2>3 DEF NamesKept, OwnClip, TypeOK
    <3>2. \A c \in Clips : footage'[c] # NoThread => named'[footage'[c]].clip = c
      BY <2>1, <2>2, <3>1 DEF NamesKept, OwnClip
    <3>3. pc'[t] = "open"
      BY <2>1 DEF TypeOK
    <3> QED
      BY <2>1, <2>2, <2>3, <3>2, <3>3 DEF NamesKept, OwnClip
  <2>5. \A u \in Threads : Past(u)'
    <3>1. Past(t)'
      BY <1>0, <2>1, <2>2 DEF Past
    <3>2. \A u \in Threads : u # t => Past(u)'
      BY <2>1, <2>2, Zenon DEF NamesKept, Past
    <3> QED
      BY <3>1, <3>2
  <2>6. \A u, v \in Threads : Ordered(u, v)'
    <3>1. ASSUME NEW u \in Threads, u # t PROVE Ordered(u, t)' /\ Ordered(t, u)'
      <4>1. Past(u) /\ (named[u].clip # NoClip =>
              named[u].clip \in Nat /\ named[u].at \in Nat /\ named[u].era \in Nat)
        BY <1>9 DEF NamesKept
      <4> QED
        BY <1>0, <2>2, <3>1, <4>1 DEF Past, Ordered
    <3>2. Ordered(t, t)'
      BY <1>0, <2>2 DEF Ordered
    <3>3. \A u, v \in Threads : u # t /\ v # t => Ordered(u, v)'
      BY <2>2 DEF NamesKept, Ordered
    <3> QED
      BY <3>1, <3>2, <3>3
  <2> QED
    BY <2>4, <2>5, <2>6 DEF NamesKept
<1>2. ASSUME NEW t \in Threads, OpenWriter(t) PROVE NamesKept'
  <2>1. /\ pc[t] = "open" /\ pc' = [pc EXCEPT ![t] = "loop"]
        /\ footage' \in {footage, [footage EXCEPT ![lastClip] = t]}
        /\ UNCHANGED <<lastClip, named, clock, wall, era>>
    BY <1>2 DEF OpenWriter, Goto, timeVars
  <2>2. OwnClip'
    <3>1. named[t].clip = lastClip
      BY <2>1 DEF NamesKept, OwnClip
    <3>2. \A u \in Threads : pc'[u] # pc[u] => pc'[u] = "loop"
      BY <2>1 DEF TypeOK
    <3>3. \A c \in Clips : footage'[c] # NoThread => named[footage'[c]].clip = c
      BY <2>1, <3>1 DEF NamesKept, OwnClip, TypeOK
    <3>4. \A u \in Threads : (pc'[u] \in {"unborn", "probe"} => pc[u] \in {"unborn", "probe"})
                            /\ (pc'[u] = "open" => pc[u] = "open")
      BY <3>2
    <3>5. \A u \in Threads :
            /\ pc'[u] \in {"unborn", "probe"} => named'[u].clip = NoClip
            /\ pc'[u] = "open" => named'[u].clip = lastClip'
      BY <2>1, <3>4, Zenon DEF NamesKept, OwnClip
    <3>6. \A c \in Clips : footage'[c] # NoThread => named'[footage'[c]].clip = c
      BY <2>1, <3>3
    <3> QED
      BY <3>5, <3>6, Zenon DEF OwnClip
  <2> QED
    BY <2>1, <2>2 DEF NamesKept, Past, Ordered
<1>3. CASE /\ UNCHANGED <<footage, lastClip, named, timeVars>>
           /\ \A t \in Threads : pc'[t] \in {"unborn", "probe"} => pc[t] \in {"unborn", "probe"}
           /\ \A t \in Threads : pc'[t] = "open" => pc[t] = "open"
  <2>1. UNCHANGED <<footage, lastClip, named, clock, wall, era>>
    BY <1>3 DEF timeVars
  <2>2. OwnClip'
    <3>1. \A t \in Threads :
            /\ pc'[t] \in {"unborn", "probe"} => named'[t].clip = NoClip
            /\ pc'[t] = "open" => named'[t].clip = lastClip'
      BY <1>3, <2>1, Zenon DEF NamesKept, OwnClip
    <3>2. \A c \in Clips : footage'[c] # NoThread => named'[footage'[c]].clip = c
      BY <2>1 DEF NamesKept, OwnClip
    <3> QED
      BY <3>1, <3>2, Zenon DEF OwnClip
  <2> QED
    BY <2>1, <2>2 DEF NamesKept, Past, Ordered
<1>4. CASE Second
  <2>1. clock' = clock + 1 /\ wall' = wall + 1 /\ UNCHANGED <<footage, lastClip, named, pc, era>>
    BY <1>4 DEF Second, threadVars
  <2>2. \A t \in Threads : Past(t)'
    <3>1. ASSUME NEW t \in Threads, named[t].clip # NoClip PROVE Past(t)'
      <4>1. named[t].clip \in Nat /\ named[t].at \in Nat /\ named[t].era \in Nat /\ Past(t)
        BY <1>9, <3>1 DEF NamesKept
      <4> QED
        BY <1>0, <2>1, <3>1, <4>1 DEF Past
    <3> QED
      BY <2>1, <3>1 DEF Past
  <2> QED
    BY <2>1, <2>2 DEF NamesKept, OwnClip, Ordered
<1>5. CASE SetBack
  <2>1. era' = era + 1 /\ UNCHANGED <<footage, lastClip, named, pc, clock>>
    BY <1>5 DEF SetBack, threadVars
  <2>2. \A t \in Threads : Past(t)'
    <3>1. \A t \in Threads : named[t].era \in Nat
      BY <1>9
    <3>2. ASSUME NEW t \in Threads, named[t].clip # NoClip PROVE Past(t)'
      <4>1. named[t].era <= era /\ named[t].at <= clock
        BY <3>2 DEF NamesKept, Past
      <4> QED
        BY <1>0, <2>1, <3>1, <4>1 DEF Past
    <3> QED
      BY <2>1, <3>2 DEF Past
  <2> QED
    BY <2>1, <2>2 DEF NamesKept, OwnClip, Ordered
<1>6. ASSUME NEW t \in Threads, TestStop(t) \/ WriteFrame(t) \/ Release(t) \/ Quit(t)
      PROVE  NamesKept'
  <2>1. UNCHANGED <<footage, lastClip, named, timeVars>>
    BY <1>6 DEF TestStop, WriteFrame, Release, Quit
  <2>2. PICK l \in {"release", "frame", "loop", "done"} : pc' = [pc EXCEPT ![t] = l]
    BY <1>6 DEF TestStop, WriteFrame, Release, Quit, Goto
  <2> QED
    BY <1>3, <2>1, <2>2 DEF TypeOK
<1>7. CASE StartNew
  <2>1. UNCHANGED <<footage, lastClip, named, timeVars>>
    BY <1>7 DEF StartNew
  <2>2. PICK t \in Threads : pc[t] = "unborn" /\ pc' = [pc EXCEPT ![t] = "probe"]
    BY <1>7 DEF StartNew, Goto
  <2> QED
    BY <1>3, <2>1, <2>2 DEF TypeOK
<1>8. CASE StartAgain \/ StartFails \/ Stop \/ JoinDone \/ JoinTimeout \/ UNCHANGED vars
  BY <1>3, <1>8 DEF StartAgain, StartFails, Stop, JoinDone, JoinTimeout, vars, threadVars, timeVars
<1> QED
  BY <1>1, <1>2, <1>4, <1>5, <1>6, <1>7, <1>8 DEF Next, Run, Start

LEMMA NamesInvariant == Spec => []NamesKept
<1>1. Init => NamesKept
  BY ConstantsAssumption DEF Init, NamesKept, OwnClip, Past, Ordered
<1> QED
  BY <1>1, Invariant, TypeCorrect, NamesStep, PTL DEF Spec

(* A recording is overwritten only by one named in the same second, or after *)
(* local time had been set back (_writer(), lines 76 to 79): names made in   *)
(* different seconds differ, and a thread opens the file it has named.       *)
THEOREM ClipsAreKept == Spec => ClipsKept
<1> DEFINE Kept ==
      \A c \in Clips :
        LET old == footage[c]  new == footage'[c] IN
        old \notin {NoThread, new} /\ named[old].era = named[new].era
          => named[old].at = named[new].at
<1>1. IInv /\ NamesKept /\ [Next]_vars => [Kept]_vars
  <2> SUFFICES ASSUME IInv, NamesKept, Next PROVE Kept
    OBVIOUS
  <2>1. ASSUME NEW t \in Threads, OpenWriter(t) PROVE Kept
    <3>1. /\ pc[t] = "open" /\ named[t].clip = lastClip
          /\ footage' \in {footage, [footage EXCEPT ![lastClip] = t]}
      BY <2>1 DEF OpenWriter, Goto, NamesKept, OwnClip
    <3>2. SUFFICES ASSUME NEW c \in Clips, footage[c] \notin {NoThread, footage'[c]},
                          named[footage[c]].era = named[footage'[c]].era
                   PROVE  named[footage[c]].at = named[footage'[c]].at
      OBVIOUS
    <3>3. footage \in [Clips -> Threads \cup {NoThread}]
      BY DEF IInv, TypeOK
    <3>4. c = lastClip /\ footage'[c] = t /\ footage[c] \in Threads
      BY <3>1, <3>2, <3>3
    <3>5. PICK u \in Threads : u = footage[c]
      BY <3>4
    <3>6. named[u].clip = c /\ named[t].clip = c /\ named[u].era = named[t].era
      BY <3>1, <3>2, <3>4, <3>5 DEF NamesKept, OwnClip
    <3>7. c # NoClip /\ c \in Nat /\ named[u].at \in Nat /\ named[t].at \in Nat
      BY ConstantsAssumption DEF IInv, TypeOK, Clips
    <3>8. ~(named[u].at < named[t].at) /\ ~(named[t].at < named[u].at)
      BY <3>6, <3>7 DEF NamesKept, Ordered
    <3> QED
      BY <3>4, <3>5, <3>7, <3>8
  <2>2. CASE footage' = footage
    BY <2>2
  <2> QED
    BY <2>1, <2>2 DEF Next, Run, NameClip, Names, TestStop, WriteFrame, Release, Quit,
       Start, StartAgain, StartNew, StartFails, Stop, JoinDone, JoinTimeout, Second,
       SetBack, threadVars, callerVars
<1> QED
  BY <1>1, Invariant, NamesInvariant, PTL DEF Spec, ClipsKept

(* The recorder implements the safety part of RecordingService: in         *)
(* particular no step takes it from "stopping" back to "recording".        *)
THEOREM ImplementsRecordingService == Spec => Service!Spec
<1>1. Init => Service!Init
  BY DEF Init, Service!Init, phase, SomeLive, Live
<1>2. IInv /\ [Next]_vars => [Service!Next]_phase
  <2> SUFFICES ASSUME IInv, [Next]_vars PROVE [Service!Next]_phase
    OBVIOUS
  <2> USE DEF Service!Next, Service!Begin, Service!Halt, Service!GiveUp,
              Service!WindUp, phase
  <2>1. ASSUME NEW t \in Threads, Run(t) PROVE [Service!Next]_phase
    <3>1. SomeLive' => SomeLive
      BY <2>1, RunStep DEF IInv, SomeLive
    <3>2. stop' = stop
      BY <2>1, RunStep DEF IInv
    <3> QED
      BY <3>1, <3>2
  <2>2. CASE StartNew
    <3>1. ~SomeLive
      BY <2>2 DEF StartNew, IInv, OneRecorder, SomeLive
    <3>2. stop' = FALSE
      BY <2>2 DEF StartNew
    <3> QED
      BY <3>1, <3>2
  <2>3. CASE Stop
    <3>1. SomeLive' = SomeLive /\ stop' = TRUE
      BY <2>3 DEF Stop, SomeLive, Live
    <3> QED
      BY <3>1
  <2>5. CASE StartFails
    BY <2>5 DEF StartFails, IInv, OneRecorder, SomeLive, Live
  <2>4. CASE StartAgain \/ JoinDone \/ JoinTimeout \/ Second \/ SetBack \/ UNCHANGED vars
    <3>1. stop' = stop /\ SomeLive' = SomeLive
      BY <2>4 DEF StartAgain, JoinDone, JoinTimeout, Second, SetBack, vars, threadVars,
                  callerVars, SomeLive, Live
    <3> QED
      BY <3>1
  <2> QED
    BY <2>1, <2>2, <2>3, <2>4, <2>5 DEF Next, Start
<1> QED
  BY <1>1, <1>2, Invariant, PTL DEF Spec, Service!Spec

-----------------------------------------------------------------------------
(* The window.                                                             *)

\* What the place of the event loop says of the recorder: it is inside stop()'s
\* join or not, and whether it has called start() or stop() last.
Calls ==
  /\ caller = (IF place = "stopping" THEN "joining" ELSE "idle")
  /\ place = "launch" <=> thread = NoThread
  /\ place = "stopping" => Joins
  /\ place = "start" => asked
  /\ place \in {"stopping", "refresh", "saved"} => ~asked
  /\ place # "launch" /\ ~asked => stop

\* Once stop() has seen the recorder's end and its handler is over, the list box
\* has what is on disk.
Listed ==
  place \in Boxes \cup {"idle", "sending"} /\ Joins /\ ~asked /\ ~timedOut => listed = OnDisk

\* The handler that starts a chain has room for it.
Armed == place = "start" => \A start \in Clips : chains[start] < MaxChains

GuiIInv == IInv /\ GuiTypeOK /\ Armed /\ Calls /\ Listed /\ listed \subseteq OnDisk

\* The steps of the event loop that leave the recorder alone.
Shows ==
  \/ FirstTick \/ TimerRefresh \/ (\E start \in Clips : TimerTick(start))
  \/ Refresh \/ OnSend \/ SendReturns \/ CloseBox \/ CloseWindow

LEMMA ShowsKeeps == Shows => UNCHANGED vars
BY DEF Shows, FirstTick, TimerRefresh, TimerTick, Tick, Refresh, OnSend, SendReturns,
       CloseBox, CloseWindow

\* Every step of the window is one of the recorder or none at all.
LEMMA GuiStep == [GuiNext]_allVars => [Next]_vars
<1>1. SUFFICES ASSUME [GuiNext]_allVars PROVE [Next]_vars
  OBVIOUS
<1>2. CASE Shows
  BY <1>2, ShowsKeeps
<1>3. CASE Launch \/ OnStartMon
  BY <1>3 DEF Launch, OnStartMon, Next
<1>4. CASE OnStop \/ StopReturns
  BY <1>4, Zenon DEF OnStop, StopReturns, Next
<1>5. CASE (\E t \in Threads : RunDaemon(t)) \/ TimePasses
  BY <1>5 DEF RunDaemon, TimePasses, Next
<1>6. CASE UNCHANGED allVars
  BY <1>6 DEF allVars
<1> QED
  BY <1>1, <1>2, <1>3, <1>4, <1>5, <1>6 DEF GuiNext, Shows

\* The window calls the recorder as its specification allows (run(), lines 107 to
\* 151): all that holds of the recorder holds inside the window.
THEOREM WindowUsesRecorder == GuiSpec => Spec
BY GuiStep, PTL DEF GuiSpec, GuiInit, Spec

\* There is one recorder at most, whatever buttons are pressed and timers fire.
THEOREM OneRecorderInWindow == GuiSpec => []OneRecorder
BY WindowUsesRecorder, AtMostOneRecorder, PTL

LEMMA GuiTypeStep == GuiTypeOK /\ Armed /\ [GuiNext]_allVars /\ TypeOK' => GuiTypeOK'
<1>1. SUFFICES ASSUME GuiTypeOK, Armed, [GuiNext]_allVars, TypeOK' PROVE GuiTypeOK'
  OBVIOUS
<1> USE <1>1 DEF Step, Blocked, Boxes
<1>2. OnDisk \subseteq Clips
  BY DEF OnDisk
<1>3. lastClip \in Clips \cup {NoClip} /\ clock \in Clips
  BY DEF GuiTypeOK, TypeOK
<1>4. CASE Launch
  BY <1>4 DEF Launch, GuiTypeOK
<1>5. CASE OnStartMon
  BY <1>5, Zenon DEF OnStartMon, GuiTypeOK
<1>14. ASSUME NEW start \in Clips, NEW armed, armed \in 0..MaxChains,
              armed + 1 \in 0..MaxChains, Tick(start, armed)
       PROVE  chains' \in [Clips -> 0..MaxChains]
  BY <1>14 DEF Tick, GuiTypeOK
<1>6. CASE FirstTick
  <2>1. chains[clock] \in 0..MaxChains /\ chains[clock] < MaxChains
    BY <1>3, <1>6 DEF FirstTick, Armed, GuiTypeOK
  <2>2. chains[clock] + 1 \in 0..MaxChains
    BY <2>1, ChainsAssumption
  <2>3. chains' \in [Clips -> 0..MaxChains]
    BY <1>3, <1>6, <1>14, <2>1, <2>2 DEF FirstTick
  <2> QED
    BY <1>6, <2>3, Zenon DEF FirstTick, Tick, GuiTypeOK
<1>7. ASSUME NEW start \in Clips, TimerTick(start) PROVE GuiTypeOK'
  <2>1. chains[start] \in 0..MaxChains /\ chains[start] > 0
    BY <1>7 DEF TimerTick, GuiTypeOK
  <2>2. chains[start] - 1 \in 0..MaxChains /\ (chains[start] - 1) + 1 \in 0..MaxChains
    BY <2>1, ChainsAssumption
  <2>3. chains' \in [Clips -> 0..MaxChains]
    BY <1>7, <1>14, <2>2 DEF TimerTick
  <2> QED
    BY <1>7, <2>3, Zenon DEF TimerTick, Tick, GuiTypeOK
<1>8. CASE TimerRefresh
  BY <1>2, <1>8, Zenon DEF TimerRefresh, GuiTypeOK
<1>9. CASE OnStop
  BY <1>9, Zenon DEF OnStop, GuiTypeOK
<1>10. CASE StopReturns
  BY <1>3, <1>10, Zenon DEF StopReturns, GuiTypeOK
<1>11. CASE Refresh
  BY <1>2, <1>11, Zenon DEF Refresh, GuiTypeOK
<1>12. CASE OnSend \/ SendReturns \/ CloseBox \/ CloseWindow
  BY <1>12, Zenon DEF OnSend, SendReturns, CloseBox, CloseWindow, GuiTypeOK
<1>13. CASE (\E t \in Threads : RunDaemon(t)) \/ TimePasses \/ UNCHANGED allVars
  BY <1>13, Zenon DEF RunDaemon, TimePasses, allVars, guiVars, GuiTypeOK
<1> QED
  BY <1>1, <1>4, <1>5, <1>6, <1>7, <1>8, <1>9, <1>10, <1>11, <1>12, <1>13 DEF GuiNext

\* A recorder thread that has been started stays a thread that has.
LEMMA RunJoins == ASSUME TypeOK, NEW t \in Threads, Run(t) PROVE Joins' <=> Joins
<1>1. thread' = thread
  BY RunStep
<1>2. PICK p \in Places, l \in Places : Goto(t, p, l) /\ p # "unborn" /\ l # "unborn"
  BY DEF Run, NameClip, Names, OpenWriter, TestStop, WriteFrame, Release, Quit, Places, Goto
<1> QED
  BY <1>1, <1>2 DEF Joins, Goto, TypeOK

LEMMA ArmedStep == Armed /\ [GuiNext]_allVars => Armed'
<1>1. SUFFICES ASSUME Armed, [GuiNext]_allVars, place' = "start"
               PROVE  \A start \in Clips : chains'[start] < MaxChains
  BY DEF Armed
<1>2. CASE OnStartMon
  BY <1>2 DEF OnStartMon
<1>3. CASE place = "start" /\ chains' = chains
  BY <1>1, <1>3 DEF Armed
<1> QED
  BY <1>1, <1>2, <1>3 DEF GuiNext, Step, Boxes, Launch, FirstTick, TimerRefresh, TimerTick,
     OnStop, StopReturns, Refresh, OnSend, SendReturns, CloseBox, CloseWindow, RunDaemon,
     TimePasses, guiVars, allVars

LEMMA CallsStep == TypeOK /\ Calls /\ [GuiNext]_allVars => Calls'
<1>1. SUFFICES ASSUME TypeOK, Calls, [GuiNext]_allVars PROVE Calls'
  OBVIOUS
<1> USE <1>1, ConstantsAssumption DEF Step, Boxes
<1>2. CASE Launch \/ OnStartMon
  <2>1. place' \in {"idle", "start", "closed"} /\ place \in {"launch", "idle"}
    BY <1>2, Zenon DEF Launch, OnStartMon
  <2>2. Start \/ StartFails
    BY <1>2, Zenon DEF Launch, OnStartMon
  <2>3. asked' /\ caller' = "idle" /\ thread' # NoThread
    BY <2>2 DEF Start, StartAgain, StartNew, StartFails, threadVars, Live
  <2> QED
    BY <2>1, <2>3 DEF Calls
<1>3. CASE OnStop
  <2>1. place = "idle" /\ place' = (IF Joins THEN "stopping" ELSE "idle") /\ Joins' = Joins
    BY <1>3 DEF OnStop, Stop, Joins
  <2>2. ~asked' /\ stop' /\ thread' = thread /\ caller' = (IF Joins THEN "joining" ELSE "idle")
    BY <1>3, <2>1 DEF OnStop, Stop, Calls
  <2> QED
    BY <2>1, <2>2 DEF Calls
<1>4. CASE StopReturns
  <2>1. /\ place = "stopping" /\ place' = "refresh" /\ caller' = "idle"
        /\ UNCHANGED <<thread, stop, asked>>
    BY <1>4 DEF StopReturns, JoinDone, JoinTimeout, threadVars
  <2> QED
    BY <2>1 DEF Calls
<1>5. CASE Shows
  <2>1. UNCHANGED vars
    BY <1>5, ShowsKeeps
  <2>2. /\ place \notin {"launch", "stopping"} /\ place' \notin {"launch", "stopping", "start", "refresh"}
        /\ place' = "saved" => place \in {"refresh", "saved"}
    BY <1>5 DEF Shows, FirstTick, TimerRefresh, TimerTick, Refresh, OnSend, SendReturns,
                CloseBox, CloseWindow
  <2> QED
    BY <2>1, <2>2 DEF vars, Calls
<1>6. ASSUME NEW t \in Threads, RunDaemon(t) PROVE Calls'
  <2>1. UNCHANGED <<place, thread, stop, caller, asked>>
    BY <1>6, RunStep DEF RunDaemon, guiVars, callerVars
  <2>2. Joins => Joins'
    BY <1>6, RunJoins DEF RunDaemon
  <2> QED
    BY <2>1, <2>2 DEF Calls
<1>7. CASE TimePasses \/ UNCHANGED allVars
  BY <1>7 DEF TimePasses, Second, SetBack, threadVars, callerVars, allVars, vars, guiVars, Calls,
              Joins
<1> QED
  BY <1>1, <1>2, <1>3, <1>4, <1>5, <1>6, <1>7 DEF GuiNext, Shows

\* The files change only while a recorder is alive.
LEMMA DiskStep ==
  ASSUME TypeOK, [Next]_vars, ~SomeLive
  PROVE  OnDisk' = OnDisk
<1>1. footage' = footage
  BY DEF Next, Run, NameClip, Names, OpenWriter, TestStop, WriteFrame, Release, Quit, Goto,
         SomeLive, Live, Start, StartAgain, StartNew, StartFails, Stop, JoinDone, JoinTimeout,
         Second, SetBack, threadVars, callerVars, vars
<1> QED
  BY <1>1 DEF OnDisk

LEMMA ListedStep == GuiIInv /\ [GuiNext]_allVars => Listed'
<1>1. SUFFICES ASSUME GuiIInv, [GuiNext]_allVars,
                      place' \in Boxes \cup {"idle", "sending"}, Joins', ~asked', ~timedOut'
               PROVE  listed' = OnDisk'
  BY DEF Listed
<1> USE <1>1 DEF GuiIInv, Step, Boxes
<1>2. place # "stopping" /\ ~asked /\ ~timedOut => ~SomeLive \/ place = "launch"
  BY DEF IInv, Settled, Calls
<1>3. CASE Launch \/ OnStartMon
  <2>1. Start \/ StartFails
    BY <1>3, Zenon DEF Launch, OnStartMon
  <2> QED
    BY <2>1 DEF Start, StartAgain, StartNew, StartFails
<1>4. CASE OnStop \/ StopReturns
  BY <1>4 DEF OnStop, StopReturns, Stop, Joins
<1>5. CASE Refresh \/ TimerRefresh
  <2>1. UNCHANGED vars /\ listed' = OnDisk
    BY <1>5 DEF Refresh, TimerRefresh
  <2> QED
    BY <2>1 DEF vars, OnDisk
<1>6. CASE FirstTick \/ (\E start \in Clips : TimerTick(start)) \/ OnSend \/ SendReturns
           \/ CloseBox \/ CloseWindow
  <2>1. UNCHANGED vars /\ listed' = listed
    BY <1>6 DEF FirstTick, TimerTick, Tick, OnSend, SendReturns, CloseBox, CloseWindow
  <2>2. place \in Boxes \cup {"idle", "sending"}
    BY <1>6, <2>1 DEF vars, FirstTick, TimerTick, Tick, OnSend, SendReturns, CloseBox,
                      CloseWindow, Calls
  <2> QED
    BY <2>1, <2>2 DEF vars, OnDisk, Listed, Joins
<1>7. CASE (\E t \in Threads : RunDaemon(t)) \/ TimePasses \/ UNCHANGED allVars
  <2>1. UNCHANGED <<place, listed, asked, timedOut>>
    BY <1>7, RunStep DEF RunDaemon, TimePasses, Second, SetBack, guiVars, callerVars, allVars, vars, IInv
  <2>2. OnDisk' = OnDisk
    BY <1>2, <2>1, GuiStep, DiskStep DEF IInv
  <2>3. Joins
    BY <1>7, RunJoins DEF RunDaemon, TimePasses, Second, SetBack, threadVars, allVars, vars, Joins,
                          IInv
  <2> QED
    BY <2>1, <2>2, <2>3 DEF Listed
<1> QED
  BY <1>1, <1>3, <1>4, <1>5, <1>6, <1>7 DEF GuiNext

\* No clip disappears, so that the list box has only clips there are.
LEMMA ListedOnDisk == GuiIInv /\ [GuiNext]_allVars => (listed \subseteq OnDisk)'
<1>1. SUFFICES ASSUME GuiIInv, [GuiNext]_allVars PROVE listed' \subseteq OnDisk'
  OBVIOUS
<1>2. OnDisk \subseteq OnDisk'
  <2>1. \A c \in Clips : footage[c] # NoThread => footage'[c] # NoThread
    <3>1. ASSUME NEW t \in Threads, OpenWriter(t)
          PROVE  \A c \in Clips : footage[c] # NoThread => footage'[c] # NoThread
      BY <1>1, <3>1, ConstantsAssumption DEF GuiIInv, IInv, TypeOK, OpenWriter
    <3>2. (\E t \in Threads : OpenWriter(t)) \/ footage' = footage
      BY <1>1, GuiStep DEF Next, Run, NameClip, Names, TestStop, WriteFrame, Release, Quit, Start,
         StartAgain, StartNew, StartFails, Stop, JoinDone, JoinTimeout, Second, SetBack,
         threadVars, vars
    <3> QED
      BY <3>1, <3>2
  <2> QED
    BY <2>1 DEF OnDisk
<1>3. listed' \in {listed, OnDisk}
  BY <1>1 DEF GuiNext, Launch, OnStartMon, FirstTick, TimerRefresh, TimerTick, Tick, OnStop,
     StopReturns, Refresh, OnSend, SendReturns, CloseBox, CloseWindow, RunDaemon, TimePasses,
     guiVars, allVars
<1> QED
  BY <1>1, <1>2, <1>3 DEF GuiIInv

LEMMA GuiInvariant == GuiSpec => []GuiIInv
<1>1. GuiInit /\ IInv => GuiIInv
  <2>1. GuiInit /\ IInv => GuiTypeOK
    <3>1. 0 \in 0..MaxChains
      BY ChainsAssumption
    <3>2. GuiInit => chains \in [Clips -> 0..MaxChains] /\ listed \subseteq Clips
                     /\ out \in Clips \cup {NoClip}
      BY <3>1, Zenon DEF GuiInit
    <3> QED
      BY <3>2, Zenon DEF GuiInit, IInv, GuiTypeOK, Blocked, Boxes
  <2>2. GuiInit => Armed /\ Calls /\ Listed /\ listed \subseteq OnDisk
    BY ConstantsAssumption DEF GuiInit, Init, Armed, Calls, Listed, Joins, Boxes
  <2> QED
    BY <2>1, <2>2 DEF GuiIInv
<1>2. GuiIInv /\ IInv' /\ [GuiNext]_allVars => GuiIInv'
  BY GuiTypeStep, ArmedStep, CallsStep, ListedStep, ListedOnDisk DEF GuiIInv, IInv
<1> QED
  BY <1>1, <1>2, WindowUsesRecorder, Invariant, PTL DEF GuiSpec

\* Every variable of the window keeps its type.
THEOREM GuiTypeCorrect == GuiSpec => []GuiTypeOK
BY GuiInvariant, PTL DEF GuiIInv

\* The Tk thread is inside the join of recorder.stop() exactly when it is in one of
\* the two stop handlers (lines 123 to 127 and 139 to 141), with a thread that was
\* started, and the list box has only clips that exist.
THEOREM HandlersMatchCalls == GuiSpec => [](Calls /\ listed \subseteq OnDisk)
BY GuiInvariant, PTL DEF GuiIInv

\* After a stop() whose join saw the recorder's end the box, the list and closing
\* the window can be trusted (on_stop_rec() and on_stop_mon(), lines 123 to 141).
THEOREM StopCanBeTrusted == GuiSpec => []StoppedIsSettled
<1>1. GuiIInv => StoppedIsSettled
  <2>1. SUFFICES ASSUME GuiIInv, ~timedOut PROVE StoppedIsSettled
    BY DEF StoppedIsSettled
  <2>2. place \notin {"stopping", "launch"} /\ ~asked => ~SomeLive
    BY <2>1 DEF GuiIInv, IInv, Settled, Calls
  <2>3. \A t \in Threads, c \in Clips \cup {NoClip} : Writing(t, c) => SomeLive
    BY DEF Writing, SomeLive, Live
  <2>4. place = "saved" => ~asked
    BY <2>1 DEF GuiIInv, Calls
  <2>5. out \in Clips \cup {NoClip}
    BY <2>1 DEF GuiIInv, GuiTypeOK
  <2> QED
    BY <2>1, <2>2, <2>3, <2>4, <2>5 DEF StoppedIsSettled, GuiIInv, Listed, Boxes
<1> QED
  BY <1>1, GuiInvariant, PTL
=============================================================================

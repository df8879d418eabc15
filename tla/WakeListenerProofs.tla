------------------------- MODULE WakeListenerProofs -------------------------
(***************************************************************************)
(* Theorems about WakeListener, for any number of runs and any length of   *)
(* its audio queue.                                                        *)
(***************************************************************************)
EXTENDS WakeListener, SequenceTheorems, TLAPS

\* A run that is under way has not launched yet: it still has the launch it is
\* entitled to, and it has acted on a phrase only if it is about to launch.
LaunchLeft ==
  /\ Len(assistants) + (IF proc \in Running THEN 1 ELSE 0) <= runs
  /\ matches <= (IF proc \in {"create", "read", "setup", "listen"} THEN 0 ELSE 1)

IInv == TypeOK /\ LaunchLeft

\* What launch_simian() may leave in the list of assistants.
LEMMA Launching ==
  ASSUME TypeOK
  PROVE  /\ Append(assistants, Launched) \in Seq([asked : Modes, mode : Modes])
         /\ Len(Append(assistants, Launched)) = Len(assistants) + 1
         /\ Len(assistants) \in Nat
<1>1. Launched \in [asked : Modes, mode : Modes]
  BY DEF TypeOK, Launched
<1>2. assistants \in Seq([asked : Modes, mode : Modes])
  BY DEF TypeOK
<1> QED
  BY <1>1, <1>2, AppendProperties, LenProperties

LEMMA InitIInv == Init => IInv
<1>1. SUFFICES ASSUME Init PROVE IInv
  OBVIOUS
<1>2. /\ audio_queue \in Seq(Utterances)
      /\ assistants \in Seq([asked : Modes, mode : Modes]) /\ Len(assistants) = 0
  BY <1>1, EmptySeq DEF Init
<1>3. DEFAULT_MODE \in Modes /\ 0 \in 0..MaxRuns
  BY ListenerAssumption DEF DEFAULT_MODE, Modes
<1>4. TypeOK
  BY <1>1, <1>2, <1>3 DEF Init, TypeOK, Running, Configs
<1>5. LaunchLeft
  BY <1>1, <1>2 DEF Init, LaunchLeft, Running
<1> QED
  BY <1>4, <1>5 DEF IInv

LEMMA TypeStep == TypeOK /\ [Next]_vars => TypeOK'
<1>1. SUFFICES ASSUME TypeOK, [Next]_vars PROVE TypeOK'
  OBVIOUS
<1> USE <1>1, ListenerAssumption DEF Goto, files
<1>2. DEFAULT_MODE \in Modes /\ <<>> \in Seq(Utterances)
  BY EmptySeq DEF DEFAULT_MODE, Modes
<1>3. CASE Start
  <2>1. runs' \in 0..MaxRuns /\ matches' \in Nat
    BY <1>3 DEF Start, TypeOK
  <2>2. config' \in Configs /\ proc' \in Running
    BY <1>3 DEF Start, TypeOK, Running, Configs
  <2> QED
    BY <1>3, <2>1, <2>2, Zenon DEF Start, TypeOK
<1>4. CASE DumpDefault \/ ReadConfig \/ ReadRaises \/ Setup \/ Confirm \/ EditConfig
  BY <1>2, <1>4 DEF DumpDefault, ReadConfig, ReadRaises, Setup, Confirm, EditConfig, TypeOK,
     Running, Configs
<1>9. CASE Stop \/ HearRaises
  BY <1>2, <1>9, Zenon DEF Stop, HearRaises, TypeOK
<1>5. ASSUME NEW u \in Utterances, Callback(u) PROVE TypeOK'
  BY <1>5 DEF Callback, TypeOK
<1>6. CASE Hear
  <2>1. Tail(audio_queue) \in Seq(Utterances)
    BY <1>6, HeadTailProperties DEF Hear, TypeOK
  <2> QED
    BY <1>6, <2>1 DEF Hear, TypeOK, Running
<1>7. CASE LaunchSimian
  BY <1>2, <1>7, Launching DEF LaunchSimian, TypeOK
<1>8. CASE UNCHANGED vars
  BY <1>8 DEF vars, TypeOK
<1> QED
  BY <1>1, <1>3, <1>4, <1>5, <1>6, <1>7, <1>8, <1>9 DEF Next

LEMMA Inductive == IInv /\ [Next]_vars => IInv'
<1>1. SUFFICES ASSUME IInv, [Next]_vars PROVE LaunchLeft'
  BY TypeStep DEF IInv
<1>2. TypeOK /\ LaunchLeft /\ runs \in Nat /\ matches \in Nat
  BY <1>1, ListenerAssumption DEF IInv, TypeOK
<1>3. Len(assistants) \in Nat
  BY <1>2, Launching
<1> USE DEF Goto, LaunchLeft, Running
<1>4. CASE Start
  BY <1>2, <1>3, <1>4 DEF Start
<1>5. CASE Hear
  BY <1>2, <1>3, <1>5 DEF Hear
<1>6. CASE LaunchSimian
  <2>1. Len(assistants') <= Len(assistants) + 1 /\ Len(assistants') \in Nat
    BY <1>2, <1>6, Launching DEF LaunchSimian
  <2> QED
    BY <1>2, <1>3, <1>6, <2>1 DEF LaunchSimian
<1>7. CASE DumpDefault \/ ReadConfig \/ ReadRaises \/ Setup \/ HearRaises \/ Confirm \/ Stop
  BY <1>2, <1>3, <1>7 DEF DumpDefault, ReadConfig, ReadRaises, Setup, HearRaises, Confirm, Stop
<1>8. CASE EditConfig \/ (\E u \in Utterances : Callback(u)) \/ UNCHANGED vars
  BY <1>2, <1>3, <1>8 DEF EditConfig, Callback, vars
<1> QED
  BY <1>1, <1>4, <1>5, <1>6, <1>7, <1>8 DEF Next

LEMMA Invariant == Spec => []IInv
BY InitIInv, Inductive, PTL DEF Spec

\* Every variable keeps its type: whatever the configuration file holds, the boot
\* mode read from it is one of the three.
THEOREM TypeCorrect == Spec => []TypeOK
BY Invariant, PTL DEF IInv

\* One run of the listener acts on one wake phrase and launches one assistant at
\* most, however many phrases are queued by then (lines 102 to 128).
THEOREM LaunchesOnce == Spec => []OneLaunchPerRun
<1>1. IInv => OneLaunchPerRun
  <2>1. SUFFICES ASSUME IInv PROVE OneLaunchPerRun
    OBVIOUS
  <2>2. Len(assistants) \in Nat /\ runs \in Nat /\ matches \in Nat /\ LaunchLeft
    BY <2>1, Launching, ListenerAssumption DEF IInv, TypeOK
  <2> QED
    BY <2>2 DEF LaunchLeft, OneLaunchPerRun
<1> QED
  BY <1>1, Invariant, PTL
=============================================================================

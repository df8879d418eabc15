------------------------- MODULE ScreenMonitorProofs -------------------------
(***************************************************************************)
(* Theorems about ScreenMonitor, for any set of loops and any bound on the *)
(* stops.                                                                  *)
(***************************************************************************)
EXTENDS ScreenMonitor, TLAPS

Born(l) == loop[l] # "unborn"

\* The flag being set is some start()'s doing, in this epoch; while it is clear
\* no start() has set it in this epoch yet.
EpochHasItsLoop ==
  /\ flag => \E l \in Loops : /\ loop[l] \in {"starting", "test", "sleep", "failed"}
                              /\ born[l] = epoch
  /\ ~flag => \A l \in Loops : Born(l) => born[l] < epoch

\* No two threads were created in one epoch, in no later one than the current.
EpochsDiffer ==
  /\ \A l, m \in Loops : Born(l) /\ Born(m) /\ born[l] = born[m] => l = m
  /\ \A l \in Loops : Born(l) => born[l] <= epoch

IInv == TypeOK /\ EpochHasItsLoop /\ EpochsDiffer /\ EndsAfterOwnStop

LEMMA InitIInv == Init => IInv
<1>1. SUFFICES ASSUME Init PROVE IInv
  OBVIOUS
<1>2. /\ loop \in [Loops -> Places] /\ epoch \in Nat /\ born \in [Loops -> Nat]
      /\ \A l \in Loops : loop[l] = "unborn"
  BY <1>1 DEF Init, Places
<1>3. TypeOK
  BY <1>1, <1>2, Zenon DEF Init, TypeOK
<1>4. EpochHasItsLoop
  BY <1>1, <1>2, Zenon DEF Init, EpochHasItsLoop, Born
<1>5. EpochsDiffer /\ EndsAfterOwnStop
  BY <1>2 DEF EpochsDiffer, EndsAfterOwnStop, Born
<1> QED
  BY <1>3, <1>4, <1>5 DEF IInv

LEMMA TypeStep == TypeOK /\ [Next]_vars => TypeOK'
<1> USE DEF TypeOK, Places, Goto
<1>1. SUFFICES ASSUME TypeOK, [Next]_vars PROVE TypeOK'
  OBVIOUS
<1>2. ASSUME NEW l \in Loops, Start(l) PROVE TypeOK'
  BY <1>1, <1>2 DEF Start
<1>3. ASSUME NEW l \in Loops, Run(l) PROVE TypeOK'
  BY <1>1, <1>3 DEF Run, Spawn, Test, Wake
<1>4. CASE Stop
  <2>1. epoch' \in Nat /\ loop' = loop /\ born' = born
    BY <1>1, <1>4 DEF Stop
  <2> QED
    BY <1>1, <1>4, <2>1, Zenon DEF Stop
<1>5. CASE UNCHANGED vars
  BY <1>1, <1>5 DEF vars
<1> QED
  BY <1>1, <1>2, <1>3, <1>4, <1>5 DEF Next

LEMMA Inductive == IInv /\ [Next]_vars => IInv'
<1>1. SUFFICES ASSUME IInv, [Next]_vars PROVE IInv'
  OBVIOUS
<1>2. TypeOK'
  BY <1>1, TypeStep DEF IInv
<1> USE DEF IInv, TypeOK, Places, Goto, Born
<1>3. ASSUME NEW l \in Loops, Start(l) PROVE IInv'
  <2>1. \A m \in Loops : Born(m) => born[m] < epoch
    BY <1>1, <1>3 DEF Start, EpochHasItsLoop
  <2>2. EpochHasItsLoop'
    BY <1>1, <1>3 DEF Start, EpochHasItsLoop
  <2>3. EpochsDiffer'
    BY <1>1, <1>3, <2>1 DEF Start, EpochsDiffer
  <2>4. EndsAfterOwnStop'
    BY <1>1, <1>3 DEF Start, EndsAfterOwnStop
  <2> QED
    BY <1>2, <2>2, <2>3, <2>4
<1>4. ASSUME NEW l \in Loops, Run(l) PROVE IInv'
  <2>1. UNCHANGED <<flag, epoch, born>> /\ loop[l] \in {"starting", "test", "sleep"}
    BY <1>4 DEF Run, Spawn, Test, Wake
  <2>2. PICK p \in {"test", "sleep", "failed", "done"} :
          /\ loop' = [loop EXCEPT ![l] = p]
          /\ p = "done" => ~flag
    BY <1>4 DEF Run, Spawn, Test, Wake
  <2>3. EpochHasItsLoop'
    BY <1>1, <2>1, <2>2 DEF EpochHasItsLoop
  <2>4. EpochsDiffer'
    BY <1>1, <2>1, <2>2 DEF EpochsDiffer
  <2>5. EndsAfterOwnStop'
    BY <1>1, <2>1, <2>2 DEF EndsAfterOwnStop, EpochHasItsLoop
  <2> QED
    BY <1>2, <2>3, <2>4, <2>5
<1>5. CASE Stop
  BY <1>1, <1>2, <1>5 DEF Stop, EpochHasItsLoop, EpochsDiffer, EndsAfterOwnStop
<1>6. CASE UNCHANGED vars
  BY <1>1, <1>2, <1>6 DEF vars, EpochHasItsLoop, EpochsDiffer, EndsAfterOwnStop
<1> QED
  BY <1>1, <1>3, <1>4, <1>5, <1>6 DEF Next

LEMMA Invariant == Spec => []IInv
BY InitIInv, Inductive, PTL DEF Spec

(* Every variable keeps its type, whichever callers and loops take turns.  *)
THEOREM TypeCorrect == Spec => []TypeOK
BY Invariant, PTL DEF IInv

(* A set flag means a loop runs or is about to, or that the last effective *)
(* start() could not create its thread (lines 8-13).                       *)
THEOREM FlagIsServed == Spec => []FlagServed
<1>1. IInv => FlagServed
  BY DEF IInv, EpochHasItsLoop, FlagServed, Active
<1> QED
  BY <1>1, Invariant, PTL

(* Concurrent calls of start() never make two loops.                       *)
THEOREM OneLoopForEachOnPeriod == Spec => []OneLoopPerOnPeriod
<1>1. IInv => OneLoopPerOnPeriod
  BY DEF IInv, EpochsDiffer, OneLoopPerOnPeriod, Active, Born
<1> QED
  BY <1>1, Invariant, PTL

(* No loop ends by a stop() older than itself.                             *)
THEOREM LoopsEndAfterOwnStop == Spec => []EndsAfterOwnStop
BY Invariant, PTL DEF IInv
=============================================================================

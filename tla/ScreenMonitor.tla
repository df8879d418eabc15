---------------------------- MODULE ScreenMonitor ----------------------------
(***************************************************************************)
(* services/screen_monitor.py: a module-wide flag under a lock.  start()   *)
(* sets the flag inside the lock but creates its daemon thread after it    *)
(* has left it, and stop() clears the flag and waits for nobody; the loop  *)
(* of _run() looks at the flag once a second.  Any thread may call either, *)
(* at any time.                                                            *)
(*                                                                         *)
(* Each block under the lock is one action.  A call that finds the flag as *)
(* it wants it changes nothing and is not an action.                       *)
(***************************************************************************)
EXTENDS Naturals

CONSTANTS Loops,     \* the loop threads start() may create
          MaxStops   \* bound: the number of stops that turn the flag off

ASSUME MaxStopsAssumption == MaxStops \in Nat

VARIABLES
  flag,   \* _monitor_flag
  loop,   \* where each loop thread is
  epoch,  \* history: how often the flag has been turned off
  born    \* history: the epoch in which each loop's start() set the flag

vars == <<flag, loop, epoch, born>>

Places == {"unborn", "starting", "failed", "test", "sleep", "done"}

TypeOK ==
  /\ flag \in BOOLEAN
  /\ loop \in [Loops -> Places]
  /\ epoch \in Nat
  /\ born \in [Loops -> Nat]

Init ==
  /\ flag = FALSE
  /\ loop = [l \in Loops |-> "unborn"]
  /\ epoch = 0
  /\ born = [l \in Loops |-> 0]

-----------------------------------------------------------------------------
Goto(l, from, to) == loop[l] = from /\ loop' = [loop EXCEPT ![l] = to]

\* Variants of Start: the flag is not looked at; it holds the thread itself.
StartUnchecked(l) ==
  /\ flag' = TRUE
  /\ Goto(l, "unborn", "starting")
  /\ born' = [born EXCEPT ![l] = epoch]
  /\ UNCHANGED epoch

StartWithThread(l) ==
  /\ ~flag
  /\ flag' = l
  /\ Goto(l, "unborn", "starting")
  /\ born' = [born EXCEPT ![l] = epoch]
  /\ UNCHANGED epoch

\* start() under the lock; from here on it is about to create thread l.
Start(l) ==
  /\ ~flag
  /\ flag' = TRUE
  /\ Goto(l, "unborn", "starting")
  /\ born' = [born EXCEPT ![l] = epoch]
  /\ UNCHANGED epoch

\* The rest of start(), outside the lock.  Thread.start() raises RuntimeError
\* when the system gives it no thread, and leaves the flag set.
Spawn(l) ==
  /\ Goto(l, "starting", "test") \/ Goto(l, "starting", "failed")
  /\ UNCHANGED <<flag, epoch, born>>

Stop ==
  /\ flag
  /\ epoch < MaxStops
  /\ flag' = FALSE
  /\ epoch' = epoch + 1
  /\ UNCHANGED <<loop, born>>

\* Variants of Test: the condition is inverted, and the loop never breaks.
TestInverted(l) ==
  /\ IF flag THEN Goto(l, "test", "done") ELSE Goto(l, "test", "sleep")
  /\ UNCHANGED <<flag, epoch, born>>

TestNothing(l) ==
  /\ Goto(l, "test", "sleep")
  /\ UNCHANGED <<flag, epoch, born>>

\* One turn of _run(): break, or sleep for a second.
Test(l) ==
  /\ IF flag THEN Goto(l, "test", "sleep") ELSE Goto(l, "test", "done")
  /\ UNCHANGED <<flag, epoch, born>>

\* Variant of Wake: no while around the loop's body.
WakeToEnd(l) ==
  /\ Goto(l, "sleep", "done")
  /\ UNCHANGED <<flag, epoch, born>>

Wake(l) ==
  /\ Goto(l, "sleep", "test")
  /\ UNCHANGED <<flag, epoch, born>>

Run(l) == Spawn(l) \/ Test(l) \/ Wake(l)

Next == Stop \/ \E l \in Loops : Start(l) \/ Run(l)

Spec == Init /\ [][Next]_vars

\* Threads are scheduled; nobody has to call start() or stop().
FairSpec == Spec /\ \A l \in Loops : WF_vars(Run(l))

-----------------------------------------------------------------------------
(* Properties.                                                             *)

Active(l) == loop[l] \in {"starting", "test", "sleep"}

\* While the flag says the monitor runs, a loop runs or is about to; the one
\* exception is a start() since the last stop that could not get its thread.
FlagServed ==
  flag => \/ \E l \in Loops : Active(l)
          \/ \E l \in Loops : loop[l] = "failed" /\ born[l] = epoch

\* Concurrent calls of start() make one loop between them: two loops run side
\* by side only if the flag was off in between, so that the older one is a
\* loop that slept through a stop().
OneLoopPerOnPeriod ==
  \A l, m \in Loops :
    Active(l) /\ Active(m) /\ born[l] = born[m] => l = m

\* Once the monitor is off for good every loop ends, those included whose
\* thread was created after the stop.
StopDrains == <>[]~flag => <>[](\A l \in Loops : ~Active(l))

\* A loop never ends before a stop() that came after its own start(): the flag
\* it sees cleared is never the one from before its start.  (The converse fails:
\* a loop that sleeps through a stop() and the next start() goes on.)
EndsAfterOwnStop == \A l \in Loops : loop[l] = "done" => born[l] < epoch
=============================================================================

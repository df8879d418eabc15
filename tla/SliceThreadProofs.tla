-------------------------- MODULE SliceThreadProofs --------------------------
(***************************************************************************)
(* Theorems about SliceThread, for any number of threads, jobs and calls.  *)
(***************************************************************************)
EXTENDS SliceThread, FiniteSetTheorems, TLAPS

\* Where Main is between the reset of the counters and the end of the call.
CallPlaces == {"wakeup", "main_func", "wait_done"} \cup JobPlaces

InCall == pc[Main] \in CallPlaces

\* execute() has not come to worker w yet, or does not want it in this call.
Resting(w) == w > nb_woken \/ (pc[Main] = "wakeup" /\ i <= w)

\* t takes part in the call and has not drawn its thread number yet.
ToClaim(t) ==
    IF t = Main THEN pc[Main] \in {"load", "claim"} \/ (pc[Main] = "wakeup" /\ ~execute_main)
    ELSE /\ t <= nb_woken
         /\ \/ pc[Main] = "wakeup" /\ i <= t
            \/ pc[t] = "wait" /\ ~w_done[t]
            \/ pc[t] \in {"load", "claim"}

Unclaimed == {t \in Threads : ToClaim(t)}
Running == {t \in Threads : pc[t] = "job"}

Control ==
    /\ finished <=> pc[Main] \in {"wake_free", "freed"}
    /\ pc[Main] = "created" => i <= nb_workers
    /\ pc[Main] \in {"create", "created"} => nb_jobs = 0
    /\ pc[Main] \in {"idle", "reset"} \/ InCall => nb_threads >= 1
    /\ pc[Main] = "reset" \/ InCall => 1 <= nb_active_threads /\ nb_active_threads <= nb_jobs

\* Outside a call: nobody is at work, and who waits is not being woken, except
\* to end.
Quiet ==
    ~InCall =>
        /\ ~done
        /\ \A t \in Threads : pc[t] \notin JobPlaces \cup {"report"}
        /\ ~finished => \A w \in Workers : pc[w] = "wait" => w_done[w]

RanOutside ==
    ~InCall =>
        /\ \A j \in Jobs : ran[j] <= (IF j < nb_jobs THEN 1 ELSE 0)
        /\ pc[Main] = "reset" => \A j \in Jobs : ran[j] = 0
        /\ pc[Main] = "idle" => \A j \in Jobs : j < nb_jobs => ran[j] = 1

\* During a call the two counters say how many threads are still to come and how
\* many have found no job ...
Counting ==
    InCall =>
        /\ first_job + Cardinality(Unclaimed) = nb_active_threads
        /\ current_job >= nb_active_threads
        /\ Cardinality(Unclaimed) + Cardinality(Running) =
             IF current_job <= nb_jobs THEN nb_active_threads
             ELSE nb_active_threads + nb_jobs - current_job

\* ... and which jobs have begun.
RanInside ==
    InCall => \A j \in Jobs :
        ran[j] = IF j < first_job \/ (nb_active_threads <= j /\ j < current_job /\ j < nb_jobs)
                 THEN 1 ELSE 0

AsleepRest ==
    InCall => \A w \in Workers : Resting(w) =>
                  pc[w] \notin JobPlaces /\ (pc[w] = "wait" => w_done[w])

Locals ==
    \A t \in Threads :
        /\ pc[t] \in {"claim", "job"} =>
              my[t].nb_jobs = nb_jobs /\ my[t].nb_active = nb_active_threads
        /\ pc[t] = "job" => my[t].first < first_job

NumbersDiffer ==
    \A t, u \in Running : my[t].first = my[u].first => t = u

\* Only when all have found no job does one thread report, and once.
OneReport ==
    /\ done => \A t \in Threads : pc[t] # "report"
    /\ \A t, u \in Threads : pc[t] = "report" /\ pc[u] = "report" => t = u
    /\ done \/ (\E t \in Threads : pc[t] = "report") => Unclaimed = {} /\ Running = {}

NumbersOK ==
    /\ nb_threads \in 0..MaxThreads /\ nb_jobs \in 0..MaxJobs
    /\ nb_active_threads \in 0..MaxThreads
    /\ first_job \in 0..MaxThreads /\ current_job \in 0..(MaxJobs + MaxThreads)
    /\ i \in 1..(MaxThreads + 1) /\ calls \in 0..MaxCalls

FlagsOK ==
    /\ main_func \in BOOLEAN /\ done \in BOOLEAN /\ finished \in BOOLEAN
    /\ execute_main \in BOOLEAN /\ w_done \in [Workers -> BOOLEAN]

PlacesOK ==
    /\ pc[Main] \in MainPlaces \cup JobPlaces
    /\ pc \in [Threads -> MainPlaces \cup WorkerPlaces \cup JobPlaces]

RecordsOK ==
    /\ my \in [Threads -> [nb_jobs : 0..MaxJobs, nb_active : 0..MaxThreads,
                           first : 0..MaxThreads, current : 0..MaxJobs]]
    /\ ran \in [Jobs -> Nat]

IInv ==
    /\ TypeOK /\ Control /\ Quiet /\ RanOutside /\ Counting /\ RanInside
    /\ AsleepRest /\ Locals /\ NumbersDiffer /\ OneReport

LEMMA FiniteThreads ==
    /\ IsFiniteSet(Unclaimed) /\ Cardinality(Unclaimed) \in Nat
    /\ IsFiniteSet(Running) /\ Cardinality(Running) \in Nat
<1>1. IsFiniteSet(0..MaxThreads)
  BY FS_Interval, SizesAssumption
<1>2. Threads = 0..MaxThreads
  BY SizesAssumption DEF Threads, Main, Workers
<1>3. Unclaimed \in SUBSET (0..MaxThreads) /\ Running \in SUBSET (0..MaxThreads)
  BY <1>2 DEF Unclaimed, Running
<1> QED
  BY <1>1, <1>3, FS_Subset, FS_CardinalityType

LEMMA InitIInv == Init => IInv
<1>1. SUFFICES ASSUME Init PROVE IInv
  OBVIOUS
<1>2. /\ pc = [t \in Threads |-> IF t = Main THEN "create" ELSE "none"]
      /\ Main \in Threads /\ Main \notin Workers /\ Workers \subseteq Threads
  BY <1>1 DEF Init, Threads, Main, Workers
<1>3. TypeOK
  <2>1. /\ nb_threads \in 0..MaxThreads /\ main_func \in BOOLEAN
        /\ nb_jobs \in 0..MaxJobs /\ nb_active_threads \in 0..MaxThreads
        /\ first_job \in 0..MaxThreads /\ current_job \in 0..(MaxJobs + MaxThreads)
        /\ i \in 1..(MaxThreads + 1) /\ calls \in 0..MaxCalls
        /\ ran \in [Jobs -> Nat]
    BY <1>1, SizesAssumption DEF Init
  <2>2. my \in [Threads -> [nb_jobs : 0..MaxJobs, nb_active : 0..MaxThreads,
                           first : 0..MaxThreads, current : 0..MaxJobs]]
    BY <1>1, SizesAssumption DEF Init, NoLocals
  <2>3. /\ pc[Main] \in MainPlaces \cup JobPlaces
        /\ pc \in [Threads -> MainPlaces \cup WorkerPlaces \cup JobPlaces]
    BY <1>2 DEF MainPlaces, WorkerPlaces, JobPlaces
  <2>4. /\ done \in BOOLEAN /\ finished \in BOOLEAN /\ execute_main \in BOOLEAN
        /\ w_done \in [Workers -> BOOLEAN]
    BY <1>1, Zenon DEF Init
  <2> QED
    BY <2>1, <2>2, <2>3, <2>4, Zenon DEF TypeOK
<1>4. ~InCall /\ pc[Main] = "create" /\ \A t \in Threads : pc[t] \in {"create", "none"}
  BY <1>2 DEF InCall, CallPlaces, JobPlaces
<1>5. ~finished /\ ~done
  BY <1>1, Zenon DEF Init
<1>6. Control
  BY <1>1, <1>4, <1>5 DEF Control, Init
<1>7. Quiet
  BY <1>2, <1>4, <1>5 DEF Quiet, JobPlaces
<1>8. RanOutside /\ RanInside /\ Counting /\ AsleepRest
  BY <1>1, <1>4 DEF Init, RanOutside, RanInside, Counting, AsleepRest
<1>9. Locals /\ NumbersDiffer /\ OneReport
  BY <1>4, <1>5 DEF Locals, NumbersDiffer, OneReport, Running
<1> QED
  BY <1>3, <1>6, <1>7, <1>8, <1>9 DEF IInv
\* What is left to show of a step after which Main is in no call.
LEMMA OutsideRest ==
    TypeOK' /\ ~InCall' /\ Control' /\ Quiet' /\ RanOutside' => IInv'
<1>1. SUFFICES ASSUME TypeOK', ~InCall', Control', Quiet', RanOutside' PROVE IInv'
  OBVIOUS
<1>2. /\ ~done'
      /\ \A t \in Threads : pc'[t] \notin JobPlaces \cup {"report"}
  BY <1>1 DEF Quiet
<1>3. RanInside' /\ Counting' /\ AsleepRest'
  BY <1>1 DEF RanInside, Counting, AsleepRest
<1>4. Locals' /\ NumbersDiffer' /\ OneReport'
  BY <1>2 DEF Locals, NumbersDiffer, OneReport, Running, JobPlaces
<1> QED
  BY <1>1, <1>3, <1>4 DEF IInv

OutsideSteps ==
    \/ Create \/ Created \/ CreateFails \/ CreateReturns \/ Free \/ WakeToFree \/ Join
    \/ \E n \in 1..MaxJobs, em \in BOOLEAN : Execute(n, em)

\* The steps of Main outside a call.
LEMMA OutsideInductive == IInv /\ OutsideSteps => IInv'
<1>1. SUFFICES ASSUME IInv, OutsideSteps PROVE IInv'
  OBVIOUS
<1> USE SizesAssumption DEF Main, Workers, Threads, Go
<1>2. /\ TypeOK /\ Control /\ Quiet /\ RanOutside
      /\ NumbersOK /\ FlagsOK /\ PlacesOK /\ RecordsOK
  BY <1>1, Zenon DEF IInv, TypeOK, NumbersOK, FlagsOK, PlacesOK, RecordsOK
<1>3. nb_workers \in Int /\ nb_workers <= nb_threads /\ nb_threads - 1 <= nb_workers
  BY <1>2 DEF nb_workers, NumbersOK
<1>4. pc[Main] \in {"create", "created", "idle", "free", "wake_free"}
  BY <1>1 DEF OutsideSteps, Create, Created, CreateFails, CreateReturns, Free,
              WakeToFree, Join, Execute
<1>5. ~InCall
  BY <1>4 DEF InCall, CallPlaces, JobPlaces
<1>6. /\ \A t \in Threads : pc[t] \notin JobPlaces \cup {"report"}
      /\ ~done
      /\ ~finished => \A w \in Workers : pc[w] = "wait" => w_done[w]
  BY <1>2, <1>5 DEF Quiet
<1>7. NumbersOK'
  BY <1>1, <1>2, <1>3 DEF NumbersOK, Control, OutsideSteps, Create, Created, CreateFails,
     CreateReturns, Free, WakeToFree, Join, Execute, pool, args, counters
<1>8. PlacesOK'
  BY <1>1, <1>2, <1>3 DEF PlacesOK, NumbersOK, OutsideSteps, Create, Created, CreateFails,
     CreateReturns, Free, WakeToFree, Join, Execute, MainPlaces, WorkerPlaces, JobPlaces
<1>9. FlagsOK'
  BY <1>1, <1>2, Zenon DEF FlagsOK, OutsideSteps, Create, Created, CreateFails,
     CreateReturns, Free, WakeToFree, Join, Execute, pool, args, counters
<1>10. RecordsOK'
  BY <1>1, <1>2 DEF RecordsOK, OutsideSteps, Create, Created, CreateFails,
     CreateReturns, Free, WakeToFree, Join, Execute, pool, args, counters
<1>11. TypeOK'
  BY <1>7, <1>8, <1>9, <1>10, Zenon DEF TypeOK, NumbersOK, FlagsOK, PlacesOK, RecordsOK
<1>12. Control'
  <2>1. CASE \E n \in 1..MaxJobs, em \in BOOLEAN : Execute(n, em)
    <3>1. /\ pc[Main] = "idle" /\ pc'[Main] = "reset"
          /\ nb_threads >= 1 => 1 <= nb_active_threads' /\ nb_active_threads' <= nb_jobs'
      BY <1>2, <2>1 DEF Execute, PlacesOK, NumbersOK
    <3>2. finished' = finished /\ nb_threads' = nb_threads
      BY <2>1 DEF Execute, pool
    <3> QED
      BY <1>2, <3>1, <3>2 DEF Control, InCall
  <2>2. CASE ~\E n \in 1..MaxJobs, em \in BOOLEAN : Execute(n, em)
    <3>1. pc'[Main] \notin CallPlaces \cup {"reset"}
      BY <1>1, <1>2, <2>2 DEF OutsideSteps, Create, Created, CreateFails, CreateReturns,
         Free, WakeToFree, Join, PlacesOK, NumbersOK, CallPlaces, JobPlaces
    <3>2. finished' <=> pc'[Main] \in {"wake_free", "freed"}
      BY <1>1, <1>2, <2>2 DEF OutsideSteps, Create, Created, CreateFails, CreateReturns,
         Free, WakeToFree, Join, PlacesOK, NumbersOK, Control
    <3>3. pc'[Main] = "created" => i' <= nb_workers'
      BY <1>1, <1>2, <2>2 DEF OutsideSteps, Create, Created, CreateFails, CreateReturns,
         Free, WakeToFree, Join, PlacesOK, NumbersOK, pool, nb_workers
    <3>4. pc'[Main] = "idle" => nb_threads' >= 1
      BY <1>1, <1>2, <2>2 DEF OutsideSteps, Create, Created, CreateFails, CreateReturns,
         Free, WakeToFree, Join, PlacesOK, NumbersOK, pool
    <3>5. pc'[Main] \in {"create", "created"} => nb_jobs' = 0
      BY <1>1, <1>2, <2>2 DEF OutsideSteps, Create, Created, CreateFails, CreateReturns,
         Free, WakeToFree, Join, PlacesOK, NumbersOK, Control, args
    <3> QED
      BY <3>1, <3>2, <3>3, <3>4, <3>5 DEF Control, InCall
  <2> QED
    BY <2>1, <2>2
<1>13. ~InCall'
  BY <1>1, <1>2 DEF OutsideSteps, Create, Created, CreateFails, CreateReturns, Free,
     WakeToFree, Join, Execute, PlacesOK, NumbersOK, InCall, CallPlaces, JobPlaces
<1>14. Quiet'
  <2>1. ~done'
    BY <1>1, <1>6 DEF OutsideSteps, Create, Created, CreateFails, CreateReturns, Free,
       WakeToFree, Join, Execute
  <2>2. \A t \in Threads : pc'[t] \notin JobPlaces \cup {"report"}
    BY <1>1, <1>2, <1>6 DEF OutsideSteps, Create, Created, CreateFails, CreateReturns, Free,
       WakeToFree, Join, Execute, PlacesOK, NumbersOK, JobPlaces
  <2>3. ~finished' => \A w \in Workers : pc'[w] = "wait" => w_done'[w]
    BY <1>1, <1>2, <1>6 DEF OutsideSteps, Create, Created, CreateFails, CreateReturns, Free,
       WakeToFree, Join, Execute, PlacesOK, NumbersOK, FlagsOK, Control
  <2> QED
    BY <2>1, <2>2, <2>3 DEF Quiet
<1>15. RanOutside'
  <2>1. CASE \E n \in 1..MaxJobs, em \in BOOLEAN : Execute(n, em)
    <3>1. pc'[Main] = "reset" /\ nb_jobs' \in Nat /\ \A j \in Jobs : ran'[j] = 0
      BY <1>2, <2>1 DEF Execute, PlacesOK
    <3> QED
      BY <3>1 DEF RanOutside, Jobs
  <2>2. CASE ~\E n \in 1..MaxJobs, em \in BOOLEAN : Execute(n, em)
    <3>1. ran' = ran /\ nb_jobs' = nb_jobs
      BY <1>1, <2>2 DEF OutsideSteps, Create, Created, CreateFails, CreateReturns,
         Free, WakeToFree, Join, args
    <3>2. pc'[Main] # "reset" /\ (pc'[Main] = "idle" => nb_jobs = 0)
      BY <1>1, <1>2, <2>2 DEF OutsideSteps, Create, Created, CreateFails, CreateReturns,
         Free, WakeToFree, Join, PlacesOK, NumbersOK, Control
    <3> QED
      BY <1>2, <1>5, <3>1, <3>2 DEF RanOutside, Jobs
  <2> QED
    BY <2>1, <2>2
<1> QED
  BY <1>11, <1>12, <1>13, <1>14, <1>15, OutsideRest
\* The call begins: nobody has a thread number, and all who take part will come.
LEMMA ResetInductive == IInv /\ ResetCounters => IInv'
<1>1. SUFFICES ASSUME IInv, ResetCounters PROVE IInv'
  OBVIOUS
<1> USE SizesAssumption DEF Main, Workers, Threads, Go
<1>2. /\ TypeOK /\ Control /\ Quiet /\ RanOutside
      /\ NumbersOK /\ FlagsOK /\ PlacesOK /\ RecordsOK
  BY <1>1, Zenon DEF IInv, TypeOK, NumbersOK, FlagsOK, PlacesOK, RecordsOK
<1>3. ~InCall /\ pc[Main] = "reset"
  BY <1>1 DEF ResetCounters, InCall, CallPlaces, JobPlaces
<1>4. /\ \A t \in Threads : pc[t] \notin JobPlaces \cup {"report"}
      /\ ~done /\ ~finished
      /\ \A w \in Workers : pc[w] = "wait" => w_done[w]
      /\ 1 <= nb_active_threads /\ nb_active_threads <= nb_jobs
      /\ \A j \in Jobs : ran[j] = 0
  BY <1>2, <1>3 DEF Quiet, Control, RanOutside
<1>5. /\ NumbersOK' /\ args' = args /\ first_job' = 0 /\ current_job' = nb_active_threads
      /\ i' = 1 /\ ran' = ran /\ my' = my /\ pool' = pool
  BY <1>1, <1>2 DEF NumbersOK, ResetCounters, pool, args
<1>6. /\ PlacesOK' /\ pc'[Main] = "wakeup" /\ \A w \in Workers : pc'[w] = pc[w]
  BY <1>1, <1>2 DEF PlacesOK, ResetCounters, MainPlaces
<1>7. /\ FlagsOK' /\ ~done' /\ ~finished' /\ w_done' = w_done
      /\ execute_main' = execute_main /\ main_func' = main_func
  BY <1>1, <1>2, <1>4, Zenon DEF FlagsOK, ResetCounters, pool
<1>8. TypeOK'
  BY <1>2, <1>5, <1>6, <1>7, Zenon DEF TypeOK, NumbersOK, FlagsOK, PlacesOK, RecordsOK
<1>9. Control'
  BY <1>2, <1>3, <1>4, <1>5, <1>6, <1>7 DEF Control, args, pool
<1>10. InCall'
  BY <1>6 DEF InCall, CallPlaces
<1>11. Running' = {}
  BY <1>4, <1>6 DEF Running, JobPlaces
<1>12. Unclaimed' = IF execute_main THEN 1..nb_active_threads ELSE 0..(nb_active_threads - 1)
  <2>1. \A w \in Workers : ToClaim(w)' <=> w <= nb_woken'
    BY <1>2, <1>4, <1>5, <1>6, <1>7 DEF ToClaim, NumbersOK, nb_woken, args, JobPlaces
  <2>2. ToClaim(Main)' <=> ~execute_main
    BY <1>6, <1>7 DEF ToClaim
  <2>3. nb_woken' = IF execute_main THEN nb_active_threads ELSE nb_active_threads - 1
    BY <1>5, <1>7 DEF nb_woken, args
  <2> QED
    BY <1>2, <1>4, <2>1, <2>2, <2>3 DEF Unclaimed, NumbersOK
<1>13. Cardinality(Unclaimed') = nb_active_threads /\ Cardinality(Running') = 0
  BY <1>2, <1>4, <1>11, <1>12, FS_Interval, FS_EmptySet DEF NumbersOK
<1>14. Counting'
  BY <1>2, <1>4, <1>5, <1>13 DEF Counting, NumbersOK, args
<1>15. RanInside'
  BY <1>2, <1>4, <1>5 DEF RanInside, NumbersOK, Jobs, args
<1>16. AsleepRest'
  BY <1>4, <1>6, <1>7 DEF AsleepRest, JobPlaces
<1>17. Locals' /\ NumbersDiffer'
  BY <1>4, <1>6, <1>11 DEF Locals, NumbersDiffer, JobPlaces
<1>18. OneReport'
  BY <1>4, <1>6, <1>7 DEF OneReport
<1>19. Quiet' /\ RanOutside'
  BY <1>10 DEF Quiet, RanOutside
<1> QED
  BY <1>8, <1>9, <1>14, <1>15, <1>16, <1>17, <1>18, <1>19 DEF IInv
StillSteps ==
    \/ WakeWorker \/ AllWoken \/ MainFunc
    \/ \E t \in Threads : Load(t)
    \/ \E w \in Workers : Wait(w) \/ Woken(w) \/ Report(w)

\* The steps of a call that neither draw a number nor end one.
LEMMA StillInductive == IInv /\ InCall /\ StillSteps => IInv'
<1>1. SUFFICES ASSUME IInv, InCall, StillSteps PROVE IInv'
  OBVIOUS
<1> USE SizesAssumption DEF Main, Workers, Threads, Go
<1>2. /\ TypeOK /\ Control /\ Counting /\ RanInside /\ AsleepRest
      /\ Locals /\ NumbersDiffer /\ OneReport
      /\ NumbersOK /\ FlagsOK /\ PlacesOK /\ RecordsOK
  BY <1>1, Zenon DEF IInv, TypeOK, NumbersOK, FlagsOK, PlacesOK, RecordsOK
<1>3. ~finished /\ 1 <= nb_active_threads /\ nb_active_threads <= nb_jobs
  BY <1>1, <1>2 DEF Control, InCall, CallPlaces, JobPlaces
<1>4. /\ nb_threads' = nb_threads /\ main_func' = main_func
      /\ nb_jobs' = nb_jobs /\ nb_active_threads' = nb_active_threads
      /\ first_job' = first_job /\ current_job' = current_job
      /\ nb_woken' = nb_woken /\ finished' = finished /\ execute_main' = execute_main
      /\ calls' = calls /\ ran' = ran
  <2>1. /\ pool' = pool /\ args' = args /\ counters' = counters /\ finished' = finished
        /\ execute_main' = execute_main /\ calls' = calls /\ ran' = ran
    BY <1>1, Zenon DEF StillSteps, WakeWorker, AllWoken, MainFunc, Load, Wait, Woken, Report
  <2> QED
    BY <2>1 DEF pool, args, counters, nb_woken
<1>5. nb_woken \in Int /\ nb_woken <= MaxThreads
  BY <1>2 DEF nb_woken, NumbersOK
<1>6. NumbersOK'
  <2>1. i' \in 1..(MaxThreads + 1)
    <3>1. CASE WakeWorker
      BY <1>2, <1>5, <3>1 DEF WakeWorker, NumbersOK
    <3>2. CASE ~WakeWorker
      BY <1>1, <1>2, <3>2 DEF NumbersOK, StillSteps, AllWoken, MainFunc, Load, Wait, Woken,
         Report
    <3> QED
      BY <3>1, <3>2
  <2> QED
    BY <1>2, <1>4, <2>1 DEF NumbersOK
<1>7. PlacesOK' /\ InCall'
  BY <1>1, <1>2, <1>3 DEF PlacesOK, InCall, CallPlaces, StillSteps, WakeWorker, AllWoken,
     MainFunc, Load, Wait, Woken, Report, MainPlaces, WorkerPlaces, JobPlaces
<1>8. FlagsOK'
  BY <1>1, <1>2, Zenon DEF FlagsOK, StillSteps, WakeWorker, AllWoken, MainFunc,
     Load, Wait, Woken, Report, pool
<1>9. RecordsOK'
  <2>1. CASE \E t \in Threads : Load(t)
    BY <1>2, <2>1 DEF Load, RecordsOK, NumbersOK
  <2>2. CASE ~\E t \in Threads : Load(t)
    BY <1>1, <1>2, <2>2 DEF RecordsOK, StillSteps, WakeWorker, AllWoken, MainFunc,
       Wait, Woken, Report
  <2> QED
    BY <2>1, <2>2
<1>10. TypeOK'
  BY <1>6, <1>7, <1>8, <1>9, Zenon DEF TypeOK, NumbersOK, FlagsOK, PlacesOK, RecordsOK
<1>11. Control'
  BY <1>1, <1>2, <1>3, <1>4, <1>7 DEF Control, InCall, CallPlaces, JobPlaces
<1>12. Running' = Running
  BY <1>1, <1>2 DEF Running, PlacesOK, StillSteps, WakeWorker, AllWoken, MainFunc,
     Load, Wait, Woken, Report
<1>13. Unclaimed' = Unclaimed
  <2>1. CASE WakeWorker
    BY <1>2, <1>4, <2>1 DEF WakeWorker, Unclaimed, ToClaim, NumbersOK, FlagsOK, AsleepRest
  <2>2. CASE AllWoken
    BY <1>2, <1>4, <1>5, <2>2 DEF AllWoken, Unclaimed, ToClaim, NumbersOK, PlacesOK
  <2>3. CASE MainFunc
    BY <1>2, <1>4, <2>3 DEF MainFunc, Unclaimed, ToClaim, PlacesOK
  <2>4. ASSUME NEW t \in Threads, Load(t) PROVE Unclaimed' = Unclaimed
    BY <1>2, <1>4, <2>4 DEF Load, Unclaimed, ToClaim, PlacesOK
  <2>5. ASSUME NEW w \in Workers, Wait(w) PROVE Unclaimed' = Unclaimed
    <3>1. pc[w] \notin {"load", "claim", "wait"} /\ pc'[w] = "wait" /\ w_done'[w]
      BY <1>2, <2>5 DEF Wait, PlacesOK, FlagsOK
    <3>2. \A t \in Threads \ {w} : pc'[t] = pc[t]
      BY <1>2, <2>5 DEF Wait, PlacesOK
    <3>3. i' = i /\ \A v \in Workers \ {w} : w_done'[v] = w_done[v]
      BY <1>2, <2>5 DEF Wait, FlagsOK
    <3> QED
      BY <1>4, <3>1, <3>2, <3>3 DEF Unclaimed, ToClaim
  <2>6. ASSUME NEW w \in Workers, Woken(w) PROVE Unclaimed' = Unclaimed
    <3>1. pc[w] = "wait" /\ ~w_done[w] /\ pc'[w] = "load"
      BY <1>2, <1>3, <2>6 DEF Woken, PlacesOK
    <3>2. \A t \in Threads \ {w} : pc'[t] = pc[t]
      BY <1>2, <2>6 DEF Woken, PlacesOK
    <3>3. i' = i /\ w_done' = w_done
      BY <2>6 DEF Woken
    <3> QED
      BY <1>4, <3>1, <3>2, <3>3 DEF Unclaimed, ToClaim
  <2>7. ASSUME NEW w \in Workers, Report(w) PROVE Unclaimed' = Unclaimed
    BY <1>2, <1>4, <2>7 DEF Report, Unclaimed, ToClaim, PlacesOK
  <2> QED
    BY <1>1, <2>1, <2>2, <2>3, <2>4, <2>5, <2>6, <2>7 DEF StillSteps
<1>14. Counting'
  BY <1>1, <1>2, <1>4, <1>12, <1>13 DEF Counting
<1>15. RanInside'
  BY <1>1, <1>2, <1>4 DEF RanInside
<1>16. AsleepRest'
  <2>1. CASE WakeWorker
    <3>1. i' = i + 1 /\ pc' = pc /\ i <= nb_woken
          /\ \A w \in Workers \ {i} : w_done'[w] = w_done[w]
      BY <1>2, <2>1 DEF WakeWorker, FlagsOK
    <3>2. \A w \in Workers : Resting(w)' => Resting(w) /\ w # i
      BY <1>2, <1>4, <1>5, <3>1 DEF Resting, NumbersOK
    <3> QED
      BY <1>1, <1>2, <3>1, <3>2 DEF AsleepRest
  <2>2. CASE ~WakeWorker
    <3>1. i' = i
      BY <1>1, <2>2 DEF StillSteps, AllWoken, MainFunc, Load, Wait, Woken, Report
    <3>2. pc'[Main] = "wakeup" => pc[Main] = "wakeup"
      BY <1>1, <1>2, <2>2 DEF StillSteps, AllWoken, MainFunc, Load, Wait, Woken,
         Report, PlacesOK
    <3>3. ASSUME NEW w \in Workers, Resting(w)'
          PROVE  pc'[w] \notin JobPlaces /\ (pc'[w] = "wait" => w_done'[w])
      <4>1. pc[w] \notin JobPlaces /\ (pc[w] = "wait" => w_done[w])
        BY <1>1, <1>2, <1>4, <3>1, <3>2, <3>3 DEF AsleepRest, Resting
      <4>2. CASE pc'[w] = pc[w] /\ w_done'[w] = w_done[w]
        BY <4>1, <4>2
      <4>3. CASE Wait(w)
        BY <1>2, <4>3 DEF Wait, PlacesOK, FlagsOK, JobPlaces
      <4>4. CASE Report(w)
        BY <1>2, <4>4 DEF Report, PlacesOK, JobPlaces
      <4>5. ~Woken(w) /\ ~Load(w)
        BY <4>1 DEF Woken, Load, JobPlaces
      <4>6. ASSUME ~Wait(w), ~Report(w)
            PROVE  pc'[w] = pc[w] /\ w_done'[w] = w_done[w]
        <5>1. CASE AllWoken \/ MainFunc
          BY <1>2, <5>1 DEF AllWoken, MainFunc, PlacesOK
        <5>2. ASSUME NEW t \in Threads, Load(t) PROVE pc'[w] = pc[w] /\ w_done' = w_done
          BY <1>2, <4>5, <5>2 DEF Load, PlacesOK
        <5>3. ASSUME NEW v \in Workers, v # w, Wait(v) \/ Woken(v) \/ Report(v)
              PROVE  pc'[w] = pc[w] /\ w_done'[w] = w_done[w]
          BY <1>2, <5>3 DEF Wait, Woken, Report, PlacesOK, FlagsOK
        <5> QED
          BY <1>1, <2>2, <4>5, <4>6, <5>1, <5>2, <5>3 DEF StillSteps
      <4> QED
        BY <4>2, <4>3, <4>4, <4>6
    <3> QED
      BY <3>3 DEF AsleepRest
  <2> QED
    BY <2>1, <2>2
<1>17. \A t \in Threads : pc'[t] = "job" => pc[t] = "job" /\ my'[t] = my[t]
  BY <1>1, <1>2 DEF StillSteps, WakeWorker, AllWoken, MainFunc, Load, Wait, Woken, Report,
     PlacesOK, RecordsOK
<1>18. Locals'
  <2>1. \A t \in Threads : pc'[t] = "claim" =>
           my'[t].nb_jobs = nb_jobs /\ my'[t].nb_active = nb_active_threads
    <3>1. CASE \E t \in Threads : Load(t)
      BY <1>2, <3>1 DEF Load, Locals, PlacesOK, RecordsOK
    <3>2. CASE ~\E t \in Threads : Load(t)
      BY <1>1, <1>2, <3>2 DEF Locals, StillSteps, WakeWorker, AllWoken, MainFunc, Wait,
         Woken, Report, PlacesOK
    <3> QED
      BY <3>1, <3>2
  <2> QED
    BY <1>2, <1>4, <1>17, <2>1 DEF Locals
<1>19. NumbersDiffer'
  BY <1>2, <1>12, <1>17 DEF NumbersDiffer, Running
<1>20. OneReport'
  <2>1. CASE \E w \in Workers : Report(w)
    <3>1. PICK w \in Workers : Report(w)
      BY <2>1
    <3>2. \A t \in Threads : pc'[t] # "report"
      BY <1>2, <3>1 DEF Report, OneReport, PlacesOK
    <3>3. Unclaimed = {} /\ Running = {}
      BY <1>2, <3>1 DEF Report, OneReport
    <3> QED
      BY <1>12, <1>13, <3>2, <3>3 DEF OneReport
  <2>2. CASE ~\E w \in Workers : Report(w)
    <3>1. done' = done
      BY <1>1, <2>2 DEF StillSteps, WakeWorker, AllWoken, MainFunc, Load, Wait, Woken
    <3>2. \A t \in Threads : pc'[t] = "report" => pc[t] = "report"
      BY <1>1, <1>2, <2>2 DEF StillSteps, WakeWorker, AllWoken, MainFunc, Load, Wait, Woken,
         PlacesOK
    <3> QED
      BY <1>2, <1>12, <1>13, <3>1, <3>2 DEF OneReport
  <2> QED
    BY <2>1, <2>2
<1>21. Quiet' /\ RanOutside'
  BY <1>7 DEF Quiet, RanOutside
<1> QED
  BY <1>10, <1>11, <1>14, <1>15, <1>16, <1>18, <1>19, <1>20, <1>21 DEF IInv

\* The steps of the workers outside a call: they come back to their wait or end.
LEMMA WorkersInductive == IInv /\ ~InCall /\ (\E w \in Workers : Worker(w)) => IInv'
<1>1. SUFFICES ASSUME IInv, ~InCall, NEW w \in Workers, Worker(w) PROVE IInv'
  OBVIOUS
<1> USE SizesAssumption DEF Main, Workers, Threads, Go
<1>2. /\ TypeOK /\ Control /\ Quiet /\ RanOutside
      /\ NumbersOK /\ FlagsOK /\ PlacesOK /\ RecordsOK
  BY <1>1, Zenon DEF IInv, TypeOK, NumbersOK, FlagsOK, PlacesOK, RecordsOK
<1>3. /\ \A t \in Threads : pc[t] \notin JobPlaces \cup {"report"}
      /\ ~done
      /\ ~finished => \A v \in Workers : pc[v] = "wait" => w_done[v]
  BY <1>1, <1>2 DEF Quiet
<1>4. Wait(w) \/ Woken(w)
  BY <1>1, <1>3 DEF Worker, RunJobs, Load, FirstJob, NextJob, NoMoreJobs, Report, JobPlaces
<1>5. pool' = pool /\ args' = args /\ counters' = counters /\ done' = done
      /\ finished' = finished /\ i' = i /\ execute_main' = execute_main /\ my' = my
      /\ calls' = calls /\ ran' = ran
  BY <1>4, Zenon DEF Wait, Woken
<1>6. NumbersOK' /\ RecordsOK'
  BY <1>2, <1>5 DEF NumbersOK, RecordsOK, pool, args, counters
<1>7. FlagsOK'
  BY <1>2, <1>4, <1>5, Zenon DEF FlagsOK, Wait, Woken, pool
<1>8. PlacesOK' /\ pc'[Main] = pc[Main]
  BY <1>2, <1>4 DEF PlacesOK, Wait, Woken, WorkerPlaces, JobPlaces
<1>9. TypeOK' /\ ~InCall'
  BY <1>1, <1>6, <1>7, <1>8, Zenon
     DEF TypeOK, NumbersOK, FlagsOK, PlacesOK, RecordsOK, InCall
<1>10. Control' /\ RanOutside'
  <2>1. nb_workers' = nb_workers
    BY <1>5 DEF nb_workers, pool
  <2> QED
    BY <1>1, <1>2, <1>5, <1>8, <2>1 DEF Control, RanOutside, InCall, pool, args
<1>11. Quiet'
  <2>1. CASE Wait(w)
    BY <1>2, <1>3, <1>5, <2>1 DEF Quiet, Wait, PlacesOK, FlagsOK, JobPlaces
  <2>2. CASE Woken(w)
    <3>1. finished /\ pc' = [pc EXCEPT ![w] = "gone"]
      BY <1>3, <2>2 DEF Woken
    <3> QED
      BY <1>2, <1>3, <1>5, <3>1 DEF Quiet, PlacesOK, JobPlaces
  <2> QED
    BY <1>4, <2>1, <2>2
<1> QED
  BY <1>9, <1>10, <1>11, OutsideRest

\* When all have drawn a number and none is left of the jobs' ones, all jobs have
\* begun and nobody is on the way to one.
LEMMA CallOver ==
  ASSUME IInv, InCall, Unclaimed = {}, current_job >= nb_jobs
  PROVE  /\ \A j \in Jobs : ran[j] = IF j < nb_jobs THEN 1 ELSE 0
         /\ \A t \in Threads : pc[t] \notin {"load", "claim"}
         /\ \A w \in Workers : pc[w] = "wait" => w_done[w]
<1> USE SizesAssumption DEF Main, Workers, Threads
<1>1. /\ Control /\ Counting /\ RanInside /\ AsleepRest
      /\ NumbersOK /\ FlagsOK /\ PlacesOK
  BY Zenon DEF IInv, TypeOK, NumbersOK, FlagsOK, PlacesOK
<1>2. first_job = nb_active_threads /\ nb_active_threads <= nb_jobs
  BY <1>1, FS_EmptySet DEF Counting, Control, NumbersOK
<1>3. \A j \in Jobs : ran[j] = IF j < nb_jobs THEN 1 ELSE 0
  BY <1>1, <1>2 DEF RanInside, NumbersOK, Jobs
<1>4. \A t \in Threads : ~ToClaim(t)
  BY DEF Unclaimed
<1>5. pc[Main] \notin {"load", "claim"}
  BY <1>4 DEF ToClaim
<1>6. ASSUME NEW w \in Workers
      PROVE  pc[w] \notin {"load", "claim"} /\ (pc[w] = "wait" => w_done[w])
  <2>1. CASE Resting(w)
    BY <1>1, <2>1 DEF AsleepRest, JobPlaces
  <2>2. CASE ~Resting(w)
    <3>1. nb_woken \in Int
      BY <1>1 DEF nb_woken, NumbersOK
    <3> QED
      BY <1>4, <2>2, <3>1 DEF ToClaim, Resting
  <2> QED
    BY <2>1, <2>2
<1> QED
  BY <1>3, <1>5, <1>6

\* Main learns from a worker that the call is over.
LEMMA WaitDoneInductive == IInv /\ WaitDone => IInv'
<1>1. SUFFICES ASSUME IInv, WaitDone PROVE IInv'
  OBVIOUS
<1> USE SizesAssumption DEF Main, Workers, Threads, Go
<1>2. /\ TypeOK /\ Control /\ Counting /\ OneReport
      /\ NumbersOK /\ FlagsOK /\ PlacesOK /\ RecordsOK
  BY <1>1, Zenon DEF IInv, TypeOK, NumbersOK, FlagsOK, PlacesOK, RecordsOK
<1>3. InCall /\ done
  BY <1>1 DEF WaitDone, InCall, CallPlaces
<1>4. /\ Unclaimed = {} /\ Running = {}
      /\ \A t \in Threads : pc[t] # "report"
  BY <1>2, <1>3 DEF OneReport
<1>5. 1 <= nb_active_threads /\ nb_active_threads <= nb_jobs /\ ~finished
  BY <1>1, <1>2, <1>3 DEF Control, WaitDone
<1>6. current_job >= nb_jobs
  BY <1>2, <1>3, <1>4, <1>5, FS_EmptySet DEF Counting, NumbersOK
<1>7. /\ \A j \in Jobs : ran[j] = IF j < nb_jobs THEN 1 ELSE 0
      /\ \A t \in Threads : pc[t] \notin JobPlaces
      /\ \A w \in Workers : pc[w] = "wait" => w_done[w]
  <2>1. \A t \in Threads : pc[t] # "job"
    BY <1>4 DEF Running
  <2> QED
    BY <1>1, <1>3, <1>4, <1>6, <2>1, CallOver DEF JobPlaces
<1>8. pool' = pool /\ args' = args /\ counters' = counters /\ finished' = finished
      /\ w_done' = w_done /\ i' = i /\ execute_main' = execute_main /\ my' = my
      /\ calls' = calls /\ ran' = ran /\ done' = FALSE
  BY <1>1, Zenon DEF WaitDone
<1>9. PlacesOK' /\ pc' = [pc EXCEPT ![Main] = "idle"] /\ pc'[Main] = "idle"
  BY <1>1, <1>2 DEF WaitDone, PlacesOK, MainPlaces
<1>10. NumbersOK' /\ RecordsOK'
  BY <1>2, <1>8 DEF NumbersOK, RecordsOK, pool, args, counters
<1>11. FlagsOK'
  BY <1>2, <1>8, Zenon DEF FlagsOK, pool
<1>12. TypeOK'
  BY <1>9, <1>10, <1>11, Zenon DEF TypeOK, NumbersOK, FlagsOK, PlacesOK, RecordsOK
<1>13. ~InCall'
  BY <1>9 DEF InCall, CallPlaces, JobPlaces
<1>14. nb_threads >= 1
  BY <1>2, <1>3 DEF Control
<1>15. Control'
  BY <1>5, <1>8, <1>9, <1>13, <1>14 DEF Control, pool
<1>16. Quiet'
  BY <1>2, <1>4, <1>7, <1>8, <1>9 DEF Quiet, PlacesOK, JobPlaces
<1>17. RanOutside'
  BY <1>2, <1>7, <1>8, <1>9 DEF RanOutside, args, NumbersOK, Jobs
<1> QED
  BY <1>12, <1>13, <1>15, <1>16, <1>17, OutsideRest

\* A thread at one of the places of run_jobs() takes part in the call.
LEMMA AtWorkInCall ==
  ASSUME IInv, NEW t \in Threads, pc[t] \in JobPlaces
  PROVE  /\ InCall
         /\ pc[t] \in {"load", "claim"} => t \in Unclaimed
<1> USE SizesAssumption DEF Main, Workers, Threads
<1>1. Quiet /\ AsleepRest /\ NumbersOK
  BY Zenon DEF IInv, TypeOK, NumbersOK
<1>2. InCall
  BY <1>1 DEF Quiet
<1>3. ASSUME pc[t] \in {"load", "claim"} PROVE ToClaim(t)
  <2>1. CASE t = Main
    BY <1>3, <2>1 DEF ToClaim
  <2>2. CASE t \in Workers
    <3>1. ~Resting(t)
      BY <1>1, <1>2, <2>2 DEF AsleepRest
    <3>2. nb_woken \in Int
      BY <1>1 DEF nb_woken, NumbersOK
    <3> QED
      BY <1>3, <2>2, <3>1, <3>2 DEF ToClaim, Resting
  <2> QED
    BY <2>1, <2>2
<1> QED
  BY <1>2, <1>3 DEF Unclaimed

\* A thread draws its number, which nobody else has.
LEMMA FirstJobInductive == ASSUME NEW t \in Threads PROVE IInv /\ FirstJob(t) => IInv'
<1>1. SUFFICES ASSUME IInv, FirstJob(t) PROVE IInv'
  OBVIOUS
<1> USE SizesAssumption DEF Main, Workers, Threads, Go
<1>2. /\ TypeOK /\ Control /\ Counting /\ RanInside /\ AsleepRest
      /\ Locals /\ NumbersDiffer /\ OneReport
      /\ NumbersOK /\ FlagsOK /\ PlacesOK /\ RecordsOK
  BY <1>1, Zenon DEF IInv, TypeOK, NumbersOK, FlagsOK, PlacesOK, RecordsOK
<1>3. InCall /\ t \in Unclaimed /\ pc[t] = "claim"
  BY <1>1, AtWorkInCall DEF FirstJob, JobPlaces
<1>4. /\ 1 <= nb_active_threads /\ nb_active_threads <= nb_jobs
      /\ my[t].nb_jobs = nb_jobs /\ my[t].nb_active = nb_active_threads
  BY <1>2, <1>3 DEF Control, Locals
<1>5. first_job < nb_active_threads /\ first_job \in Jobs
  BY <1>2, <1>3, <1>4, FiniteThreads, FS_EmptySet DEF Counting, NumbersOK, Jobs
<1>6. /\ nb_threads' = nb_threads /\ main_func' = main_func
      /\ nb_jobs' = nb_jobs /\ nb_active_threads' = nb_active_threads
      /\ current_job' = current_job /\ done' = done /\ finished' = finished
      /\ w_done' = w_done /\ i' = i /\ execute_main' = execute_main /\ calls' = calls
      /\ nb_woken' = nb_woken
  BY <1>1 DEF FirstJob, pool, args, nb_woken
<1>7. /\ first_job' = first_job + 1
      /\ my' = [my EXCEPT ![t].first = first_job, ![t].current = first_job]
      /\ ran' = [ran EXCEPT ![first_job] = @ + 1]
      /\ pc' = [pc EXCEPT ![t] = "job"]
  BY <1>1 DEF FirstJob
<1>8. NumbersOK'
  BY <1>2, <1>5, <1>6, <1>7 DEF NumbersOK
<1>9. PlacesOK' /\ InCall'
  BY <1>2, <1>3, <1>7 DEF PlacesOK, InCall, CallPlaces, JobPlaces
<1>10. RecordsOK'
  <2>1. ran' \in [Jobs -> Nat]
    BY <1>2, <1>5, <1>7 DEF RecordsOK
  <2>2. first_job \in 0..MaxThreads /\ first_job \in 0..MaxJobs
    BY <1>2, <1>5 DEF NumbersOK, Jobs
  <2>3. my' \in [Threads -> [nb_jobs : 0..MaxJobs, nb_active : 0..MaxThreads,
                            first : 0..MaxThreads, current : 0..MaxJobs]]
    BY <1>2, <1>7, <2>2 DEF RecordsOK
  <2> QED
    BY <2>1, <2>3 DEF RecordsOK
<1>11. FlagsOK'
  BY <1>2, <1>6, Zenon DEF FlagsOK
<1>12. TypeOK'
  BY <1>8, <1>9, <1>10, <1>11, Zenon DEF TypeOK, NumbersOK, FlagsOK, PlacesOK, RecordsOK
<1>13. Control'
  BY <1>2, <1>3, <1>4, <1>6, <1>9 DEF Control, InCall, CallPlaces, JobPlaces
<1>14. Running' = Running \cup {t} /\ t \notin Running
  BY <1>2, <1>3, <1>7 DEF Running, PlacesOK
<1>15. Unclaimed' = Unclaimed \ {t}
  <2>1. ~ToClaim(t)'
    <3>1. pc'[t] = "job"
      BY <1>2, <1>7 DEF PlacesOK
    <3>2. CASE t = Main
      BY <3>1, <3>2 DEF ToClaim
    <3>3. CASE t \in Workers
      <4>1. ~Resting(t) /\ (pc'[Main] = "wakeup" => pc[Main] = "wakeup")
        BY <1>2, <1>3, <1>7, <3>3 DEF AsleepRest, JobPlaces, PlacesOK
      <4> QED
        BY <1>6, <3>1, <3>3, <4>1 DEF ToClaim, Resting
    <3> QED
      BY <3>2, <3>3
  <2>2. \A u \in Threads \ {t} : pc'[u] = pc[u]
    BY <1>2, <1>7 DEF PlacesOK
  <2>3. pc'[Main] = "wakeup" <=> pc[Main] = "wakeup"
    BY <1>2, <1>3, <1>7 DEF PlacesOK
  <2>4. \A u \in Threads \ {t} : ToClaim(u)' <=> ToClaim(u)
    BY <1>6, <2>2, <2>3 DEF ToClaim
  <2> QED
    BY <2>1, <2>4 DEF Unclaimed
<1>16. /\ Cardinality(Unclaimed') = Cardinality(Unclaimed) - 1
       /\ Cardinality(Running') = Cardinality(Running) + 1
  BY <1>3, <1>14, <1>15, FiniteThreads, FS_AddElement, FS_RemoveElement
<1>17. Counting'
  BY <1>2, <1>3, <1>6, <1>7, <1>16, FiniteThreads DEF Counting, NumbersOK
<1>18. RanInside'
  <2>1. ran[first_job] = 0
    BY <1>2, <1>3, <1>5 DEF RanInside, NumbersOK
  <2>2. ran'[first_job] = 1 /\ \A j \in Jobs \ {first_job} : ran'[j] = ran[j]
    BY <1>2, <1>5, <1>7, <2>1 DEF RecordsOK
  <2> QED
    BY <1>2, <1>3, <1>6, <1>7, <2>2 DEF RanInside, NumbersOK, Jobs
<1>19. AsleepRest'
  BY <1>2, <1>3, <1>6, <1>7 DEF AsleepRest, Resting, PlacesOK, JobPlaces
<1>20. Locals'
  BY <1>2, <1>4, <1>6, <1>7 DEF Locals, PlacesOK, RecordsOK, NumbersOK
<1>21. NumbersDiffer'
  <2>1. \A u \in Running : u # t /\ my'[u] = my[u] /\ my[u].first # first_job
    BY <1>2, <1>7, <1>14 DEF Locals, Running, RecordsOK, NumbersOK
  <2>2. my'[t].first = first_job
    BY <1>2, <1>7 DEF RecordsOK
  <2> QED
    BY <1>2, <1>14, <2>1, <2>2 DEF NumbersDiffer
<1>22. OneReport'
  BY <1>2, <1>3, <1>6, <1>7 DEF OneReport, PlacesOK
<1>23. Quiet' /\ RanOutside'
  BY <1>9 DEF Quiet, RanOutside
<1> QED
  BY <1>12, <1>13, <1>17, <1>18, <1>19, <1>20, <1>21, <1>22, <1>23 DEF IInv

\* A thread takes another job of the call.
LEMMA NextJobInductive == ASSUME NEW t \in Threads PROVE IInv /\ NextJob(t) => IInv'
<1>1. SUFFICES ASSUME IInv, NextJob(t) PROVE IInv'
  OBVIOUS
<1> USE SizesAssumption DEF Main, Workers, Threads, Go
<1>2. /\ TypeOK /\ Control /\ Counting /\ RanInside /\ AsleepRest
      /\ Locals /\ NumbersDiffer /\ OneReport
      /\ NumbersOK /\ FlagsOK /\ PlacesOK /\ RecordsOK
  BY <1>1, Zenon DEF IInv, TypeOK, NumbersOK, FlagsOK, PlacesOK, RecordsOK
<1>3. InCall /\ pc[t] = "job"
  BY <1>1, AtWorkInCall DEF NextJob, JobPlaces
<1>4. my[t].nb_jobs = nb_jobs
  BY <1>2, <1>3 DEF Locals
<1>5. current_job < nb_jobs /\ nb_active_threads <= current_job /\ first_job <= current_job
  BY <1>1, <1>2, <1>3, <1>4, FiniteThreads DEF NextJob, Counting, NumbersOK
<1>6. /\ nb_threads' = nb_threads /\ main_func' = main_func
      /\ nb_jobs' = nb_jobs /\ nb_active_threads' = nb_active_threads
      /\ first_job' = first_job /\ done' = done /\ finished' = finished
      /\ w_done' = w_done /\ i' = i /\ execute_main' = execute_main /\ calls' = calls
      /\ nb_woken' = nb_woken /\ pc' = pc
  BY <1>1 DEF NextJob, pool, args, nb_woken
<1>7. /\ current_job' = current_job + 1
      /\ my' = [my EXCEPT ![t].current = current_job]
      /\ ran' = [ran EXCEPT ![current_job] = @ + 1]
  BY <1>1 DEF NextJob
<1>8. NumbersOK' /\ PlacesOK' /\ InCall'
  BY <1>2, <1>3, <1>5, <1>6, <1>7 DEF NumbersOK, PlacesOK, InCall
<1>9. RecordsOK'
  <2>1. current_job \in Jobs /\ current_job \in 0..MaxJobs
    BY <1>2, <1>5 DEF NumbersOK, Jobs
  <2> QED
    BY <1>2, <1>7, <2>1 DEF RecordsOK
<1>10. FlagsOK'
  BY <1>2, <1>6, Zenon DEF FlagsOK
<1>11. TypeOK'
  BY <1>8, <1>9, <1>10, Zenon DEF TypeOK, NumbersOK, FlagsOK, PlacesOK, RecordsOK
<1>12. Control'
  BY <1>2, <1>3, <1>6, <1>8 DEF Control, InCall, CallPlaces, JobPlaces, nb_workers
<1>13. Running' = Running /\ Unclaimed' = Unclaimed
  BY <1>6 DEF Running, Unclaimed, ToClaim
<1>14. Counting'
  BY <1>2, <1>3, <1>5, <1>6, <1>7, <1>13, FiniteThreads DEF Counting, NumbersOK
<1>15. RanInside'
  <2>1. current_job \in Jobs /\ ran[current_job] = 0
    BY <1>2, <1>3, <1>5 DEF RanInside, NumbersOK, Jobs
  <2>2. ran'[current_job] = 1 /\ \A j \in Jobs \ {current_job} : ran'[j] = ran[j]
    BY <1>2, <1>7, <2>1 DEF RecordsOK
  <2> QED
    BY <1>2, <1>3, <1>5, <1>6, <1>7, <2>2 DEF RanInside, NumbersOK, Jobs
<1>16. AsleepRest' /\ OneReport'
  BY <1>2, <1>3, <1>6, <1>8, <1>13 DEF AsleepRest, Resting, OneReport
<1>17. \A u \in Threads : /\ my'[u].nb_jobs = my[u].nb_jobs
                         /\ my'[u].nb_active = my[u].nb_active
                         /\ my'[u].first = my[u].first
  BY <1>2, <1>7 DEF RecordsOK
<1>18. Locals' /\ NumbersDiffer'
  BY <1>2, <1>6, <1>13, <1>17 DEF Locals, NumbersDiffer, Running
<1>19. Quiet' /\ RanOutside'
  BY <1>8 DEF Quiet, RanOutside
<1> QED
  BY <1>11, <1>12, <1>14, <1>15, <1>16, <1>18, <1>19 DEF IInv

\* A thread finds no job; the last one to do so ends the call or reports its end.
LEMMA NoMoreJobsInductive == ASSUME NEW t \in Threads PROVE IInv /\ NoMoreJobs(t) => IInv'
<1>1. SUFFICES ASSUME IInv, NoMoreJobs(t) PROVE IInv'
  OBVIOUS
<1> USE SizesAssumption DEF Main, Workers, Threads, Go
<1>2. /\ TypeOK /\ Control /\ Counting /\ RanInside /\ AsleepRest
      /\ Locals /\ NumbersDiffer /\ OneReport
      /\ NumbersOK /\ FlagsOK /\ PlacesOK /\ RecordsOK
  BY <1>1, Zenon DEF IInv, TypeOK, NumbersOK, FlagsOK, PlacesOK, RecordsOK
<1>3. InCall /\ pc[t] = "job" /\ t \in Running
  BY <1>1, AtWorkInCall DEF NoMoreJobs, JobPlaces, Running
<1>4. /\ my[t].nb_jobs = nb_jobs /\ my[t].nb_active = nb_active_threads
      /\ current_job >= nb_jobs
      /\ 1 <= nb_active_threads /\ nb_active_threads <= nb_jobs /\ nb_threads >= 1
      /\ ~finished
  BY <1>1, <1>2, <1>3 DEF NoMoreJobs, Locals, Control, InCall, CallPlaces, JobPlaces
<1>5. /\ ~done /\ \A u \in Threads : pc[u] # "report"
  BY <1>2, <1>3 DEF OneReport
<1>6. /\ nb_threads' = nb_threads /\ main_func' = main_func
      /\ nb_jobs' = nb_jobs /\ nb_active_threads' = nb_active_threads
      /\ first_job' = first_job /\ done' = done /\ finished' = finished
      /\ w_done' = w_done /\ i' = i /\ execute_main' = execute_main /\ calls' = calls
      /\ ran' = ran /\ nb_woken' = nb_woken
  BY <1>1 DEF NoMoreJobs, pool, args, nb_woken
<1>7. /\ current_job' = current_job + 1
      /\ my' = [my EXCEPT ![t] = NoLocals]
      /\ pc' = [pc EXCEPT ![t] = IF t = Main THEN IF IsLast(t) THEN "idle" ELSE "wait_done"
                                 ELSE IF IsLast(t) THEN "report" ELSE "again"]
  BY <1>1 DEF NoMoreJobs
<1>8. /\ Cardinality(Running) \in Nat \ {0} /\ Cardinality(Unclaimed) \in Nat
      /\ Cardinality(Unclaimed) + Cardinality(Running) =
            nb_active_threads + nb_jobs - current_job
  BY <1>2, <1>3, <1>4, FiniteThreads, FS_EmptySet DEF Counting, NumbersOK
<1>9. NumbersOK'
  BY <1>2, <1>6, <1>7, <1>8 DEF NumbersOK
<1>10. PlacesOK'
  BY <1>2, <1>7 DEF PlacesOK, MainPlaces, WorkerPlaces, JobPlaces
<1>11. RecordsOK'
  BY <1>2, <1>6, <1>7 DEF RecordsOK, NoLocals
<1>12. FlagsOK'
  BY <1>2, <1>6, Zenon DEF FlagsOK
<1>13. TypeOK'
  BY <1>9, <1>10, <1>11, <1>12, Zenon DEF TypeOK, NumbersOK, FlagsOK, PlacesOK, RecordsOK
<1>14. Running' = Running \ {t}
  BY <1>2, <1>7 DEF Running, PlacesOK
<1>15. Unclaimed' = Unclaimed
  <2>1. ~ToClaim(t) \/ (t \in Workers /\ pc[Main] = "wakeup" /\ i <= t)
    BY <1>3 DEF ToClaim
  <2>2. ~ToClaim(t)
    BY <1>2, <1>3, <2>1 DEF AsleepRest, Resting, JobPlaces
  <2>3. ~ToClaim(t)'
    <3>1. pc'[t] \notin {"load", "claim", "wakeup", "wait"}
      BY <1>2, <1>7 DEF PlacesOK
    <3>2. t \in Workers => pc'[Main] = pc[Main]
      BY <1>2, <1>7 DEF PlacesOK
    <3> QED
      BY <1>3, <1>6, <2>2, <3>1, <3>2 DEF ToClaim
  <2>4. \A u \in Threads \ {t} : pc'[u] = pc[u]
    BY <1>2, <1>7 DEF PlacesOK
  <2>5. pc'[Main] = "wakeup" <=> pc[Main] = "wakeup"
    BY <1>2, <1>3, <1>7 DEF PlacesOK
  <2>6. \A u \in Threads \ {t} : ToClaim(u)' <=> ToClaim(u)
    BY <1>6, <2>4, <2>5 DEF ToClaim
  <2> QED
    BY <2>2, <2>3, <2>6 DEF Unclaimed
<1>16. Cardinality(Running') = Cardinality(Running) - 1
  BY <1>3, <1>14, FiniteThreads, FS_RemoveElement
<1>17. IsLast(t) => Unclaimed' = {} /\ Running' = {}
  <2>1. IsLast(t) => Cardinality(Unclaimed) + Cardinality(Running) = 1
    BY <1>2, <1>4, <1>8 DEF IsLast, NumbersOK
  <2>2. IsFiniteSet(Running')
    BY <1>14, FiniteThreads, FS_RemoveElement
  <2> QED
    BY <1>8, <1>15, <1>16, <2>1, <2>2, FiniteThreads, FS_EmptySet
<1>18. OneReport'
  <2>1. ~done'
    BY <1>5, <1>6
  <2>2. \A u \in Threads : pc'[u] = "report" => u = t /\ IsLast(t)
    BY <1>2, <1>5, <1>7 DEF PlacesOK
  <2> QED
    BY <1>17, <2>1, <2>2 DEF OneReport
<1>19. Locals' /\ NumbersDiffer'
  <2>1. \A u \in Threads : pc'[u] \in {"claim", "job"} =>
           u # t /\ pc'[u] = pc[u] /\ my'[u] = my[u]
    BY <1>2, <1>7 DEF PlacesOK, RecordsOK
  <2> QED
    BY <1>2, <1>6, <1>14, <2>1 DEF Locals, NumbersDiffer, Running
<1>20. CASE InCall'
  <2>1. Counting'
    BY <1>2, <1>3, <1>4, <1>6, <1>7, <1>8, <1>15, <1>16 DEF Counting, NumbersOK
  <2>2. RanInside'
    BY <1>2, <1>3, <1>4, <1>6, <1>7 DEF RanInside, NumbersOK, Jobs
  <2>3. AsleepRest'
    BY <1>2, <1>3, <1>6, <1>7 DEF AsleepRest, Resting, PlacesOK, JobPlaces
  <2>4. Control'
    BY <1>4, <1>6, <1>20 DEF Control, InCall, CallPlaces, JobPlaces
  <2>5. Quiet' /\ RanOutside'
    BY <1>20 DEF Quiet, RanOutside
  <2> QED
    BY <1>13, <1>18, <1>19, <2>1, <2>2, <2>3, <2>4, <2>5 DEF IInv
<1>21. CASE ~InCall'
  <2>1. t = Main /\ IsLast(t) /\ pc' = [pc EXCEPT ![Main] = "idle"] /\ pc'[Main] = "idle"
    BY <1>2, <1>3, <1>7, <1>21 DEF InCall, CallPlaces, PlacesOK
  <2>2. Unclaimed = {} /\ Running' = {}
    BY <1>15, <1>17, <2>1
  <2>3. /\ \A j \in Jobs : ran[j] = IF j < nb_jobs THEN 1 ELSE 0
        /\ \A u \in Threads : pc[u] \notin {"load", "claim"}
        /\ \A w \in Workers : pc[w] = "wait" => w_done[w]
    BY <1>1, <1>3, <1>4, <2>2, CallOver
  <2>4. \A u \in Threads : pc'[u] \notin JobPlaces \cup {"report"}
    <3>1. \A u \in Threads : pc'[u] # "job"
      BY <2>2 DEF Running
    <3> QED
      BY <1>2, <1>5, <2>1, <2>3, <3>1 DEF PlacesOK, JobPlaces
  <2>5. Quiet'
    BY <1>2, <1>5, <1>6, <2>1, <2>3, <2>4 DEF Quiet, PlacesOK
  <2>6. RanOutside'
    BY <1>2, <1>6, <2>1, <2>3 DEF RanOutside, NumbersOK, Jobs
  <2>7. Control'
    BY <1>4, <1>6, <1>21, <2>1 DEF Control
  <2> QED
    BY <1>13, <1>21, <2>5, <2>6, <2>7, OutsideRest
<1> QED
  BY <1>20, <1>21

LEMMA Inductive == IInv /\ [Next]_vars => IInv'
<1>1. SUFFICES ASSUME IInv, [Next]_vars PROVE IInv'
  OBVIOUS
<1>2. ASSUME NEW t \in Threads, RunJobs(t) PROVE IInv'
  <2>1. CASE Load(t)
    <3>1. InCall
      BY <1>1, <2>1, AtWorkInCall DEF Load, JobPlaces
    <3> QED
      BY <1>1, <2>1, <3>1, StillInductive DEF StillSteps
  <2> QED
    BY <1>1, <1>2, <2>1, FirstJobInductive, NextJobInductive, NoMoreJobsInductive DEF RunJobs
<1>3. ASSUME NEW w \in Workers, Worker(w) PROVE IInv'
  <2>1. CASE InCall
    BY <1>1, <1>2, <1>3, <2>1, StillInductive DEF Worker, StillSteps, Threads
  <2>2. CASE ~InCall
    BY <1>1, <1>3, <2>2, WorkersInductive
  <2> QED
    BY <2>1, <2>2
<1>4. CASE OutsideSteps
  BY <1>1, <1>4, OutsideInductive
<1>5. CASE ResetCounters \/ WaitDone
  BY <1>1, <1>5, ResetInductive, WaitDoneInductive
<1>6. CASE WakeWorker \/ AllWoken \/ MainFunc
  <2>1. InCall
    BY <1>6 DEF WakeWorker, AllWoken, MainFunc, InCall, CallPlaces
  <2> QED
    BY <1>1, <1>6, <2>1, StillInductive DEF StillSteps
<1>7. CASE UNCHANGED vars
  <2>1. IInv' <=> IInv
    BY <1>7 DEF vars, pool, args, counters, IInv, TypeOK, Control, Quiet, RanOutside, Counting,
       RanInside, AsleepRest, Locals, NumbersDiffer, OneReport, InCall, Resting, ToClaim,
       Unclaimed, Running, nb_woken, nb_workers
  <2> QED
    BY <1>1, <2>1
<1>8. Main \in Threads
  BY DEF Threads
<1> QED
  BY <1>1, <1>2, <1>3, <1>4, <1>5, <1>6, <1>7, <1>8
     DEF Next, MainSteps, Caller, FreeSteps, OutsideSteps

LEMMA Invariant == Spec => []IInv
<1> QED
  BY InitIInv, Inductive, PTL DEF Spec

\* Every variable keeps its type: in particular neither counter passes its bound,
\* so no call draws a thread number or a job number that does not exist.
THEOREM TypeCorrect == Spec => []TypeOK
BY Invariant, PTL DEF IInv

\* However many threads race for the two counters, no job of a call is begun twice
\* and none beyond its number, and when execute() returns all have run and no
\* thread is in one (avpriv_slicethread_execute(), run_jobs()).
THEOREM JobsRunOnce == Spec => []EachJobOnce
<1>1. IInv => EachJobOnce
  <2>1. SUFFICES ASSUME IInv PROVE EachJobOnce
    OBVIOUS
  <2>2. NumbersOK /\ Control /\ Quiet /\ RanOutside /\ RanInside /\ Counting
    BY <2>1, Zenon DEF IInv, TypeOK, NumbersOK
  <2>3. \A j \in Jobs : ran[j] <= (IF j < nb_jobs THEN 1 ELSE 0)
    <3>1. CASE InCall
      <4>1. first_job <= nb_active_threads /\ nb_active_threads <= nb_jobs
        BY <2>2, <3>1, FiniteThreads DEF Counting, Control, NumbersOK
      <4> QED
        BY <2>2, <3>1, <4>1 DEF RanInside, NumbersOK, Jobs
    <3>2. CASE ~InCall
      BY <2>2, <3>2 DEF RanOutside
    <3> QED
      BY <3>1, <3>2
  <2>4. pc[Main] = "idle" => ~InCall
    BY DEF InCall, CallPlaces, JobPlaces
  <2> QED
    BY <2>2, <2>3, <2>4 DEF EachJobOnce, RanOutside, Quiet, JobPlaces
<1> QED
  BY <1>1, Invariant, PTL

\* Threads that are in jobs at the same time have different thread numbers below
\* the number of threads the job is told (run_jobs(), first_job).
THEOREM NumbersAreOwn == Spec => []OwnNumber
<1>1. IInv => OwnNumber
  <2>1. SUFFICES ASSUME IInv, NEW t \in Threads, pc[t] = "job"
                 PROVE  /\ my[t].first < my[t].nb_active
                        /\ \A u \in Threads \ {t} : pc[u] = "job" => my[t].first # my[u].first
    BY DEF OwnNumber
  <2>2. NumbersOK /\ RecordsOK /\ Locals /\ NumbersDiffer /\ Counting
    BY <2>1, Zenon DEF IInv, TypeOK, NumbersOK, RecordsOK
  <2>3. InCall
    BY <2>1, AtWorkInCall DEF JobPlaces
  <2>4. first_job <= nb_active_threads
    BY <2>2, <2>3, FiniteThreads DEF Counting, NumbersOK
  <2>5. my[t].first < first_job /\ my[t].nb_active = nb_active_threads /\ my[t].first \in Nat
    BY <2>1, <2>2 DEF Locals, RecordsOK
  <2>6. my[t].first < my[t].nb_active
    BY <2>2, <2>4, <2>5 DEF NumbersOK
  <2> QED
    BY <2>1, <2>2, <2>6 DEF NumbersDiffer, Running
<1> QED
  BY <1>1, Invariant, PTL

\* execute() never clears the w->done of a worker that has not served its last
\* wake-up yet, although it waits for none of them (lines 206 to 211).
THEOREM NoWakeupIsLost == Spec => NoLostWakeup
<1>1. IInv /\ [Next]_vars => [\A w \in Workers : WakeWorker /\ i = w => w_done[w]]_vars
  <2>1. SUFFICES ASSUME IInv, NEW w \in Workers, WakeWorker, i = w PROVE w_done[w]
    OBVIOUS
  <2>2. InCall /\ pc[w] = "wait" /\ pc[Main] = "wakeup"
    BY <2>1 DEF WakeWorker, InCall, CallPlaces
  <2>3. Resting(w)
    BY <2>1, <2>2 DEF Resting, Workers
  <2> QED
    BY <2>1, <2>2, <2>3 DEF IInv, AsleepRest
<1> QED
  BY <1>1, Invariant, PTL DEF Spec, NoLostWakeup
=============================================================================

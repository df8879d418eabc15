---------------------------- MODULE SliceThread ----------------------------
(***************************************************************************)
(* The pool of libavutil/slicethread.c, which libavcodec/pthread_slice.c   *)
(* and libavfilter/pthread.c use to run the jobs of one call of execute()  *)
(* in parallel: the thread that calls (Main) and the workers take job      *)
(* numbers from two shared counters; whoever takes the last number of the  *)
(* call is the one that tells Main, and no one else is waited for.         *)
(*                                                                         *)
(* A worker holds w->mutex from its creation on, except inside             *)
(* pthread_cond_wait: holding it is to have a pc other than "wait".        *)
(***************************************************************************)
EXTENDS Integers, FiniteSets

CONSTANTS MaxThreads,   \* bound of nb_threads
          MaxJobs,      \* bound of nb_jobs
          MaxCalls      \* bound of the number of calls of execute()

ASSUME SizesAssumption ==
    MaxThreads \in Nat \ {0} /\ MaxJobs \in Nat \ {0} /\ MaxCalls \in Nat

Main == 0
Workers == 1..MaxThreads
Threads == {Main} \cup Workers
Jobs == 0..(MaxJobs - 1)

VARIABLES
    nb_threads, main_func,          \* what the pool was created with
    nb_jobs, nb_active_threads,     \* AVSliceThread: the call in progress
    first_job, current_job,         \* AVSliceThread: the two atomic counters
    done,                           \* AVSliceThread: done, under done_mutex
    finished,                       \* AVSliceThread: finished
    w_done,                         \* WorkerContext.done
    pc,                             \* where each thread is
    i,                              \* Main's loop variable
    execute_main,                   \* Main's argument of the call
    my,                             \* the locals of run_jobs() in each thread
    calls,                          \* how many calls were made
    ran                             \* how often each job of the call has begun

pool == <<nb_threads, main_func>>
args == <<nb_jobs, nb_active_threads>>
counters == <<first_job, current_job>>
vars == <<pool, args, counters, done, finished, w_done, pc, i, execute_main, my,
          calls, ran>>

NoLocals == [nb_jobs |-> 0, nb_active |-> 0, first |-> 0, current |-> 0]

nb_workers == IF main_func THEN nb_threads ELSE nb_threads - 1

Go(t, label) == pc' = [pc EXCEPT ![t] = label]

Init ==
    /\ nb_threads \in 1..MaxThreads
    /\ main_func \in BOOLEAN
    /\ nb_jobs = 0 /\ nb_active_threads = 0
    /\ first_job = 0 /\ current_job = 0
    /\ done = FALSE /\ finished = FALSE
    /\ w_done = [w \in Workers |-> FALSE]
    /\ pc = [t \in Threads |-> IF t = Main THEN "create" ELSE "none"]
    /\ i = 1
    /\ execute_main = FALSE
    /\ my = [t \in Threads |-> NoLocals]
    /\ calls = 0
    /\ ran = [j \in Jobs |-> 0]

-----------------------------------------------------------------------------
(* Main: avpriv_slicethread_create().                                      *)

\* The next worker is created, with w->mutex held.
Create ==
    /\ pc[Main] = "create" /\ i <= nb_workers
    /\ w_done' = [w_done EXCEPT ![i] = FALSE]
    /\ pc' = [pc EXCEPT ![Main] = "created", ![i] = "new"]
    /\ UNCHANGED <<pool, args, counters, done, finished, i, execute_main, my, calls, ran>>

\* Main has let go of w->mutex and the worker has reached its first wait.
Created ==
    /\ pc[Main] = "created" /\ w_done[i]
    /\ i' = i + 1
    /\ Go(Main, "create")
    /\ UNCHANGED <<pool, args, counters, done, finished, w_done, execute_main, my, calls, ran>>

\* A mutex, a condition or the thread of a worker cannot be made: the pool is
\* cut to the workers there are and freed.
CreateFails ==
    /\ pc[Main] = "create" /\ i <= nb_workers
    /\ nb_threads' = IF main_func THEN i - 1 ELSE i
    /\ Go(Main, "free")
    /\ UNCHANGED <<main_func, args, counters, done, finished, w_done, i, execute_main,
                   my, calls, ran>>

\* All are there. Both callers free a pool of one thread at once.
CreateReturns ==
    /\ pc[Main] = "create" /\ i > nb_workers
    /\ Go(Main, IF nb_threads <= 1 THEN "free" ELSE "idle")
    /\ UNCHANGED <<pool, args, counters, done, finished, w_done, i, execute_main, my, calls, ran>>

-----------------------------------------------------------------------------
(* Main: avpriv_slicethread_execute(). libavfilter never asks for          *)
(* main_func, libavcodec does whenever the codec has one set.              *)

Execute(n, em) ==
    /\ pc[Main] = "idle" /\ calls < MaxCalls
    /\ calls' = calls + 1
    /\ nb_jobs' = n
    /\ nb_active_threads' = IF n < nb_threads THEN n ELSE nb_threads
    /\ execute_main' = (main_func /\ em)
    /\ ran' = [j \in Jobs |-> 0]
    /\ Go(Main, "reset")
    /\ UNCHANGED <<pool, counters, done, finished, w_done, i, my>>

\* A bug: the counter of thread numbers keeps its value of the last call.
ResetWithoutFirst ==
    /\ pc[Main] = "reset"
    /\ current_job' = nb_active_threads
    /\ i' = 1
    /\ Go(Main, "wakeup")
    /\ UNCHANGED <<pool, args, first_job, done, finished, w_done, execute_main, my, calls, ran>>

\* A bug: the counter of jobs keeps its value of the last call.
ResetWithoutCurrent ==
    /\ pc[Main] = "reset"
    /\ first_job' = 0
    /\ i' = 1
    /\ Go(Main, "wakeup")
    /\ UNCHANGED <<pool, args, current_job, done, finished, w_done, execute_main, my, calls, ran>>

\* A bug: the jobs are handed out from 0 again.
ResetToZero ==
    /\ pc[Main] = "reset"
    /\ first_job' = 0
    /\ current_job' = 0
    /\ i' = 1
    /\ Go(Main, "wakeup")
    /\ UNCHANGED <<pool, args, done, finished, w_done, execute_main, my, calls, ran>>

ResetCounters ==
    /\ pc[Main] = "reset"
    /\ first_job' = 0
    /\ current_job' = nb_active_threads
    /\ i' = 1
    /\ Go(Main, "wakeup")
    /\ UNCHANGED <<pool, args, done, finished, w_done, execute_main, my, calls, ran>>

\* The workers execute() wakes: main_func takes Main's place in running jobs
\* only when it is not called.
nb_woken == IF execute_main THEN nb_active_threads ELSE nb_active_threads - 1

\* w->mutex is free only while the worker is inside pthread_cond_wait().
WakeWorker ==
    /\ pc[Main] = "wakeup" /\ i <= nb_woken
    /\ pc[i] = "wait"
    /\ w_done' = [w_done EXCEPT ![i] = FALSE]
    /\ i' = i + 1
    /\ UNCHANGED <<pool, args, counters, done, finished, pc, execute_main, my, calls, ran>>

AllWoken ==
    /\ pc[Main] = "wakeup" /\ i > nb_woken
    /\ Go(Main, IF execute_main THEN "main_func" ELSE "load")
    /\ UNCHANGED <<pool, args, counters, done, finished, w_done, i, execute_main, my, calls, ran>>

MainFunc ==
    /\ pc[Main] = "main_func"
    /\ Go(Main, "wait_done")
    /\ UNCHANGED <<pool, args, counters, done, finished, w_done, i, execute_main, my, calls, ran>>

WaitDone ==
    /\ pc[Main] = "wait_done" /\ done
    /\ done' = FALSE
    /\ Go(Main, "idle")
    /\ UNCHANGED <<pool, args, counters, finished, w_done, i, execute_main, my, calls, ran>>

-----------------------------------------------------------------------------
(* run_jobs(), in Main and in the workers it has woken.                    *)

Load(t) ==
    /\ pc[t] = "load"
    /\ my' = [my EXCEPT ![t].nb_jobs = nb_jobs, ![t].nb_active = nb_active_threads]
    /\ Go(t, "claim")
    /\ UNCHANGED <<pool, args, counters, done, finished, w_done, i, execute_main, calls, ran>>

\* The first job of a thread is its thread number.
FirstJob(t) ==
    /\ pc[t] = "claim"
    /\ first_job' = first_job + 1
    /\ my' = [my EXCEPT ![t].first = first_job, ![t].current = first_job]
    /\ ran' = [ran EXCEPT ![first_job] = @ + 1]
    /\ Go(t, "job")
    /\ UNCHANGED <<pool, args, current_job, done, finished, w_done, i, execute_main, calls>>

\* Its job ended, a thread takes the next one ...
NextJob(t) ==
    /\ pc[t] = "job" /\ current_job < my[t].nb_jobs
    /\ current_job' = current_job + 1
    /\ my' = [my EXCEPT ![t].current = current_job]
    /\ ran' = [ran EXCEPT ![current_job] = @ + 1]
    /\ UNCHANGED <<pool, args, first_job, done, finished, w_done, pc, i, execute_main, calls>>

\* Two bugs: the first thread that finds no job reports, or none does.
IsFirst(t) == current_job = my[t].nb_jobs
IsBeyond(t) == current_job = my[t].nb_jobs + my[t].nb_active

IsLast(t) == current_job = my[t].nb_jobs + my[t].nb_active - 1

\* ... or there is none left, and the thread learns whether it is the last one
\* to find that out.
NoMoreJobs(t) ==
    /\ pc[t] = "job" /\ current_job >= my[t].nb_jobs
    /\ current_job' = current_job + 1
    /\ my' = [my EXCEPT ![t] = NoLocals]
    /\ Go(t, IF t = Main THEN IF IsLast(t) THEN "idle" ELSE "wait_done"
                         ELSE IF IsLast(t) THEN "report" ELSE "again")
    /\ UNCHANGED <<pool, args, first_job, done, finished, w_done, i, execute_main,
                   calls, ran>>

-----------------------------------------------------------------------------
(* thread_worker().                                                        *)

\* w->done is set and the worker waits, at first and after every call.
Wait(w) ==
    /\ \/ pc[w] = "new" /\ pc[Main] = "created"
       \/ pc[w] = "again"
    /\ w_done' = [w_done EXCEPT ![w] = TRUE]
    /\ Go(w, "wait")
    /\ UNCHANGED <<pool, args, counters, done, finished, i, execute_main, my, calls, ran>>

Woken(w) ==
    /\ pc[w] = "wait" /\ ~w_done[w]
    /\ Go(w, IF finished THEN "gone" ELSE "load")
    /\ UNCHANGED <<pool, args, counters, done, finished, w_done, i, execute_main, my, calls, ran>>

Report(w) ==
    /\ pc[w] = "report"
    /\ done' = TRUE
    /\ Go(w, "again")
    /\ UNCHANGED <<pool, args, counters, finished, w_done, i, execute_main, my, calls, ran>>

-----------------------------------------------------------------------------
(* Main: avpriv_slicethread_free().                                        *)

Free ==
    /\ pc[Main] \in {"idle", "free"}
    /\ finished' = TRUE
    /\ i' = 1
    /\ Go(Main, "wake_free")
    /\ UNCHANGED <<pool, args, counters, done, w_done, execute_main, my, calls, ran>>

WakeToFree ==
    /\ pc[Main] = "wake_free" /\ i <= nb_workers
    /\ pc[i] = "wait"
    /\ w_done' = [w_done EXCEPT ![i] = FALSE]
    /\ i' = i + 1
    /\ UNCHANGED <<pool, args, counters, done, finished, pc, execute_main, my, calls, ran>>

Join ==
    /\ pc[Main] = "wake_free" /\ i > nb_workers
    /\ \A w \in 1..nb_workers : pc[w] = "gone"
    /\ Go(Main, "freed")
    /\ UNCHANGED <<pool, args, counters, done, finished, w_done, i, execute_main, my, calls, ran>>

-----------------------------------------------------------------------------
RunJobs(t) == Load(t) \/ FirstJob(t) \/ NextJob(t) \/ NoMoreJobs(t)
Worker(w) == RunJobs(w) \/ Wait(w) \/ Woken(w) \/ Report(w)
FreeSteps == WakeToFree \/ Join \/ (pc[Main] = "free" /\ Free)
MainSteps ==
    \/ Create \/ Created \/ CreateReturns
    \/ ResetCounters \/ WakeWorker \/ AllWoken \/ MainFunc \/ WaitDone
    \/ RunJobs(Main)
    \/ FreeSteps
Caller == (\E n \in 1..MaxJobs, em \in BOOLEAN : Execute(n, em)) \/ Free

Next == MainSteps \/ CreateFails \/ Caller \/ \E w \in Workers : Worker(w)

Spec == Init /\ [][Next]_vars

\* The threads are scheduled and the jobs end; nothing makes a caller call.
Fairness == WF_vars(MainSteps) /\ \A w \in Workers : WF_vars(Worker(w))
FairSpec == Spec /\ Fairness

-----------------------------------------------------------------------------
(* Properties.                                                             *)

MainPlaces == {"create", "created", "idle", "reset", "wakeup", "main_func",
               "wait_done", "free", "wake_free", "freed"}
WorkerPlaces == {"none", "new", "wait", "again", "report", "gone"}
JobPlaces == {"load", "claim", "job"}

TypeOK ==
    /\ nb_threads \in 0..MaxThreads /\ main_func \in BOOLEAN
    /\ nb_jobs \in 0..MaxJobs /\ nb_active_threads \in 0..MaxThreads
    /\ first_job \in 0..MaxThreads /\ current_job \in 0..(MaxJobs + MaxThreads)
    /\ done \in BOOLEAN /\ finished \in BOOLEAN /\ execute_main \in BOOLEAN
    /\ w_done \in [Workers -> BOOLEAN]
    /\ pc[Main] \in MainPlaces \cup JobPlaces
    /\ pc \in [Threads -> MainPlaces \cup WorkerPlaces \cup JobPlaces]
    /\ i \in 1..(MaxThreads + 1)
    /\ my \in [Threads -> [nb_jobs : 0..MaxJobs, nb_active : 0..MaxThreads,
                           first : 0..MaxThreads, current : 0..MaxJobs]]
    /\ calls \in 0..MaxCalls
    /\ ran \in [Jobs -> Nat]

\* However the threads race for the counters, no job of a call is begun twice
\* and none beyond its number; and when execute() returns all of them ran and no
\* thread is still in one, so the caller may reuse what the jobs worked on.
EachJobOnce ==
    /\ \A j \in Jobs : ran[j] <= (IF j < nb_jobs THEN 1 ELSE 0)
    /\ pc[Main] = "idle" =>
          /\ \A j \in Jobs : j < nb_jobs => ran[j] = 1
          /\ \A t \in Threads : pc[t] \notin JobPlaces

\* Threads that are in a job at the same time have different thread numbers,
\* all below the nb_threads the job is told: the numbers index scratch buffers.
OwnNumber ==
    \A t \in Threads : pc[t] = "job" =>
        /\ my[t].first < my[t].nb_active
        /\ \A u \in Threads \ {t} : pc[u] = "job" => my[t].first # my[u].first

\* Main clears w->done only of a worker that is in its wait and has not been
\* woken yet. execute() does not wait for the workers of the last call to come
\* back to their wait, nor look at w->done before it clears it: were it to
\* clear it twice, a wake-up would be lost and the call would never end.
NoLostWakeup ==
    [][\A w \in Workers : WakeWorker /\ i = w => w_done[w]]_vars

\* execute() returns and so does avpriv_slicethread_free(), in which every
\* worker there is has ended.
CallsReturn ==
    /\ pc[Main] = "reset" ~> pc[Main] = "idle"
    /\ pc[Main] \in {"free", "wake_free"} ~> pc[Main] = "freed"
=============================================================================

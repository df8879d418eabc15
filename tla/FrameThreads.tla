---------------------------- MODULE FrameThreads ---------------------------
(***************************************************************************)
(* Frame threading of libavcodec/pthread_frame.c. The user's thread, in    *)
(* ff_thread_receive_frame(), hands one packet after another to N decoder  *)
(* threads in turn and returns their frames in the same turn. A thread     *)
(* starts from the context its predecessor has after                       *)
(* ff_thread_finish_setup(). Two locks restrict hardware decoding:         *)
(* hwaccel_mutex, for a hwaccel that is not thread-safe, whose state       *)
(* travels from thread to thread through the stash; and async_lock, for    *)
(* one that is not async-safe, which the user holds outside of the         *)
(* functions of this file.                                                 *)
(*                                                                         *)
(* The codec is external: at every packet it may read a header, choose     *)
(* between the hwaccel and none and finish its setup, or do none of this;  *)
(* it may wait for the frame before; it gives up to one frame and ends     *)
(* with success or an error. A thread's mutex is held by its worker unless *)
(* the worker is in its wait (pc "wait"); hwaccel_serializing and          *)
(* async_serializing are set exactly while the thread owns the lock.       *)
(***************************************************************************)
EXTENDS Integers

CONSTANTS N,            \* thread_count
          Hwaccels,     \* the kinds of hwaccel a codec may have, a subset of
                        \* {"none", "plain", "async", "safe"}
          MaxPackets,   \* bound: packets the user sends
          MaxIncidents  \* bound: flushes, errors of the codec and failed
                        \* allocations and submissions

ASSUME SizesAssumption ==
    /\ N \in Nat \ {0, 1}
    /\ Hwaccels \subseteq {"none", "plain", "async", "safe"}
    /\ MaxPackets \in Nat /\ MaxIncidents \in Nat

P == 0..(N - 1)
User == N           \* the user's thread, as an owner of async_lock
Nobody == N + 1     \* no owner, no thread

VARIABLES
    codec,          \* [hwaccel, utc, delay]: the kind of hwaccel, has it
                    \* update_thread_context(), has it AV_CODEC_CAP_DELAY
    th,             \* PerThreadContext of each thread
    fctx,           \* FrameThreadContext
    async_lock, hwaccel_mutex,      \* their owners
    user,           \* the user's thread and AVCodecContext
    setup_of,       \* history: the last packet of which a codec has read a header
    lost,           \* history: a flush left the context of that packet behind
    left            \* [packets, incidents]: what the bounds leave

history == <<setup_of, lost>>
vars == <<codec, th, fctx, async_lock, hwaccel_mutex, user, history, left>>
locks == <<async_lock, hwaccel_mutex>>

\* hwaccel_serial(): the caps of "plain" are none, of "async" ASYNC_SAFE, of
\* "safe" ASYNC_SAFE and THREAD_SAFE.
Serial(h) == h \in {"plain", "async"}
AsyncUnsafe(h) == h = "plain"

Thread0 == [pc |-> "wait", state |-> "ready", hw |-> "none", threadsafe |-> FALSE,
            ended |-> FALSE, die |-> FALSE,
            pkt |-> 0, eof |-> FALSE, ctx |-> 0, df |-> 0, result |-> "ok"]

Init ==
    /\ codec \in [hwaccel : Hwaccels, utc : BOOLEAN, delay : BOOLEAN]
    /\ codec.hwaccel # "none" => codec.utc
    /\ th = [p \in P |-> Thread0]
    /\ fctx = [next_decoding |-> 0, next_finished |-> 0, prev |-> Nobody,
               stash |-> "none", pkt |-> 0, df |-> 0, result |-> "ok"]
    /\ async_lock = User
    /\ hwaccel_mutex = Nobody
    /\ user = [pc |-> "user", input |-> FALSE, draining |-> FALSE, ended |-> FALSE,
               sent |-> 0, p |-> 0, hw |-> "none", ctx |-> 0]
    /\ setup_of = 0 /\ lost = FALSE
    /\ left = [packets |-> MaxPackets, incidents |-> MaxIncidents]

Incident == left.incidents > 0 /\ left' = [left EXCEPT !.incidents = @ - 1]

-----------------------------------------------------------------------------
(* A decoder thread: frame_worker_thread().                                *)

To(p, label) == th' = [th EXCEPT ![p].pc = label]

\* A bug: the inherited hwaccel is used without the mutex.
StartUnlocked(t) == IF codec.utc THEN "decode" ELSE "publish"

\* Where a worker goes from here: to the next lock it needs, or further.
StartOf(t) == IF ~codec.utc THEN "publish"
              ELSE IF Serial(t.hw) THEN "lock_hwaccel" ELSE "decode"
SetupOf(p, h) == IF Serial(h) /\ hwaccel_mutex # p THEN "lock_setup"
                 ELSE IF AsyncUnsafe(h) THEN "lock_async" ELSE "publish"
ReleaseOf(p) == IF hwaccel_mutex = p THEN "release"
                ELSE IF async_lock = p THEN "unlock" ELSE "ready"

\* Woken with a packet, or to die. A codec without update_thread_context() is
\* done with its setup; a thread that got an unsafe hwaccel takes the mutex.
Wake(p) ==
    /\ th[p].pc = "wait"
    /\ th[p].state # "ready" \/ th[p].die
    /\ To(p, IF th[p].die THEN "gone" ELSE StartOf(th[p]))
    /\ UNCHANGED <<codec, fctx, locks, user, history, left>>

LockHwaccel(p) ==
    /\ th[p].pc = "lock_hwaccel" /\ hwaccel_mutex = Nobody
    /\ hwaccel_mutex' = p
    /\ To(p, "decode")
    /\ UNCHANGED <<codec, fctx, async_lock, user, history, left>>

\* A bug: on this path the thread keeps its locks.
AllocFailsLocked(p) ==
    /\ th[p].pc = "decode" /\ Incident
    /\ th' = [th EXCEPT ![p].pc = "ready", ![p].result = "error"]
    /\ UNCHANGED <<codec, fctx, locks, user, history>>

\* No frame can be allocated: the thread ends the packet where it is.
AllocFails(p) ==
    /\ th[p].pc = "decode" /\ Incident
    /\ th' = [th EXCEPT ![p].pc = ReleaseOf(p), ![p].result = "error"]
    /\ UNCHANGED <<codec, fctx, locks, user, history>>

\* ff_thread_finish_setup() begins, with the hwaccel h.
FinishSetup(t, p, h) ==
    [t EXCEPT !.hw = h, !.threadsafe = (h = "safe"), !.pc = SetupOf(p, h)]

\* The codec reads a header, which may call ff_get_format(), and calls
\* ff_thread_finish_setup().
ReadHeader(p) ==
    /\ th[p].pc = "decode" /\ th[p].state = "setup"
    /\ codec.utc /\ ~th[p].eof
    /\ \E h \in {"none", codec.hwaccel} :
          th' = [th EXCEPT ![p] = [FinishSetup(@, p, h) EXCEPT !.ctx = th[p].pkt]]
    /\ setup_of' = th[p].pkt /\ lost' = FALSE
    /\ UNCHANGED <<codec, fctx, locks, user, left>>

\* The codec comes to a picture that refers to the one before ...
Await(p) ==
    /\ th[p].pc = "decode" /\ th[p].df = 0
    /\ th[p].eof => codec.delay
    /\ To(p, "await")
    /\ UNCHANGED <<codec, fctx, locks, user, history, left>>

\* ... waits for it in ff_thread_await_progress(), and returns the frame. A
\* codec has reported all of a picture when it ends with the packet.
Decoding(p) ==
    \/ th[p].pc = "wait" /\ th[p].state # "ready"
    \/ th[p].pc \notin {"wait", "release", "unlock", "ready", "gone"}

Frame(p) ==
    /\ th[p].pc = "await"
    /\ \A q \in P : th[q].pkt < th[p].pkt => ~Decoding(q)
    /\ th' = [th EXCEPT ![p].pc = "decode", ![p].df = 1]
    /\ UNCHANGED <<codec, fctx, locks, user, history, left>>

\* The packet is used up, in error, or at its end; an empty one is passed on to
\* a codec with delay only, which may fail on it. A codec that has not called
\* ff_thread_finish_setup() is made to.
Ending(t) == IF ~t.eof THEN {"ok", "error"}
             ELSE IF codec.delay THEN {"eof", "error"} ELSE {"eof"}

Ends(p) ==
    /\ th[p].pc = "decode"
    /\ \E r \in Ending(th[p]) :
          LET t == [th[p] EXCEPT !.result = r, !.ended = (th[p].state = "setup")] IN
          /\ th' = [th EXCEPT ![p] = IF t.state = "setup"
                                     THEN FinishSetup(t, p, t.hw)
                                     ELSE [t EXCEPT !.pc = ReleaseOf(p)]]
          /\ IF r = "error" THEN Incident ELSE UNCHANGED left
    /\ UNCHANGED <<codec, fctx, locks, user, history>>

\* An unsafe hwaccel is wiped: the next thread has it from the stash.
Release(p) ==
    /\ th[p].pc = "release"
    /\ th' = [th EXCEPT ![p].hw = "none",
                        ![p].pc = IF async_lock = p THEN "unlock" ELSE "ready"]
    /\ hwaccel_mutex' = Nobody
    /\ UNCHANGED <<codec, fctx, async_lock, user, history, left>>

Unlock(p) ==
    /\ th[p].pc = "unlock"
    /\ To(p, "ready")
    /\ async_lock' = Nobody
    /\ UNCHANGED <<codec, fctx, hwaccel_mutex, user, history, left>>

Ready(p) ==
    /\ th[p].pc = "ready"
    /\ th' = [th EXCEPT ![p].pc = "wait", ![p].state = "ready"]
    /\ UNCHANGED <<codec, fctx, locks, user, history, left>>

-----------------------------------------------------------------------------
(* The rest of ff_thread_finish_setup(), in a decoder thread.              *)

LockInSetup(p) ==
    /\ th[p].pc = "lock_setup" /\ hwaccel_mutex = Nobody
    /\ hwaccel_mutex' = p
    /\ To(p, IF AsyncUnsafe(th[p].hw) THEN "lock_async" ELSE "publish")
    /\ UNCHANGED <<codec, fctx, async_lock, user, history, left>>

AsyncLock(p) ==
    /\ th[p].pc = "lock_async" /\ async_lock = Nobody
    /\ async_lock' = p
    /\ To(p, "publish")
    /\ UNCHANGED <<codec, fctx, hwaccel_mutex, user, history, left>>

\* The stash is filled, then the state tells the user's thread.
Publish(p) ==
    /\ th[p].pc = "publish"
    /\ fctx' = [fctx EXCEPT !.stash = IF Serial(th[p].hw) THEN th[p].hw ELSE @]
    /\ th' = [th EXCEPT ![p].state = "finished", ![p].ended = FALSE,
                        ![p].pc = IF th[p].ended THEN ReleaseOf(p) ELSE "decode"]
    /\ UNCHANGED <<codec, locks, user, history, left>>

Worker(p) ==
    \/ Wake(p) \/ LockHwaccel(p) \/ AllocFails(p) \/ ReadHeader(p)
    \/ Await(p) \/ Frame(p) \/ Ends(p) \/ Release(p) \/ Unlock(p) \/ Ready(p)
    \/ LockInSetup(p) \/ AsyncLock(p) \/ Publish(p)

-----------------------------------------------------------------------------
(* The user's thread: ff_thread_receive_frame().                           *)

Goto(label) == user' = [user EXCEPT !.pc = label]
WorkersKeep == UNCHANGED <<codec, th, hwaccel_mutex, history>>

\* The user sends a packet, unless one is still buffered, the end of the stream
\* or nothing, and receives. A user that has got AVERROR_EOF only flushes or
\* frees.
Receive ==
    /\ user.pc = "user" /\ ~user.ended
    /\ \/ /\ left.packets > 0 /\ ~user.draining /\ ~user.input
          /\ left' = [left EXCEPT !.packets = @ - 1]
          /\ user' = [user EXCEPT !.pc = "loop", !.input = TRUE]
       \/ /\ user' = [user EXCEPT !.pc = "loop", !.draining = TRUE]
          /\ UNCHANGED left
       \/ Goto("loop") /\ UNCHANGED left
    /\ async_lock' = Nobody
    /\ UNCHANGED fctx /\ WorkersKeep

HasResult == fctx.df > 0 \/ fctx.result # "ok"
HasPacket == user.input \/ user.draining

\* The buffered packet comes before the end of the stream.
Empty == user.draining /\ ~user.input

\* While there is no result to return, submit_packet() takes the next packet.
\* The thread's mutex is free when the worker is in its wait. If the user's
\* context cannot be copied, the packet is lost and the error returned.
Submit ==
    /\ user.pc = "loop" /\ ~HasResult /\ HasPacket
    /\ th[fctx.next_decoding].pc = "wait"
    /\ \/ Goto("previous") /\ UNCHANGED left
       \/ Incident /\ user' = [user EXCEPT !.pc = "failed", !.input = FALSE]
    /\ UNCHANGED <<fctx, async_lock>> /\ WorkersKeep

\* update_context_from_thread(): the hwaccel of a thread-safe kind is copied,
\* another one is not the destination's any more.
Updated(dst, src) ==
    LET kept == IF dst.threadsafe /\ (~src.threadsafe \/ dst.hw # src.hw)
                THEN "none" ELSE dst.hw
    IN [dst EXCEPT !.ctx = IF codec.utc THEN src.ctx ELSE @,
                   !.hw = IF src.threadsafe THEN src.hw ELSE kept,
                   !.threadsafe = src.threadsafe]

\* It can fail before it gets to the hwaccel, or, when there is one to copy, at
\* it: the destination then has none left.
FailedCopies(dst, src) ==
    IF ~codec.utc THEN {}
    ELSE {dst, [dst EXCEPT !.ctx = src.ctx]} \cup
         IF src.threadsafe
         THEN {[dst EXCEPT !.ctx = src.ctx, !.hw = "none",
                           !.threadsafe = @ /\ dst.hw = src.hw]}
         ELSE {}

\* No frame is returned until all threads have something to do.
AfterSubmit(next) == IF next # fctx.next_finished /\ ~Empty THEN "loop" ELSE "collect"

\* A bug: the previous thread is not waited for.
AnyTime(q) == TRUE

SetUpDone(q) == q # Nobody => th[q].state # "setup"

\* The previous thread is through with its setup: its context is copied, the
\* stash handed over and the thread woken; or the copy fails.
Previous ==
    LET p == fctx.next_decoding
        q == fctx.prev
        next == (p + 1) % N
        copies == q # Nobody /\ (~Empty \/ codec.delay)
        t == IF copies THEN Updated(th[p], th[q]) ELSE th[p]
    IN
    /\ user.pc = "previous"
    /\ SetUpDone(q)
    /\ \/ /\ user' = [user EXCEPT !.pc = AfterSubmit(next), !.input = FALSE,
                                  !.sent = @ + 1]
          /\ th' = [th EXCEPT ![p] =
                      [t EXCEPT !.state = "setup",
                                !.pkt = user.sent + 1, !.eof = Empty,
                                !.hw = IF t.threadsafe THEN @ ELSE fctx.stash]]
          /\ fctx' = [fctx EXCEPT !.prev = p, !.next_decoding = next,
                                  !.stash = IF t.threadsafe THEN @ ELSE t.hw]
          /\ UNCHANGED left
       \/ /\ copies /\ Incident
          /\ user' = [user EXCEPT !.pc = "failed", !.input = FALSE]
          /\ \E copy \in FailedCopies(th[p], th[q]) : th' = [th EXCEPT ![p] = copy]
          /\ UNCHANGED fctx
    /\ UNCHANGED <<codec, locks, history>>

\* A bug: only the setup of the thread is waited for, not its end.
CollectEarly ==
    LET p == fctx.next_finished IN
    /\ user.pc = "collect" /\ th[p].state # "setup"
    /\ fctx' = [fctx EXCEPT !.next_finished = (p + 1) % N, !.pkt = th[p].pkt,
                            !.df = th[p].df, !.result = th[p].result]
    /\ th' = [th EXCEPT ![p].df = 0, ![p].result = "ok"]
    /\ user' = [user EXCEPT !.pc = "loop", !.ctx = th[p].ctx]
    /\ UNCHANGED <<codec, locks, history, left>>

\* A bug: the number of the thread to collect from does not wrap.
CollectUnwrapped ==
    LET p == fctx.next_finished IN
    /\ user.pc = "collect" /\ th[p].state = "ready"
    /\ fctx' = [fctx EXCEPT !.next_finished = p + 1, !.pkt = th[p].pkt,
                            !.df = th[p].df, !.result = th[p].result]
    /\ th' = [th EXCEPT ![p].df = 0, ![p].result = "ok"]
    /\ user' = [user EXCEPT !.pc = "loop", !.ctx = th[p].ctx]
    /\ UNCHANGED <<codec, locks, history, left>>

\* The user's context is brought up to date; nobody looks whether that fails.
Collect ==
    LET p == fctx.next_finished IN
    /\ user.pc = "collect" /\ th[p].state = "ready"
    /\ fctx' = [fctx EXCEPT !.next_finished = (p + 1) % N, !.pkt = th[p].pkt,
                            !.df = th[p].df, !.result = th[p].result]
    /\ th' = [th EXCEPT ![p].df = 0, ![p].result = "ok"]
    /\ \/ user' = [user EXCEPT !.pc = "loop", !.ctx = th[p].ctx] /\ UNCHANGED left
       \/ Goto("loop") /\ Incident
    /\ UNCHANGED <<codec, locks, history>>

\* The frames of a packet are returned before its error. With no packet left
\* nor a result, or after a failed submission, there is nothing to return.
Return ==
    /\ \/ user.pc = "failed"
       \/ user.pc = "loop" /\ (HasResult \/ ~HasPacket)
    /\ async_lock = Nobody
    /\ async_lock' = User
    /\ LET frame == user.pc = "loop" /\ fctx.df > 0
           last == user.pc = "loop" /\ fctx.df = 0
       IN /\ fctx' = [fctx EXCEPT !.df = IF frame THEN @ - 1 ELSE @,
                                  !.result = IF last THEN "ok" ELSE @]
          /\ user' = [user EXCEPT !.pc = "user", !.ended = last /\ fctx.result = "eof"]
    /\ UNCHANGED left /\ WorkersKeep

-----------------------------------------------------------------------------
(* The user's thread: ff_thread_flush() and ff_frame_thread_free(), which  *)
(* both begin with park_frame_worker_threads().                            *)

Park(label) ==
    /\ user.pc = "user"
    /\ async_lock' = Nobody
    /\ Goto(label)
    /\ UNCHANGED fctx /\ WorkersKeep

Flush == Park("flush") /\ Incident
Free == Park("free") /\ UNCHANGED left

Parked ==
    /\ \A p \in P : th[p].state = "ready"
    /\ async_lock = Nobody
    /\ async_lock' = User

\* The threads have nothing to return any more, and thread 0 goes on from t.
Flushed(t) ==
    th' = [p \in P |-> [(IF p = 0 THEN t ELSE th[p]) EXCEPT !.df = 0, !.result = "ok"]]

\* Thread 0 will be the next one and has no predecessor then: it gets the
\* context now, and nobody looks whether that fails. Frames and results not
\* returned yet are dropped. The thread of an empty packet was not given the
\* context of the one before when the codec has no delay, and has none to pass
\* on.
FlushParked ==
    LET q == fctx.prev
        copies == q \in P \ {0}
    IN
    /\ user.pc = "flush" /\ Parked
    /\ \/ /\ Flushed(IF copies THEN Updated(th[0], th[q]) ELSE th[0])
          /\ lost' = (lost \/ (q # Nobody /\ th[q].eof /\ ~codec.delay))
       \/ /\ copies /\ \E t \in FailedCopies(th[0], th[q]) : Flushed(t)
          /\ lost' = TRUE
    /\ fctx' = [fctx EXCEPT !.next_decoding = 0, !.next_finished = 0, !.prev = Nobody,
                            !.df = 0, !.result = "ok", !.pkt = user.sent]
    /\ user' = [user EXCEPT !.pc = "user", !.input = FALSE, !.draining = FALSE,
                            !.ended = FALSE]
    /\ UNCHANGED <<codec, hwaccel_mutex, setup_of, left>>

FreeParked ==
    /\ user.pc = "free" /\ Parked
    /\ Goto("kill")
    /\ UNCHANGED <<fctx, left>> /\ WorkersKeep

\* The threads die one after another; each one's own hwaccel is freed.
Kill ==
    LET p == user.p IN
    /\ user.pc = "kill" /\ p \in P /\ th[p].pc = "wait"
    /\ th' = [th EXCEPT ![p].die = TRUE]
    /\ Goto("join")
    /\ UNCHANGED <<codec, fctx, locks, history, left>>

Join ==
    LET p == user.p IN
    /\ user.pc = "join" /\ th[p].pc = "gone"
    /\ th' = [th EXCEPT ![p].hw = "none"]
    /\ user' = [user EXCEPT !.pc = "kill", !.p = p + 1]
    /\ UNCHANGED <<codec, fctx, locks, history, left>>

\* What is stashed goes to the user's context, to be freed with it.
Freed ==
    /\ user.pc = "kill" /\ user.p = N
    /\ user' = [user EXCEPT !.pc = "freed", !.hw = fctx.stash]
    /\ fctx' = [fctx EXCEPT !.stash = user.hw]
    /\ UNCHANGED <<async_lock, left>> /\ WorkersKeep

-----------------------------------------------------------------------------
UserSteps ==
    \/ Submit \/ Previous \/ Collect \/ Return
    \/ FlushParked \/ FreeParked \/ Kill \/ Join \/ Freed
Caller == Receive \/ Flush \/ Free

Next == UserSteps \/ Caller \/ \E p \in P : Worker(p)

Spec == Init /\ [][Next]_vars

\* The threads are scheduled and a codec's call ends; nothing makes the user
\* call.
Fairness == WF_vars(UserSteps) /\ \A p \in P : WF_vars(Worker(p))
FairSpec == Spec /\ Fairness

-----------------------------------------------------------------------------
(* Properties.                                                             *)

Results == {"ok", "error", "eof"}
Kinds == {"none", "plain", "async", "safe"}
Sent == 0..(MaxPackets + (N + 2) * (MaxIncidents + 1))

ThreadType ==
    [pc : {"wait", "lock_hwaccel", "decode", "await", "lock_setup", "lock_async",
           "publish", "release", "unlock", "ready", "gone"},
     state : {"ready", "setup", "finished"}, hw : Kinds,
     threadsafe : BOOLEAN, ended : BOOLEAN, die : BOOLEAN, pkt : Sent, eof : BOOLEAN, ctx : Sent,
     df : 0..1, result : Results]

TypeOK ==
    /\ codec \in [hwaccel : Kinds, utc : BOOLEAN, delay : BOOLEAN]
    /\ \A p \in P : th[p] \in ThreadType
    /\ fctx \in [next_decoding : P, next_finished : P, prev : P \cup {Nobody},
                 stash : Kinds, pkt : Sent, df : 0..1, result : Results]
    /\ async_lock \in P \cup {User, Nobody}
    /\ hwaccel_mutex \in P \cup {Nobody}
    /\ user.pc \in {"user", "loop", "previous", "collect", "failed", "flush", "free",
                    "kill", "join", "freed"}
    /\ user.sent \in Sent /\ user.p \in 0..N /\ user.hw \in Kinds
    /\ setup_of \in Sent /\ lost \in BOOLEAN

\* Packets come back in the order they were sent, none twice and none skipped:
\* a thread's result is collected only when the packet before has been
\* collected and all of it returned, a thread gets a packet only when all of
\* its last result was collected, and the end is returned only when nothing is left
\* behind in a thread.
OutputInOrder ==
    [][/\ Collect =>
            /\ th[fctx.next_finished].pkt = fctx.pkt + 1
            /\ fctx.df = 0 /\ fctx.result = "ok"
       /\ \A p \in P : th'[p].pkt # th[p].pkt =>
            /\ th[p].state = "ready" /\ th[p].pkt <= fctx.pkt
            /\ th[p].df = 0 /\ th[p].result = "ok"
       /\ user'.ended /\ ~user.ended =>
            \A p \in P : th[p].pkt <= fctx.pkt \/ th[p].eof]_vars

\* A thread of a codec with update_thread_context() begins a packet with the
\* context that the last packet with a header, in the order of the stream, has
\* left, also after a failed submission and after a flush - save, up to the
\* next header, after a flush that could not copy the context or that came when
\* a codec without delay had been given an empty packet. And the user sees no
\* context later than the packet whose frames are returned.
ContextIsPredecessors ==
    /\ \A p \in P :
          codec.utc /\ th[p].pc = "decode" /\ th[p].state = "setup" /\ ~th[p].eof
             => th[p].ctx = setup_of \/ lost
    /\ user.ctx <= fctx.pkt

\* Two threads never decode with hwaccels that are not thread-safe at the same
\* time; while the user is outside of these functions no thread decodes with
\* one that is not async-safe; and what the code asserts holds: the stash is
\* empty when a thread fills it (a second state would leak) and a worker keeps
\* no unsafe hwaccel while it waits.
HwaccelAlone ==
    /\ \A p \in P : th[p].pc \in {"decode", "await"} =>
          /\ Serial(th[p].hw) => hwaccel_mutex = p
          /\ AsyncUnsafe(th[p].hw) /\ th[p].state = "finished" => async_lock = p
    /\ \A p \in P :
          /\ th[p].pc = "publish" => fctx.stash = "none"
          /\ th[p].state = "ready" => ~Serial(th[p].hw)

\* Every call returns: threads that wait for the locks, for each other's
\* pictures or for the user's thread never wait in a circle.
CallsReturn == user.pc \notin {"user", "freed"} ~> user.pc \in {"user", "freed"}
=============================================================================
